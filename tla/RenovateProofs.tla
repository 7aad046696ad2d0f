---------------------------- MODULE RenovateProofs ----------------------------
(***************************************************************************)
(* Proofs about Renovate: what its pull requests do to main, and that each *)
(* repair among them is released, for any number of pull requests, modules *)
(* and pushes by people.                                                   *)
(***************************************************************************)
EXTENDS Renovate, FiniteSetTheorems, TLAPS

-----------------------------------------------------------------------------
(* The inductive invariant *)

\* Runs are about a branch; and what the preflight let through is as it was
\* inspected, against a commit that main still has at its place.
InspectedInv(p) ==
    /\ phase[p] # "none" => branch[p] # NoBranch
    /\ phase[p] \in {"jobs", "accepted"} =>
          /\ base[p] \in 1..Tip
          /\ InspectCandidate(main[base[p]].tree, branch[p].tree, event[p].hint)

\* From j on, versions only rise up to i, if no commit between lowers them.
RisingInv ==
    \A j, i \in 1..Tip :
        j < i /\ (\A k \in (j + 1)..i : ~Lowers(k)) =>
            ~Less(main[i].tree.version, main[j].tree.version)

\* What the history of main says of its commits.
HistoryInv == RisingInv /\ MergedInScope /\ RepairsAreReleased

IInv ==
    /\ TypeOK
    /\ IsFiniteSet(edits)
    /\ \A p \in Pulls : InspectedInv(p)
    /\ HistoryInv

-----------------------------------------------------------------------------
(* Trees and versions *)

LEMMA NextPatchType ==
    ASSUME NEW v \in Versions \union {NoVersion}
    PROVE  NextPatch(v) \in Versions \union {NoVersion}
BY DEF NextPatch, Versions

\* Whatever people change, the result is a tree.
LEMMA ChangedTrees ==
    ASSUME NEW t \in Trees, NEW S \in SUBSET (Versions \union {NoVersion})
    PROVE  Changed(t, S) \subseteq Trees
BY DEF Changed, Trees, Marks

LEMMA ChosenVersions ==
    ASSUME NEW v \in Versions \union {NoVersion}
    PROVE  Chosen(v) \subseteq Versions \union {NoVersion}
<1>1. FirstTree.version \in Versions \union {NoVersion}
  BY RenovateAssumption DEF Trees
<1>2. v # NoVersion => <<v[1], v[2] + 1, 0>> \in Versions
  BY DEF Versions
<1> QED BY <1>1, <1>2, NextPatchType DEF Chosen

\* The order of versions, for three of them.
LEMMA LessFacts ==
    ASSUME NEW u \in Versions, NEW v \in Versions, NEW w \in Versions
    PROVE  /\ ~Less(v, u) /\ ~Less(w, v) => ~Less(w, u)
           /\ ~Less(v, u) /\ Less(v, w) => Less(u, w)
           /\ ~Less(v, v)
BY DEF Less, Versions

LEMMA NextPatchRises ==
    ASSUME NEW v \in Versions
    PROVE  NextPatch(v) \in Versions /\ Less(v, NextPatch(v)) /\ ~Less(NextPatch(v), v)
BY RenovateAssumption DEF NextPatch, Less, Versions

-----------------------------------------------------------------------------
(* Main *)

Commits == [tree : Trees, by : {"person", "renovate"}]

\* Main is not empty, and the tip has a tree.
LEMMA TipFacts ==
    ASSUME TypeOK
    PROVE  /\ Tip \in Nat \ {0}
           /\ TipTree \in Trees
           /\ \A i \in 1..Tip : main[i] \in Commits /\ main[i].tree \in Trees
<1>1. main \in Seq(Commits) /\ main # << >>
  BY DEF TypeOK, Commits
<1>2. Len(main) \in Nat \ {0} /\ \A i \in 1..Len(main) : main[i] \in Commits
  BY <1>1
<1>3. \A c \in Commits : c.tree \in Trees
  BY DEF Commits
<1> QED BY <1>2, <1>3 DEF Tip, TipTree

\* A commit comes after those that main has.
LEMMA Appended ==
    ASSUME TypeOK, NEW c \in Commits, main' = Append(main, c)
    PROVE  /\ main' \in Seq(Commits) /\ main' # << >>
           /\ Tip' = Tip + 1
           /\ main'[Tip + 1] = c
           /\ \A i \in 1..Tip : main'[i] = main[i]
<1>1. main \in Seq(Commits)
  BY DEF TypeOK, Commits
<1> QED BY <1>1 DEF Tip

LEMMA HistoryStays ==
    ASSUME HistoryInv, main' = main
    PROVE  HistoryInv'
BY DEF HistoryInv, RisingInv, MergedInScope, RepairsAreReleased, Lowers, Tip

\* A candidate that passes the inspection is confined, and releases if it must.
LEMMA Inspected ==
    ASSUME NEW old \in Trees, NEW new \in Trees, NEW hint \in BOOLEAN,
           InspectCandidate(old, new, hint)
    PROVE  /\ old.module = new.module /\ old.go = new.go /\ old.rest = new.rest
           /\ old.require = new.require <=> old.version = new.version
           /\ old.require # new.require => old.others = new.others
           /\ old.version \in Versions /\ new.version \in Versions
           /\ old.require # new.require => new.version = NextPatch(old.version)
<1>1. old.version \in Versions /\ new.version \in Versions
  BY DEF InspectCandidate, Comparable, Trees
<1>2. NextPatch(old.version) # old.version
  BY <1>1, NextPatchRises, LessFacts
<1>3. CASE NonReleasing(old, new)
  BY <1>1, <1>3 DEF InspectCandidate, Comparable, NonReleasing, SameRequire
<1>4. CASE SecurityPatch(old, new, hint)
  BY <1>1, <1>2, <1>4 DEF InspectCandidate, Comparable, SecurityPatch, SameRequire
<1> QED BY <1>3, <1>4 DEF InspectCandidate

\* The history goes on as it should with a commit of a person, and with one of
\* Renovate that has been inspected against the tip of main.
LEMMA HistoryGrowsBy ==
    ASSUME HistoryInv, NEW n \in Nat \ {0}, Tip = n, Tip' = n + 1,
           NEW c, c.tree \in Trees, main'[n + 1] = c,
           \A i \in 1..n : main'[i] = main[i] /\ main[i].tree \in Trees,
           NEW hint \in BOOLEAN,
           c.by = "renovate" => InspectCandidate(main[n].tree, c.tree, hint)
    PROVE  HistoryInv'
<1> DEFINE ver(i) == main[i].tree.version
<1>1. /\ Tip = n /\ Tip' = n + 1 /\ main'[n + 1] = c
      /\ \A i \in 1..n : main'[i] = main[i] /\ main[i].tree \in Trees
      /\ main[n].tree \in Trees /\ c.tree \in Trees
  OBVIOUS
<1>0. \A i \in 2..(n + 1) : i - 1 \in 1..n /\ main'[i - 1] = main[i - 1]
  BY <1>1
<1>2. \A k \in 2..n : Lowers(k)' <=> Lowers(k)
  BY <1>1 DEF Lowers
<1>3. \A k : k = n + 1 =>
        (Lowers(k)' <=> \/ ver(n) = NoVersion \/ c.tree.version = NoVersion
                        \/ Less(c.tree.version, ver(n)))
  BY <1>1 DEF Lowers
<1>4. \A i \in 1..n : ver(i) \in Versions \union {NoVersion}
  BY <1>1 DEF Trees
<1>5. c.tree.version \in Versions \union {NoVersion}
  BY <1>1 DEF Trees
<1>6. ASSUME NEW j \in 1..(n - 1), \A k \in (j + 1)..n : ~Lowers(k)
      PROVE  ver(j) \in Versions /\ ver(n) \in Versions /\ ~Less(ver(n), ver(j))
  <2>1. ~Lowers(j + 1) /\ ~Lowers(n)
    BY <1>6
  <2>2. ver(j) # NoVersion /\ ver(n) # NoVersion
    BY <2>1 DEF Lowers
  <2> QED BY <1>4, <1>6, <2>2 DEF HistoryInv, RisingInv
<1>7. RisingInv'
  <2> SUFFICES ASSUME NEW j \in 1..(n + 1), NEW i \in 1..(n + 1), j < i,
                      \A k \in (j + 1)..i : ~Lowers(k)'
      PROVE  ~Less(main'[i].tree.version, main'[j].tree.version)
    BY <1>1 DEF RisingInv
  <2>1. CASE i <= n
    <3>1. \A k \in (j + 1)..i : ~Lowers(k)
      BY <1>2, <2>1
    <3> QED BY <1>1, <2>1, <3>1 DEF HistoryInv, RisingInv
  <2>2. CASE i = n + 1
    <3>1. ver(n) \in Versions /\ c.tree.version \in Versions /\ ~Less(c.tree.version, ver(n))
      BY <1>3, <1>4, <1>5, <2>2
    <3>2. CASE j = n
      BY <1>1, <2>2, <3>1, <3>2
    <3>3. CASE j < n
      <4>1. \A k \in (j + 1)..n : ~Lowers(k)
        BY <1>2, <2>2
      <4>2. ver(j) \in Versions /\ ~Less(ver(n), ver(j))
        BY <1>6, <3>3, <4>1
      <4>3. ~Less(c.tree.version, ver(j))
        BY <3>1, <4>2, LessFacts
      <4> QED BY <1>1, <2>2, <3>3, <4>3
    <3> QED BY <2>2, <3>2, <3>3
  <2> QED BY <2>1, <2>2
<1>8. MergedInScope'
  <2> SUFFICES ASSUME NEW i \in 2..(n + 1), main'[i].by = "renovate"
      PROVE  LET old == main'[i - 1].tree
                 new == main'[i].tree
             IN  /\ old.module = new.module /\ old.go = new.go /\ old.rest = new.rest
                 /\ old.require = new.require <=> old.version = new.version
                 /\ old.require # new.require => old.others = new.others
    BY <1>1 DEF MergedInScope
  <2>1. CASE i <= n
    <3>1. i \in 2..n /\ main'[i] = main[i] /\ main'[i - 1] = main[i - 1]
      BY <1>0, <1>1, <2>1
    <3> QED BY <3>1 DEF HistoryInv, MergedInScope
  <2>2. CASE i = n + 1
    <3>1. InspectCandidate(main[n].tree, c.tree, hint)
      BY <1>1, <2>2
    <3>2. main'[i - 1].tree = main[n].tree /\ main'[i].tree = c.tree
      BY <1>1, <2>2
    <3> QED BY <1>1, <3>1, <3>2, Inspected
  <2> QED BY <2>1, <2>2
<1>9. RepairsAreReleased'
  <2> SUFFICES ASSUME NEW i \in 2..(n + 1), main'[i].by = "renovate",
                      main'[i - 1].tree.require # main'[i].tree.require
      PROVE  /\ ~Lowers(i)'
             /\ \A j \in 1..(i - 1) :
                   main'[j].tree.version = main'[i].tree.version
                       => \E k \in (j + 1)..i : Lowers(k)'
    BY <1>1 DEF RepairsAreReleased
  <2>1. CASE i <= n
    <3>0. i \in 2..n /\ main[i].by = "renovate" /\ main[i - 1].tree.require # main[i].tree.require
      BY <1>0, <1>1, <2>1
    <3>1. ~Lowers(i) /\ \A j \in 1..(i - 1) :
              ver(j) = ver(i) => \E k \in (j + 1)..i : Lowers(k)
      BY <3>0 DEF HistoryInv, RepairsAreReleased
    <3> QED BY <1>1, <1>2, <2>1, <3>1
  <2>2. CASE i = n + 1
    <3>1. InspectCandidate(main[n].tree, c.tree, hint) /\ main[n].tree.require # c.tree.require
      <4>1. c.by = "renovate"
        BY <1>1, <2>2
      <4>2. main'[i - 1].tree = main[n].tree /\ main'[i].tree = c.tree
        BY <1>1, <2>2
      <4> QED BY <1>1, <4>1, <4>2
    <3>2. ver(n) \in Versions /\ c.tree.version = NextPatch(ver(n))
      BY <1>1, <3>1, Inspected
    <3>3. c.tree.version \in Versions /\ Less(ver(n), c.tree.version) /\ ~Less(c.tree.version, ver(n))
      BY <3>2, NextPatchRises
    <3>4. ~Lowers(i)'
      BY <1>3, <2>2, <3>2, <3>3, RenovateAssumption
    <3>5. ASSUME NEW j \in 1..n, ver(j) = c.tree.version, \A k \in (j + 1)..i : ~Lowers(k)'
          PROVE  FALSE
      <4>1. CASE j = n
        BY <3>2, <3>3, <3>5, <4>1, LessFacts
      <4>2. CASE j < n
        <5>1. \A k \in (j + 1)..n : ~Lowers(k)
          BY <1>2, <2>2, <3>5
        <5>2. ~Less(ver(n), ver(j))
          BY <1>6, <4>2, <5>1
        <5> QED BY <3>3, <3>5, <5>2
      <4> QED BY <4>1, <4>2
    <3> QED BY <1>1, <2>2, <3>4, <3>5
  <2> QED BY <2>1, <2>2
<1> QED BY <1>7, <1>8, <1>9 DEF HistoryInv

LEMMA HistoryGrows ==
    ASSUME TypeOK, HistoryInv, NEW c \in Commits, main' = Append(main, c),
           NEW hint \in BOOLEAN,
           c.by = "renovate" => InspectCandidate(TipTree, c.tree, hint)
    PROVE  HistoryInv'
<1>1. /\ Tip \in Nat \ {0} /\ Tip' = Tip + 1 /\ main'[Tip + 1] = c
      /\ \A i \in 1..Tip : main'[i] = main[i] /\ main[i].tree \in Trees
      /\ c.tree \in Trees
  BY Appended, TipFacts DEF Commits
<1> QED BY <1>1, HistoryGrowsBy DEF TipTree

-----------------------------------------------------------------------------
(* Steps *)

LEMMA PrescribedTree ==
    ASSUME TypeOK, NEW p \in Pulls
    PROVE  Prescribed(p) \in Trees
<1>1. TipTree \in Trees
  BY TipFacts
<1>2. TipTree.version \in Versions \union {NoVersion}
  BY <1>1 DEF Trees
<1>3. NextPatch(TipTree.version) \in Versions \union {NoVersion}
  BY <1>2, NextPatchType
<1>4. CASE p \in Repairs
  <2>1. [TipTree.require EXCEPT ![Repaired[p]] = 2] \in [Deps -> 0..2]
    <3>1. TipTree.require \in [Deps -> 0..2]
      BY <1>1 DEF Trees
    <3>2. \A f \in [Deps -> 0..2] : \A d \in Deps : [f EXCEPT ![d] = 2] \in [Deps -> 0..2]
      OBVIOUS
    <3>3. Repaired[p] \in Deps
      BY <1>4, RenovateAssumption
    <3> QED BY <3>1, <3>2, <3>3
  <2>2. Prescribed(p) = [TipTree EXCEPT !.require = [TipTree.require EXCEPT ![Repaired[p]] = 2],
                                        !.version = NextPatch(TipTree.version), !.examples = 2]
    BY <1>1, <1>4 DEF Prescribed, Trees
  <2> QED BY <1>1, <1>3, <2>1, <2>2 DEF Trees, Marks
<1>5. CASE p \notin Repairs
  BY <1>1, <1>5 DEF Prescribed, Trees, Marks
<1> QED BY <1>4, <1>5

\* A commit that is appended leaves what has been inspected as it is.
LEMMA InspectedStays ==
    ASSUME TypeOK, NEW p \in Pulls, InspectedInv(p),
           Tip' \in Nat, Tip <= Tip', \A i \in 1..Tip : main'[i] = main[i],
           branch'[p] = branch[p], event'[p] = event[p], base'[p] = base[p],
           phase'[p] = phase[p]
    PROVE  InspectedInv(p)'
<1>1. Tip \in Nat
  BY TipFacts
<1> QED BY <1>1 DEF InspectedInv

LEMMA PushMainStep ==
    ASSUME IInv, NEW t \in Changed(TipTree, Chosen(TipTree.version)), PushMain(t)
    PROVE  IInv'
<1>1. TypeOK /\ TipTree \in Trees /\ Tip \in Nat \ {0}
  BY TipFacts DEF IInv
<1>2. TipTree.version \in Versions \union {NoVersion}
  BY <1>1 DEF Trees
<1>3. t \in Trees
  BY <1>1, <1>2, ChosenVersions, ChangedTrees
<1> DEFINE c == [tree |-> t, by |-> "person"]
<1>4. c \in Commits /\ main' = Append(main, c) /\ c.by # "renovate"
  BY <1>3 DEF Commits, PushMain
<1> HIDE DEF c
<1>5. /\ main' \in Seq(Commits) /\ main' # << >> /\ Tip' = Tip + 1
      /\ \A i \in 1..Tip : main'[i] = main[i]
  BY <1>1, <1>4, Appended
<1>6. pushes' \in 0..MaxHands
  BY FS_CardinalityType, RenovateAssumption DEF IInv, TypeOK, PushMain
<1>7. event \in [Pulls -> [base : 1..(Tip + 1), hint : BOOLEAN]] /\ base \in [Pulls -> 0..(Tip + 1)]
  <2>1. 1..Tip \subseteq 1..(Tip + 1) /\ 0..Tip \subseteq 0..(Tip + 1)
    BY <1>1
  <2> QED BY <1>1, <2>1 DEF TypeOK
<1>8. TypeOK'
  BY <1>1, <1>5, <1>6, <1>7 DEF TypeOK, PushMain, Commits
<1>9. HistoryInv'
  BY <1>1, <1>4, HistoryGrows DEF IInv
<1>10. \A p \in Pulls : InspectedInv(p)'
  <2>1. Tip' \in Nat /\ Tip <= Tip'
    BY <1>1, <1>5
  <2>2. branch' = branch /\ event' = event /\ base' = base /\ phase' = phase
    BY DEF PushMain
  <2> QED BY <1>1, <1>5, <2>1, <2>2, InspectedStays DEF IInv
<1>11. IsFiniteSet(edits)'
  BY DEF IInv, PushMain
<1> QED BY <1>8, <1>9, <1>10, <1>11 DEF IInv

\* A new event of a pull request: of Renovate, or of a person.
LEMMA ArriveStep ==
    ASSUME IInv, NEW p \in Pulls, NEW b \in Branches, NEW hint \in BOOLEAN,
           Arrive(p, b, hint), main' = main, pushes' = pushes,
           edits' = edits \/ edits' = edits \union {p}
    PROVE  IInv'
<1>1. TypeOK /\ Tip \in Nat \ {0} /\ Tip' = Tip
  BY TipFacts DEF IInv, Tip
<1>2. event' \in [Pulls -> [base : 1..Tip, hint : BOOLEAN]]
  BY <1>1 DEF TypeOK, Arrive
<1>3. branch' \in [Pulls -> Branches \union {NoBranch}] /\ base' \in [Pulls -> 0..Tip]
  BY <1>1 DEF TypeOK, Arrive
<1>4. phase' \in [Pulls -> {"none", "base", "jobs", "accepted", "rejected", "merged"}]
  BY <1>1 DEF TypeOK, Arrive
<1>5. /\ phase'[p] = "base" /\ branch'[p] # NoBranch
      /\ \A q \in Pulls \ {p} : phase'[q] = phase[q] /\ base'[q] = base[q]
                                  /\ branch'[q] = branch[q] /\ event'[q] = event[q]
  BY <1>1, RenovateAssumption DEF TypeOK, Arrive
<1>6. TypeOK'
  BY <1>1, <1>2, <1>3, <1>4, <1>5 DEF TypeOK
<1>7. ASSUME NEW q \in Pulls PROVE InspectedInv(q)'
  <2>1. CASE q = p
    BY <1>5, <2>1 DEF InspectedInv
  <2>2. CASE q # p
    BY <1>1, <1>5, <2>2, InspectedStays DEF IInv
  <2> QED BY <2>1, <2>2
<1>8. HistoryInv'
  BY HistoryStays DEF IInv
<1>9. IsFiniteSet(edits)'
  BY FS_AddElement DEF IInv
<1> QED BY <1>6, <1>7, <1>8, <1>9 DEF IInv

LEMMA PrepareStep ==
    ASSUME IInv, NEW p \in Pulls, Prepare(p)
    PROVE  IInv'
<1>1. [tree |-> Prescribed(p), on |-> Tip] \in Branches
  BY PrescribedTree, TipFacts DEF IInv, Branches
<1>2. /\ Arrive(p, [tree |-> Prescribed(p), on |-> Tip], p \in Repairs)
      /\ main' = main /\ pushes' = pushes /\ edits' = edits
  BY DEF Prepare
<1>3. (p \in Repairs) \in BOOLEAN
  OBVIOUS
<1> QED BY <1>1, <1>2, <1>3, ArriveStep

LEMMA EditStep ==
    ASSUME IInv, NEW p \in Pulls, branch[p] # NoBranch,
           NEW t \in Changed(branch[p].tree, Chosen(TipTree.version)), Edit(p, t)
    PROVE  IInv'
<1>1. TipTree \in Trees /\ Tip \in Nat /\ branch[p] \in Branches
  BY TipFacts DEF IInv, TypeOK
<1>2. TipTree.version \in Versions \union {NoVersion} /\ branch[p].tree \in Trees
  BY <1>1 DEF Trees, Branches
<1>3. t \in Trees
  BY <1>2, ChosenVersions, ChangedTrees
<1>4. PICK hint \in BOOLEAN, on \in {branch[p].on, Tip} : Arrive(p, [tree |-> t, on |-> on], hint)
  BY DEF Edit
<1>5. [tree |-> t, on |-> on] \in Branches
  BY <1>1, <1>3 DEF Branches
<1> QED BY <1>4, <1>5, ArriveStep DEF Edit

\* What a step of one run leaves as it is.
LEMMA OthersStay ==
    ASSUME TypeOK, NEW p \in Pulls, NEW q \in Pulls \ {p}, NEW x, InspectedInv(q),
           Tip' \in Nat, Tip <= Tip', \A i \in 1..Tip : main'[i] = main[i],
           branch' = branch, event' = event, Go(p, x), base'[q] = base[q]
    PROVE  InspectedInv(q)'
<1>1. phase'[q] = phase[q]
  BY DEF TypeOK, Go
<1> QED BY <1>1, InspectedStays

LEMMA PreflightStep ==
    ASSUME IInv, NEW p \in Pulls, Preflight(p)
    PROVE  IInv'
<1>1. TypeOK /\ Tip \in Nat \ {0} /\ main' = main /\ Tip' = Tip /\ TipTree = main[Tip].tree
  BY TipFacts DEF IInv, Tip, TipTree, Preflight
<1>2. branch' = branch /\ event' = event /\ edits' = edits /\ pushes' = pushes
  BY DEF Preflight
<1>3. phase[p] = "base" /\ branch[p] # NoBranch
  BY DEF IInv, InspectedInv, Preflight
<1>4. HistoryInv'
  BY <1>1, HistoryStays DEF IInv
<1>5. CASE /\ InspectCandidate(BaseTree(p), branch[p].tree, event[p].hint)
           /\ base' = [base EXCEPT ![p] = Tip] /\ Go(p, "jobs")
  <2>1. /\ phase' \in [Pulls -> {"none", "base", "jobs", "accepted", "rejected", "merged"}]
        /\ base' \in [Pulls -> 0..Tip] /\ base'[p] = Tip /\ phase'[p] = "jobs"
        /\ \A q \in Pulls \ {p} : base'[q] = base[q] /\ phase'[q] = phase[q]
    BY <1>1, <1>5 DEF TypeOK, Go
  <2>2. TypeOK'
    BY <1>1, <1>2, <1>3, <2>1 DEF TypeOK
  <2>3. InspectedInv(p)'
    BY <1>1, <1>2, <1>3, <1>5, <2>1 DEF InspectedInv, BaseTree
  <2>4. \A q \in Pulls \ {p} : InspectedInv(q)'
    BY <1>1, <1>2, <1>5, <2>1, OthersStay DEF IInv
  <2> QED BY <1>2, <1>4, <2>2, <2>3, <2>4 DEF IInv
<1>6. CASE Go(p, "rejected") /\ base' = base
  <2>1. /\ phase' \in [Pulls -> {"none", "base", "jobs", "accepted", "rejected", "merged"}]
        /\ phase'[p] = "rejected"
        /\ \A q \in Pulls \ {p} : phase'[q] = phase[q]
    BY <1>1, <1>6 DEF TypeOK, Go
  <2>2. TypeOK'
    BY <1>1, <1>2, <1>6, <2>1 DEF TypeOK
  <2>3. InspectedInv(p)'
    BY <1>2, <1>3, <2>1 DEF InspectedInv
  <2>4. \A q \in Pulls \ {p} : InspectedInv(q)'
    BY <1>1, <1>2, <1>6, OthersStay DEF IInv
  <2> QED BY <1>2, <1>4, <2>2, <2>3, <2>4 DEF IInv
<1> QED BY <1>5, <1>6 DEF Preflight

LEMMA AcceptStep ==
    ASSUME IInv, NEW p \in Pulls, Accept(p)
    PROVE  IInv'
<1>1. TypeOK /\ Tip \in Nat \ {0} /\ main' = main /\ Tip' = Tip
  BY TipFacts DEF IInv, Tip, Accept
<1>2. branch' = branch /\ event' = event /\ base' = base /\ edits' = edits /\ pushes' = pushes
  BY DEF Accept
<1>3. PICK x \in {"accepted", "rejected"} : Go(p, x)
  BY DEF Accept
<1>4. /\ phase' \in [Pulls -> {"none", "base", "jobs", "accepted", "rejected", "merged"}]
      /\ phase[p] = "jobs" /\ phase'[p] = x
      /\ \A q \in Pulls \ {p} : phase'[q] = phase[q]
  BY <1>1, <1>3 DEF TypeOK, Go, Accept
<1>5. TypeOK'
  BY <1>1, <1>2, <1>4 DEF TypeOK
<1>6. InspectedInv(p)'
  BY <1>1, <1>2, <1>4 DEF IInv, InspectedInv
<1>7. \A q \in Pulls \ {p} : InspectedInv(q)'
  BY <1>1, <1>2, <1>3, OthersStay DEF IInv
<1>8. HistoryInv'
  BY <1>1, HistoryStays DEF IInv
<1> QED BY <1>2, <1>5, <1>6, <1>7, <1>8 DEF IInv

LEMMA MergeStep ==
    ASSUME IInv, NEW p \in Pulls, Merge(p)
    PROVE  IInv'
<1>1. TypeOK /\ Tip \in Nat \ {0} /\ InspectedInv(p)
  BY TipFacts DEF IInv
<1>2. branch' = branch /\ event' = event /\ base' = base /\ edits' = edits /\ pushes' = pushes
  BY DEF Merge
<1>3. /\ phase' \in [Pulls -> {"none", "base", "jobs", "accepted", "rejected", "merged"}]
      /\ phase[p] = "accepted" /\ phase'[p] = "merged"
      /\ \A q \in Pulls \ {p} : phase'[q] = phase[q]
  BY <1>1 DEF TypeOK, Go, Merge
<1> DEFINE c == [tree |-> branch[p].tree, by |-> "renovate"]
<1>4. branch[p] \in Branches /\ event[p].hint \in BOOLEAN
  BY <1>1, <1>3 DEF TypeOK
<1>5. c \in Commits /\ main' = Append(main, c) /\ InspectCandidate(TipTree, c.tree, event[p].hint)
  <2>1. c \in Commits
    BY <1>4 DEF Branches, Commits
  <2>2. InspectCandidate(main[Tip].tree, branch[p].tree, event[p].hint)
    BY <1>1, <1>3 DEF InspectedInv, Merge
  <2> QED BY <2>1, <2>2 DEF TipTree, Merge
<1> HIDE DEF c
<1>6. /\ main' \in Seq(Commits) /\ main' # << >> /\ Tip' = Tip + 1
      /\ \A i \in 1..Tip : main'[i] = main[i]
  BY <1>1, <1>5, Appended
<1>7. event \in [Pulls -> [base : 1..(Tip + 1), hint : BOOLEAN]] /\ base \in [Pulls -> 0..(Tip + 1)]
  <2>1. 1..Tip \subseteq 1..(Tip + 1) /\ 0..Tip \subseteq 0..(Tip + 1)
    BY <1>1
  <2> QED BY <1>1, <2>1 DEF TypeOK
<1>8. TypeOK'
  BY <1>1, <1>2, <1>3, <1>6, <1>7 DEF TypeOK, Commits
<1>9. HistoryInv'
  BY <1>1, <1>4, <1>5, HistoryGrows DEF IInv
<1>10. InspectedInv(p)'
  BY <1>1, <1>2, <1>3 DEF InspectedInv
<1>11. \A q \in Pulls \ {p} : InspectedInv(q)'
  <2>1. Tip' \in Nat /\ Tip <= Tip' /\ Go(p, "merged")
    BY <1>1, <1>6 DEF Merge
  <2> QED BY <1>1, <1>2, <1>6, <2>1, OthersStay DEF IInv
<1> QED BY <1>2, <1>8, <1>9, <1>10, <1>11 DEF IInv

-----------------------------------------------------------------------------
(* Theorems *)

LEMMA InitIInv == Init => IInv
<1> SUFFICES ASSUME Init PROVE IInv
  OBVIOUS
<1>1. main \in Seq(Commits) /\ main # << >> /\ Tip = 1
  BY RenovateAssumption DEF Init, Tip, Commits
<1>2. TypeOK
  BY <1>1, RenovateAssumption DEF Init, TypeOK, Commits
<1>3. IsFiniteSet(edits)
  BY FS_EmptySet DEF Init
<1>4. \A p \in Pulls : InspectedInv(p)
  BY DEF Init, InspectedInv
<1>5. HistoryInv
  BY <1>1 DEF HistoryInv, RisingInv, MergedInScope, RepairsAreReleased
<1> QED BY <1>2, <1>3, <1>4, <1>5 DEF IInv

\* The inductive invariant: what waits for its merge was inspected against the
\* commit that it will be merged on, and versions rise where none is lowered.
THEOREM Invariance == Spec => []IInv
<1>1. IInv /\ [Next]_vars => IInv'
  <2> SUFFICES ASSUME IInv, [Next]_vars PROVE IInv'
    OBVIOUS
  <2>1. CASE \E t \in Changed(TipTree, Chosen(TipTree.version)) : PushMain(t)
    BY <2>1, PushMainStep
  <2>2. ASSUME NEW p \in Pulls, Run(p) PROVE IInv'
    BY <2>2, PrepareStep, PreflightStep, AcceptStep, MergeStep DEF Run
  <2>3. ASSUME NEW p \in Pulls, branch[p] # NoBranch,
               \E t \in Changed(branch[p].tree, Chosen(TipTree.version)) : Edit(p, t)
        PROVE  IInv'
    BY <2>3, EditStep
  <2>4. CASE UNCHANGED vars
    BY <2>4 DEF vars, IInv, TypeOK, InspectedInv, HistoryInv, RisingInv, MergedInScope,
                RepairsAreReleased, Lowers, Tip
  <2> QED BY <2>1, <2>2, <2>3, <2>4 DEF Next
<1> QED BY <1>1, InitIInv, PTL DEF Spec

\* Renovate is type correct, and a run that goes on has read a base of main.
THEOREM TypeCorrect == Spec => []TypeOK
<1>1. IInv => TypeOK
  BY DEF IInv
<1> QED BY <1>1, Invariance, PTL

\* What Renovate's pull requests do to main is in their scope, whoever edits
\* their branches and whatever is merged before them.
THEOREM ScopeIsKept == Spec => []MergedInScope
<1>1. IInv => MergedInScope
  BY DEF IInv, HistoryInv
<1> QED BY <1>1, Invariance, PTL

\* Every repair that reaches main has a version of its own above the one before,
\* however many repairs are prepared at once.
THEOREM RepairsReleased == Spec => []RepairsAreReleased
<1>1. IInv => RepairsAreReleased
  BY DEF IInv, HistoryInv
<1> QED BY <1>1, Invariance, PTL
=============================================================================
