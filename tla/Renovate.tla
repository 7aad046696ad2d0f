------------------------------ MODULE Renovate ------------------------------
(***************************************************************************)
(* What Renovate may bring to main: validate_renovate_pr.py, with the steps *)
(* of validation_pipeline.yml around it, renovate.json's rules for the root *)
(* module, and the bump that Auto Release looks for.  Several pull requests *)
(* wait at once; main moves under them, also by people, who may change     *)
(* their branches as well.                                                 *)
(*                                                                         *)
(* A commit of main is its position.  A tree is what the validator tells   *)
(* apart: the module path, the go line and the requirements of go.mod, the *)
(* version in version.go and the rest of that file, and whether files      *)
(* beside these are as they were: of the examples' modules, which a repair *)
(* may tidy, and others.  The jobs of the pipeline are PrValidation's      *)
(* subject: here they pass, and the recheck of the policy job is one step. *)
(***************************************************************************)
EXTENDS Integers, Sequences, FiniteSets

CONSTANTS
    Repairs,      \* pull requests that repair a root requirement
    Routines,     \* Renovate's other pull requests: CI tools, actions
    Deps,         \* modules that the root may require
    Repaired,     \* the requirement that each repair is about
    FirstTree,    \* what main starts with
    MaxHands,     \* bound: what people push, to main and to Renovate's branches
    NoVersion,    \* of a version.go without one canonical declaration
    NoBranch

Pulls == Repairs \union Routines
Versions == Nat \X Nat \X Nat
Marks == {1, 2}

\* require: the version of each module, 0 when it is not required; 2 is fixed.
Trees ==
    [module : Marks, go : Marks, require : [Deps -> 0..2],
     version : Versions \union {NoVersion}, rest : Marks, examples : Marks, others : Marks]

\* A branch is its tree, and the newest commit of main that it contains.
Branches == [tree : Trees, on : Nat]

ASSUME RenovateAssumption ==
    /\ Repairs \intersect Routines = {}
    /\ Repaired \in [Repairs -> Deps]
    /\ FirstTree \in Trees
    /\ MaxHands \in Nat
    /\ NoVersion \notin Versions
    /\ NoBranch \notin Branches

VARIABLES
    main,      \* the commits of main
    branch,    \* the branch of each pull request
    event,     \* what the newest event of each says: its base and its marking
    phase,     \* where its validation is
    base,      \* output current_base of its preflight
    pushes,    \* how many pushes to main people have made
    edits      \* the pull requests whose branches people have pushed to

vars == <<main, branch, event, phase, base, pushes, edits>>

Init ==
    /\ main = <<[tree |-> FirstTree, by |-> "person"]>>
    /\ branch = [p \in Pulls |-> NoBranch]
    /\ event = [p \in Pulls |-> [base |-> 1, hint |-> FALSE]]
    /\ phase = [p \in Pulls |-> "none"]
    /\ base = [p \in Pulls |-> 0]
    /\ pushes = 0
    /\ edits = {}

Tip == Len(main)
TipTree == main[Tip].tree

-----------------------------------------------------------------------------
(* The validator *)

NextPatch(v) == IF v = NoVersion THEN v ELSE <<v[1], v[2], v[3] + 1>>

\* Mutant of SameRequire: only what the new go.mod lists is compared.
SameRequire_Listed(old, new) == \A d \in Deps : new.require[d] \in {0, old.require[d]}

SameRequire(old, new) == old.require = new.require

\* Both go.mod and version.go can be read, and the module and its floor stay.
Comparable(old, new) ==
    /\ old.module = new.module /\ old.go = new.go
    /\ old.version # NoVersion /\ new.version # NoVersion

NonReleasing(old, new) ==
    /\ SameRequire(old, new)
    /\ old.version = new.version /\ old.rest = new.rest

\* Mutant of SecurityPatch: the modules of the examples are unrelated files.
SecurityPatch_NoExamples(old, new, hint) ==
    /\ ~SameRequire(old, new)
    /\ hint /\ \E d \in Deps : new.require[d] \notin {0, old.require[d]}
    /\ old.others = new.others /\ old.examples = new.examples
    /\ new.version = NextPatch(old.version)
    /\ old.rest = new.rest

\* A requirement is added or changed, and nothing is touched but this, the
\* version, which becomes the next patch, and the examples' modules.
SecurityPatch(old, new, hint) ==
    /\ ~SameRequire(old, new)
    /\ hint /\ \E d \in Deps : new.require[d] \notin {0, old.require[d]}
    /\ old.others = new.others
    /\ new.version = NextPatch(old.version)
    /\ old.rest = new.rest

\* inspect_candidate
InspectCandidate(old, new, hint) ==
    Comparable(old, new) /\ (NonReleasing(old, new) \/ SecurityPatch(old, new, hint))

-----------------------------------------------------------------------------
(* Renovate and people *)

\* People change one thing in a tree; such as the version to one of some versions.
Changed(t, versions) ==
    {[t EXCEPT !.module = x] : x \in Marks}
        \union {[t EXCEPT !.go = x] : x \in Marks}
        \union {[t EXCEPT !.require[d] = x] : d \in Deps, x \in 0..2}
        \union {[t EXCEPT !.version = v] : v \in versions}
        \union {[t EXCEPT !.rest = x] : x \in Marks}
        \union {[t EXCEPT !.examples = x] : x \in Marks}
        \union {[t EXCEPT !.others = x] : x \in Marks}

\* Versions that people choose: a patch, a minor or a revert, or a text that is
\* no canonical version.
Chosen(v) ==
    {FirstTree.version, NoVersion}
        \union (IF v = NoVersion THEN {} ELSE {NextPatch(v), <<v[1], v[2] + 1, 0>>})

\* People's pull requests are not held to Renovate's scope.
PushMain(t) ==
    /\ pushes + Cardinality(edits) < MaxHands
    /\ t # TipTree
    /\ main' = Append(main, [tree |-> t, by |-> "person"])
    /\ pushes' = pushes + 1
    /\ UNCHANGED <<branch, event, phase, base, edits>>

\* What there is for a pull request to do.
Needed(p) == IF p \in Repairs THEN TipTree.require[Repaired[p]] # 2
                              ELSE TipTree.others # 2

\* A repair takes the fixed version, tidies the examples and bumps version.go,
\* if its version can be found.
Prescribed(p) ==
    IF p \in Repairs
    THEN [TipTree EXCEPT !.require[Repaired[p]] = 2, !.version = NextPatch(@), !.examples = 2]
    ELSE [TipTree EXCEPT !.others = 2]

\* An event creates a validation run.  The base that it names is no newer than
\* the tip of main: here the tip when the pull request was opened.
Arrive(p, b, hint) ==
    /\ branch' = [branch EXCEPT ![p] = b]
    /\ event' = [event EXCEPT ![p] = [base |-> IF branch[p] = NoBranch THEN Tip ELSE @.base,
                                     hint |-> hint]]
    /\ phase' = [phase EXCEPT ![p] = "base"]
    /\ base' = [base EXCEPT ![p] = 0]

\* Renovate creates a branch, or creates it anew when it is behind, unless
\* people have changed it (rebaseWhen).
Prepare(p) ==
    /\ phase[p] # "merged" /\ p \notin edits /\ Needed(p)
    /\ branch[p] # NoBranch => branch[p].on < Tip
    /\ Arrive(p, [tree |-> Prescribed(p), on |-> Tip], p \in Repairs)
    /\ UNCHANGED <<main, pushes, edits>>

\* People push to the branch, with main merged into it or not, and may have
\* changed its title or labels before.
Edit(p, t) ==
    /\ branch[p] # NoBranch /\ phase[p] # "merged"
    /\ p \notin edits /\ pushes + Cardinality(edits) < MaxHands
    /\ t # branch[p].tree
    /\ \E hint \in BOOLEAN, on \in {branch[p].on, Tip} : Arrive(p, [tree |-> t, on |-> on], hint)
    /\ edits' = edits \union {p}
    /\ UNCHANGED <<main, pushes>>

-----------------------------------------------------------------------------
(* The validation run of a pull request *)

Go(p, step) == phase' = [phase EXCEPT ![p] = step]

\* Mutant of BaseTree: the base that the event names.
BaseTree_OfEvent(p) == main[event[p].base].tree

BaseTree(p) == TipTree

\* Mutant of Preflight: the output with the base is not written.
Preflight_NoOutput(p) ==
    /\ phase[p] = "base"
    /\ IF branch[p].on >= Tip /\ InspectCandidate(BaseTree(p), branch[p].tree, event[p].hint)
       THEN Go(p, "jobs") ELSE Go(p, "rejected")
    /\ UNCHANGED <<main, branch, event, base, pushes, edits>>

\* The preflight finds the tip of main in the branch and inspects the change
\* against it: what it reads after that has a fixed name.
Preflight(p) ==
    /\ phase[p] = "base"
    /\ \/ /\ branch[p].on >= Tip
          /\ InspectCandidate(BaseTree(p), branch[p].tree, event[p].hint)
          /\ base' = [base EXCEPT ![p] = Tip]
          /\ Go(p, "jobs")
       \/ /\ branch[p].on < Tip \/ ~InspectCandidate(BaseTree(p), branch[p].tree, event[p].hint)
          /\ Go(p, "rejected")
          /\ UNCHANGED base
    /\ UNCHANGED <<main, branch, event, pushes, edits>>

\* The policy job's recheck, after the other jobs.
Accept(p) ==
    /\ phase[p] = "jobs"
    /\ Go(p, IF base[p] = Tip THEN "accepted" ELSE "rejected")
    /\ UNCHANGED <<main, branch, event, base, pushes, edits>>

\* Renovate merges, by squash, what was accepted on the tip of main.
Merge(p) ==
    /\ phase[p] = "accepted" /\ base[p] = Tip
    /\ main' = Append(main, [tree |-> branch[p].tree, by |-> "renovate"])
    /\ Go(p, "merged")
    /\ UNCHANGED <<branch, event, base, pushes, edits>>

Run(p) == Prepare(p) \/ Preflight(p) \/ Accept(p) \/ Merge(p)

Next ==
    \/ \E t \in Changed(TipTree, Chosen(TipTree.version)) : PushMain(t)
    \/ \E p \in Pulls :
          \/ Run(p)
          \/ /\ branch[p] # NoBranch
             /\ \E t \in Changed(branch[p].tree, Chosen(TipTree.version)) : Edit(p, t)

Spec == Init /\ [][Next]_vars

\* Renovate comes back to a branch that is behind, its runs end, and it merges
\* what was accepted.
FairSpec == Spec /\ \A p \in Pulls : WF_vars(Run(p))

-----------------------------------------------------------------------------
(* Properties *)

\* Main, branches and events are what they are declared to be, and a run that
\* goes on has read a base.
TypeOK ==
    /\ main \in Seq([tree : Trees, by : {"person", "renovate"}]) /\ main # << >>
    /\ branch \in [Pulls -> Branches \union {NoBranch}]
    /\ event \in [Pulls -> [base : 1..Tip, hint : BOOLEAN]]
    /\ phase \in [Pulls -> {"none", "base", "jobs", "accepted", "rejected", "merged"}]
    /\ base \in [Pulls -> 0..Tip]
    /\ \A p \in Pulls : phase[p] \in {"jobs", "accepted"} => base[p] # 0 /\ branch[p] # NoBranch
    /\ pushes \in 0..MaxHands
    /\ edits \subseteq Pulls

\* What Renovate's pull requests do to main, edited by people and overtaken by
\* others or not: the module and its compatibility floor stay, the requirements
\* change if and only if the version does, and a change of them comes alone.
MergedInScope ==
    \A i \in 2..Tip : main[i].by = "renovate" =>
        LET old == main[i - 1].tree
            new == main[i].tree
        IN  /\ old.module = new.module /\ old.go = new.go /\ old.rest = new.rest
            /\ old.require = new.require <=> old.version = new.version
            /\ old.require # new.require => old.others = new.others

Less(v, w) ==
    \/ v[1] < w[1]
    \/ v[1] = w[1] /\ v[2] < w[2]
    \/ v[1] = w[1] /\ v[2] = w[2] /\ v[3] < w[3]

\* The version after commit i is lower than the one before, or one of the two
\* cannot be read.
Lowers(i) ==
    LET old == main[i - 1].tree.version
        new == main[i].tree.version
    IN  old = NoVersion \/ new = NoVersion \/ Less(new, old)

\* Every repair that reaches main is released: Auto Release sees an increase,
\* to a version that no earlier commit had, so that its tag is still free,
\* unless people have gone back with the version in between.
RepairsAreReleased ==
    \A i \in 2..Tip :
        /\ main[i].by = "renovate"
        /\ main[i - 1].tree.require # main[i].tree.require
        => /\ ~Lowers(i)
           /\ \A j \in 1..(i - 1) :
                 main[j].tree.version = main[i].tree.version => \E k \in (j + 1)..i : Lowers(k)

\* What Renovate prepares is merged in the end, however often others are merged
\* before it, as long as people keep their hands off its branch, main still has
\* a version to bump, and the work is not done without it.
PreparedLands ==
    \A p \in Pulls :
        [](p \notin edits) /\ []<>(TipTree.version # NoVersion) /\ []<>Needed(p)
            => <>(phase[p] = "merged")
=============================================================================
