----------------------- MODULE HistoricalEvidenceProofs -----------------------
(***************************************************************************)
(* Proofs about HistoricalEvidence: what held when the verifier accepts,   *)
(* and that it refuses only for a reason, for pages of any size and any    *)
(* number of pages and runs.                                               *)
(***************************************************************************)
EXTENDS HistoricalEvidence, FiniteSetTheorems, SequenceTheorems, TLAPS

-----------------------------------------------------------------------------
(* The inductive invariant *)

\* The runs on the pages so far exist: no validation run disappears.  As long as
\* none is created between two pages, they are the newest ones, in order.
PagesInv ==
    /\ values \in Seq(1..Len(validation))
    /\ page > 1 /\ ~overtaken =>
           /\ expected = Len(validation)
           /\ (page - 1) * PerPage <= Len(validation)
           /\ values = SubSeq(Listing, 1, (page - 1) * PerPage)

\* What each part of verify leaves to those after it.
TreeInv ==
    (stage = "start" /\ index > 4) \/ stage \in {"poll", "wait", "final", "verified"} =>
        tree = "unchanged"

\* The chosen run has ended green in its first attempt, which stays so; and it is
\* the newest as long as none overtakes it.
ChosenInv ==
    /\ (stage = "poll" /\ index > 1) \/ stage = "final" =>
           chosen >= 1 /\ validation[chosen].result \in Green
    /\ ~overtaken /\ ((stage = "poll" /\ index > 1) \/ (stage = "final" /\ index <= 6)) =>
           chosen = Len(validation)

\* After the last listing everything held then that no later read refuses: what
\* is lost never comes back, so that a later read that succeeds shows that nothing
\* was lost before.
HeldInv ==
    /\ stage = "final" /\ index > 4 =>
           held \/ main # 0
                \/ (index <= 9 /\ cloud.attempt # 1)
                \/ (index <= 8 /\ ~cloud.log)
                \/ (index <= 5 /\ validation[chosen].result # "passed")
    /\ stage = "verified" => held

\* Before its last read, main is past BASE or the pull request was current at
\* the read before; main never comes back to BASE.
TogetherInv ==
    /\ stage = "final" /\ index = 11 => (main = 0 => together)
    /\ stage = "verified" => together

IInv ==
    /\ TypeOK /\ PagesInv /\ TreeInv /\ ChosenInv
    /\ HeldInv /\ TogetherInv

-----------------------------------------------------------------------------
(* The reads of verify *)

LEMMA StartReads ==
    LET p == Program["start"] IN
    /\ Len(p) = 7
    /\ p[1] = "identity" /\ p[2] = "pull" /\ p[3] = "main" /\ p[4] = "trees"
    /\ p[5] = "run" /\ p[6] = "log" /\ p[7] = "run_again"
BY DEF Program, authority, history

LEMMA PollReads ==
    LET p == Program["poll"] IN
    /\ Len(p) = 3
    /\ p[1] = "pages" /\ p[2] = "jobs" /\ p[3] = "validated_run"
BY DEF Program, local_validation

LEMMA WaitReads ==
    LET p == Program["wait"] IN
    Len(p) = 2 /\ p[1] = "pull" /\ p[2] = "main"
BY DEF Program, authority

LEMMA FinalReads ==
    LET p == Program["final"] IN
    /\ Len(p) = 11
    /\ p[1] = "pull" /\ p[2] = "main" /\ p[3] = "identity"
    /\ p[4] = "pages" /\ p[5] = "jobs" /\ p[6] = "validated_run"
    /\ p[7] = "run" /\ p[8] = "log" /\ p[9] = "run_again"
    /\ p[10] = "pull" /\ p[11] = "main"
BY DEF Program, authority, history, local_validation

Stages == {"start", "poll", "wait", "final"}

LEMMA StageFacts ==
    DOMAIN Program = Stages /\ Stages \intersect Ended = {}
BY DEF Program, Stages, Ended

\* Where a read can be.
Placed(s, i) ==
    /\ s \in Stages \union Ended
    /\ i \in Nat /\ i >= 1
    /\ s = "start" => i <= 7
    /\ s = "poll" => i <= 3
    /\ s = "wait" => i <= 2
    /\ s = "final" => i <= 11
    /\ s \in Ended => i = 1

Position == Placed(stage, index)

LEMMA PositionType ==
    \A s, i : Placed(s, i) <=> /\ s \in DOMAIN Program \union Ended
                              /\ i \in 1..(IF s \in Ended THEN 1 ELSE Len(Program[s]))
<1> TAKE s, i
<1>1. CASE s = "start"
  BY <1>1, StageFacts, StartReads DEF Placed, Stages, Ended
<1>2. CASE s = "poll"
  BY <1>2, StageFacts, PollReads DEF Placed, Stages, Ended
<1>3. CASE s = "wait"
  BY <1>3, StageFacts, WaitReads DEF Placed, Stages, Ended
<1>4. CASE s = "final"
  BY <1>4, StageFacts, FinalReads DEF Placed, Stages, Ended
<1>5. CASE s \in Ended
  BY <1>5, StageFacts DEF Placed, Stages, Ended
<1>6. CASE s \notin Stages \union Ended
  BY <1>6, StageFacts DEF Placed
<1> QED BY <1>1, <1>2, <1>3, <1>4, <1>5, <1>6 DEF Stages

\* The reads whose place matters below.
LEMMA ReadPlaces ==
    ASSUME Position, stage \notin Ended
    PROVE  LET name == Program[stage][index] IN
           /\ name = "pages" <=>
                  (stage = "poll" /\ index = 1) \/ (stage = "final" /\ index = 4)
           /\ name = "trees" <=> stage = "start" /\ index = 4
           /\ name \in {"jobs", "validated_run"} =>
                  (stage = "poll" /\ index > 1) \/ (stage = "final" /\ index <= 6)
           /\ stage = "final" =>
                  /\ index = 5 => name = "jobs"
                  /\ index = 8 => name = "log"
                  /\ index = 9 => name = "run_again"
                  /\ index = 10 => name = "pull"
                  /\ index = 11 => name = "main"
<1>1. CASE stage = "start"
  <2>1. index \in {1, 2, 3, 4, 5, 6, 7}
    BY <1>1 DEF Position, Placed
  <2> QED BY <1>1, <2>1, StartReads
<1>2. CASE stage = "poll"
  <2>1. index \in {1, 2, 3}
    BY <1>2 DEF Position, Placed
  <2> QED BY <1>2, <2>1, PollReads
<1>3. CASE stage = "wait"
  <2>1. index \in {1, 2}
    BY <1>3 DEF Position, Placed
  <2> QED BY <1>3, <2>1, WaitReads
<1>4. CASE stage = "final"
  <2>1. index \in {1, 2, 3, 4, 5, 6, 7, 8, 9, 10, 11}
    BY <1>4 DEF Position, Placed
  <2> QED BY <1>4, <2>1, FinalReads
<1> QED BY <1>1, <1>2, <1>3, <1>4 DEF Position, Placed, Stages, Ended

\* Where Proceed leads.
LEMMA ProceedFacts ==
    ASSUME Position, stage \notin Ended, Proceed
    PROVE  /\ Position'
           /\ \/ stage' = stage /\ index' = index + 1
              \/ stage = "start" /\ index = 7 /\ stage' = "poll" /\ index' = 1
              \/ stage = "poll" /\ index = 3 /\ stage' = "final" /\ index' = 1
              \/ stage = "wait" /\ index = 2 /\ stage' = "poll" /\ index' = 1
              \/ stage = "final" /\ index = 11 /\ stage' = "verified" /\ index' = 1
<1>1. CASE stage = "start"
  <2>1. Len(Program[stage]) = 7 /\ Following[stage] = "poll" /\ index \in 1..7
    BY <1>1, StartReads DEF Following, Position, Placed
  <2>2. CASE index < 7
    <3>1. index' = index + 1 /\ stage' = stage
      BY <2>1, <2>2 DEF Proceed
    <3> QED BY <1>1, <2>1, <2>2, <3>1 DEF Position, Placed, Ended, Stages
  <2>3. CASE index = 7
    <3>1. index' = 1 /\ stage' = "poll"
      BY <2>1, <2>3 DEF Proceed
    <3> QED BY <1>1, <2>3, <3>1 DEF Position, Placed, Ended, Stages
  <2> QED BY <2>1, <2>2, <2>3
<1>2. CASE stage = "poll"
  <2>1. Len(Program[stage]) = 3 /\ Following[stage] = "final" /\ index \in 1..3
    BY <1>2, PollReads DEF Following, Position, Placed
  <2>2. CASE index < 3
    <3>1. index' = index + 1 /\ stage' = stage
      BY <2>1, <2>2 DEF Proceed
    <3> QED BY <1>2, <2>1, <2>2, <3>1 DEF Position, Placed, Ended, Stages
  <2>3. CASE index = 3
    <3>1. index' = 1 /\ stage' = "final"
      BY <2>1, <2>3 DEF Proceed
    <3> QED BY <1>2, <2>3, <3>1 DEF Position, Placed, Ended, Stages
  <2> QED BY <2>1, <2>2, <2>3
<1>3. CASE stage = "wait"
  <2>1. Len(Program[stage]) = 2 /\ Following[stage] = "poll" /\ index \in 1..2
    BY <1>3, WaitReads DEF Following, Position, Placed
  <2>2. CASE index < 2
    <3>1. index' = index + 1 /\ stage' = stage
      BY <2>1, <2>2 DEF Proceed
    <3> QED BY <1>3, <2>1, <2>2, <3>1 DEF Position, Placed, Ended, Stages
  <2>3. CASE index = 2
    <3>1. index' = 1 /\ stage' = "poll"
      BY <2>1, <2>3 DEF Proceed
    <3> QED BY <1>3, <2>3, <3>1 DEF Position, Placed, Ended, Stages
  <2> QED BY <2>1, <2>2, <2>3
<1>4. CASE stage = "final"
  <2>1. Len(Program[stage]) = 11 /\ Following[stage] = "verified" /\ index \in 1..11
    BY <1>4, FinalReads DEF Following, Position, Placed
  <2>2. CASE index < 11
    <3>1. index' = index + 1 /\ stage' = stage
      BY <2>1, <2>2 DEF Proceed
    <3> QED BY <1>4, <2>1, <2>2, <3>1 DEF Position, Placed, Ended, Stages
  <2>3. CASE index = 11
    <3>1. index' = 1 /\ stage' = "verified"
      BY <2>1, <2>3 DEF Proceed
    <3> QED BY <1>4, <2>3, <3>1 DEF Position, Placed, Ended, Stages
  <2> QED BY <2>1, <2>2, <2>3
<1> QED BY <1>1, <1>2, <1>3, <1>4 DEF Position, Placed, Stages

LEMMA FailFacts ==
    ASSUME Fail
    PROVE  Position' /\ stage' = "failed"
BY DEF Fail, Position, Placed, Ended

-----------------------------------------------------------------------------
(* The initial state, and single reads *)

LEMMA InitIInv == Init => IInv
<1> SUFFICES ASSUME Init PROVE IInv
  OBVIOUS
<1>1. Position
  BY DEF Init, Position, Placed, Stages, Ended
<1>2. TypeOK
  <2>1. values \in Seq(1..MaxRuns) /\ validation \in Seq(ValidationRuns) /\ Len(validation) = 0
    BY DEF Init
  <2>2. /\ page \in 1..MaxPages /\ expected \in -1..MaxRuns
        /\ page = 1 => expected = -1 /\ values = << >>
        /\ chosen \in 0..Len(validation) /\ main \in 0..MaxMain
    BY <2>1, EvidenceAssumption DEF Init
  <2>3. pull \in [offers : BOOLEAN, base : 0..MaxMain]
    BY EvidenceAssumption DEF Init
  <2>4. /\ own \in [attempt : {1}, status : {"in_progress", "completed"}]
        /\ cloud \in [attempt : {1, 2}, log : BOOLEAN]
    BY DEF Init, Running, Intact
  <2>5. /\ late \in BOOLEAN /\ together \in BOOLEAN /\ held \in BOOLEAN
        /\ unanswered \in BOOLEAN /\ overtaken \in BOOLEAN
        /\ tree \in {"unchanged", "changed"}
    BY DEF Init
  <2> QED BY <1>1, <2>1, <2>2, <2>3, <2>4, <2>5, PositionType, EvidenceAssumption DEF Position, TypeOK
<1>3. PagesInv /\ TreeInv /\ ChosenInv /\ HeldInv /\ TogetherInv
  BY DEF Init, PagesInv, TreeInv, ChosenInv, HeldInv, TogetherInv
<1> QED BY <1>2, <1>3 DEF IInv

\* A read of anything but pages.
LEMMA ReadStep ==
    ASSUME IInv, NEW name, NEW ok \in BOOLEAN, Read(name, ok), name # "pages",
           together' \in BOOLEAN,
           name = "trees" /\ ok => tree = "unchanged",
           name = "pull" => together' = (ok /\ main = 0),
           name = "main" => UNCHANGED together /\ (ok => main = 0),
           name = "jobs" /\ ok => validation[chosen].result = "passed",
           name = "log" /\ ok => cloud.log,
           name = "run_again" /\ ok => cloud.attempt = 1
    PROVE  IInv'
<1>1. Position /\ stage \notin Ended /\ Program[stage][index] = name
  BY PositionType DEF Position, IInv, TypeOK, Read, At
<1>2. /\ unanswered' \in BOOLEAN
      /\ (ok /\ Proceed) \/ Fail
  BY DEF Read, IInv, TypeOK
<1>3. /\ UNCHANGED <<late, page, expected, values, chosen>>
      /\ UNCHANGED <<pull, main, own, tree, cloud, validation, held, overtaken>>
  BY DEF Read, githubVars
<1>4. TypeOK' /\ PagesInv'
  <2>1. Position'
    BY <1>1, <1>2, ProceedFacts, FailFacts
  <2>2. /\ stage' \in DOMAIN Program \union Ended
        /\ index' \in 1..(IF stage' \in Ended THEN 1 ELSE Len(Program[stage']))
    BY <2>1, PositionType DEF Position
  <2>3. TypeOK'
    BY <1>2, <1>3, <2>2 DEF IInv, TypeOK
  <2>4. PagesInv'
    BY <1>3 DEF IInv, PagesInv, Listing
  <2> QED BY <2>3, <2>4
<1>5. CASE Fail
  <2>1. stage' = "failed"
    BY <1>5, FailFacts
  <2> QED BY <1>4, <2>1 DEF IInv, TreeInv, ChosenInv, HeldInv, TogetherInv
<1>6. CASE ok /\ Proceed
  <2>1. /\ ~(stage = "poll" /\ index = 1) /\ ~(stage = "final" /\ index = 4)
        /\ name = "trees" <=> stage = "start" /\ index = 4
        /\ stage = "final" => /\ index = 5 => name = "jobs"
                              /\ index = 8 => name = "log"
                              /\ index = 9 => name = "run_again"
                              /\ index = 10 => name = "pull"
                              /\ index = 11 => name = "main"
        /\ index \in Nat
    BY <1>1, ReadPlaces DEF Position, Placed
  <2>2. \/ stage' = stage /\ index' = index + 1
        \/ stage = "start" /\ index = 7 /\ stage' = "poll" /\ index' = 1
        \/ stage = "poll" /\ index = 3 /\ stage' = "final" /\ index' = 1
        \/ stage = "wait" /\ index = 2 /\ stage' = "poll" /\ index' = 1
        \/ stage = "final" /\ index = 11 /\ stage' = "verified" /\ index' = 1
    BY <1>1, <1>6, ProceedFacts
  <2>3. TreeInv'
    BY <1>3, <1>6, <2>1, <2>2 DEF IInv, TreeInv
  <2>4. ChosenInv'
    <3>1. (stage' = "poll" /\ index' > 1) \/ stage' = "final" =>
              (stage = "poll" /\ index > 1) \/ stage = "final"
      BY <1>1, <2>1, <2>2 DEF Ended
    <3>2. (stage' = "poll" /\ index' > 1) \/ (stage' = "final" /\ index' <= 6) =>
              (stage = "poll" /\ index > 1) \/ (stage = "final" /\ index <= 6)
      BY <1>1, <2>1, <2>2 DEF Ended
    <3> QED BY <1>3, <3>1, <3>2 DEF IInv, ChosenInv
  <2>5. HeldInv'
    <3>1. ASSUME stage' = "final", index' > 4
          PROVE  \/ held \/ main # 0
                 \/ index' <= 9 /\ cloud.attempt # 1
                 \/ index' <= 8 /\ ~cloud.log
                 \/ index' <= 5 /\ validation[chosen].result # "passed"
      <4>1. stage = "final" /\ index > 4 /\ index' = index + 1
        BY <2>1, <2>2, <3>1
      <4>2. \/ held \/ main # 0
            \/ index <= 9 /\ cloud.attempt # 1
            \/ index <= 8 /\ ~cloud.log
            \/ index <= 5 /\ validation[chosen].result # "passed"
        BY <4>1 DEF IInv, HeldInv
      <4>3. CASE index = 5
        BY <1>6, <2>1, <4>1, <4>2, <4>3
      <4>4. CASE index = 8
        BY <1>6, <2>1, <4>1, <4>2, <4>4
      <4>5. CASE index = 9
        BY <1>6, <2>1, <4>1, <4>2, <4>5
      <4>6. CASE index \notin {5, 8, 9}
        BY <2>1, <4>1, <4>2, <4>6
      <4> QED BY <4>3, <4>4, <4>5, <4>6
    <3>2. stage' = "verified" => held
      <4>1. stage' = "verified" => stage = "final" /\ index = 11
        BY <1>1, <2>2 DEF Ended
      <4> QED BY <1>6, <2>1, <4>1 DEF IInv, HeldInv
    <3> QED BY <1>3, <3>1, <3>2 DEF HeldInv
  <2>6. TogetherInv'
    <3>1. stage' = "final" /\ index' = 11 => (main' = 0 => together')
      <4>1. stage' = "final" /\ index' = 11 => stage = "final" /\ index = 10
        BY <2>1, <2>2
      <4> QED BY <1>3, <1>6, <2>1, <4>1
    <3>2. stage' = "verified" => together'
      <4>1. stage' = "verified" => stage = "final" /\ index = 11
        BY <1>1, <2>2 DEF Ended
      <4> QED BY <1>6, <2>1, <4>1 DEF IInv, TogetherInv
    <3> QED BY <3>1, <3>2 DEF TogetherInv
  <2> QED BY <1>4, <2>3, <2>4, <2>5, <2>6 DEF IInv
<1> QED BY <1>2, <1>5, <1>6

LEMMA IdentityStep == IInv /\ ReadIdentity => IInv'
<1> SUFFICES ASSUME IInv, ReadIdentity PROVE IInv'
  OBVIOUS
<1>1. together' \in BOOLEAN /\ (own = Running) \in BOOLEAN
  BY DEF ReadIdentity, IInv, TypeOK
<1> QED BY <1>1, ReadStep DEF ReadIdentity

LEMMA PullStep == IInv /\ ReadPull => IInv'
<1> SUFFICES ASSUME IInv, ReadPull PROVE IInv'
  OBVIOUS
<1>1. PullOk \in BOOLEAN /\ together' \in BOOLEAN
  BY DEF ReadPull, PullOk
<1> QED BY <1>1, ReadStep DEF ReadPull

LEMMA MainStep == IInv /\ ReadMain => IInv'
<1> SUFFICES ASSUME IInv, ReadMain PROVE IInv'
  OBVIOUS
<1>1. UNCHANGED together /\ together' \in BOOLEAN
  BY DEF ReadMain, IInv, TypeOK
<1> QED BY <1>1, ReadStep DEF ReadMain

LEMMA TreesStep == IInv /\ ReadTrees => IInv'
<1> SUFFICES ASSUME IInv, ReadTrees PROVE IInv'
  OBVIOUS
<1>1. together' \in BOOLEAN
  BY DEF ReadTrees, IInv, TypeOK
<1> QED BY <1>1, ReadStep DEF ReadTrees

LEMMA HistoryStep == IInv /\ ReadHistory => IInv'
<1> SUFFICES ASSUME IInv, ReadHistory PROVE IInv'
  OBVIOUS
<1>1. cloud.log \in BOOLEAN
  BY DEF IInv, TypeOK
<1>2. together' \in BOOLEAN
  BY DEF ReadHistory
<1>3. CASE Read("run", cloud.attempt = 1)
  BY <1>2, <1>3, ReadStep
<1>4. CASE Read("log", cloud.log)
  BY <1>1, <1>2, <1>4, ReadStep
<1>5. CASE Read("run_again", cloud.attempt = 1)
  BY <1>2, <1>5, ReadStep
<1> QED BY <1>3, <1>4, <1>5 DEF ReadHistory

LEMMA ValidationStep == IInv /\ ReadValidation => IInv'
<1> SUFFICES ASSUME IInv, ReadValidation PROVE IInv'
  OBVIOUS
<1> DEFINE good == ~validation[chosen].rerun /\ validation[chosen].result \in Green
<1>1. together' \in BOOLEAN
  BY DEF ReadValidation
<1>2. CASE Read("jobs", validation[chosen].result = "passed")
  BY <1>1, <1>2, ReadStep
<1>3. CASE Read("validated_run", good)
  BY <1>1, <1>3, ReadStep
<1> QED BY <1>2, <1>3 DEF ReadValidation

-----------------------------------------------------------------------------
(* The pages *)

\* A page lists runs that exist.
LEMMA BatchType ==
    ASSUME NEW V, validation \in Seq(V), NEW n \in Nat \ {0}
    PROVE  Batch(n) \in Seq(1..Len(validation))
<1> DEFINE total == Len(validation)
           first == (n - 1) * PerPage + 1
           last == IF n * PerPage < Len(Listing) THEN n * PerPage ELSE Len(Listing)
<1>1. total \in Nat
  OBVIOUS
<1>2. Listing \in [1..total -> 1..total]
  BY <1>1 DEF Listing
<1>3. Len(Listing) = total
  BY <1>1 DEF Listing
<1>4. PerPage \in Nat /\ PerPage >= 1
  BY EvidenceAssumption
<1>5. first \in Int /\ first >= 1
  <2>1. n - 1 \in Nat
    OBVIOUS
  <2>2. (n - 1) * PerPage \in Nat
    BY <1>4, <2>1
  <2> QED BY <2>2
<1>6. last \in Int /\ last <= total
  <2>1. n * PerPage \in Int
    BY <1>4
  <2> QED BY <1>1, <1>3, <2>1
<1> HIDE DEF first, last
<1>7. \A i \in first..last : Listing[i] \in 1..total
  BY <1>1, <1>2, <1>5, <1>6
<1>8. SubSeq(Listing, first, last) \in Seq(1..total)
  BY <1>5, <1>6, <1>7, SubSeqProperties
<1> QED BY <1>8 DEF Batch, first, last

\* The first n entries of the listing are the n newest runs, each once.
LEMMA NewestFirst ==
    ASSUME NEW V, validation \in Seq(V), NEW n \in 0..Len(validation)
    PROVE  /\ Len(SubSeq(Listing, 1, n)) = n
           /\ Distinct(SubSeq(Listing, 1, n))
<1> DEFINE total == Len(validation)
           part == SubSeq(Listing, 1, n)
<1>1. total \in Nat /\ n \in Nat /\ n <= total
  OBVIOUS
<1>2. Listing \in [1..total -> 1..total] /\ \A i \in 1..total : Listing[i] = total + 1 - i
  BY <1>1 DEF Listing
<1>3. Len(part) = n /\ \A i \in 1..n : part[i] = Listing[i]
  <2>1. \A i \in 1..n : Listing[i] \in 1..total
    BY <1>1, <1>2
  <2>2. /\ Len(part) = IF 1 <= n THEN n - 1 + 1 ELSE 0
        /\ \A i \in 1 .. n - 1 + 1 : part[i] = Listing[1 + i - 1]
    BY <1>1, <2>1, SubSeqProperties
  <2>3. n - 1 + 1 = n /\ \A i \in 1..n : 1 + i - 1 = i
    BY <1>1
  <2> QED BY <1>1, <2>2, <2>3
<1>4. \A i \in 1..n : part[i] = total + 1 - i
  BY <1>1, <1>2, <1>3
<1> HIDE DEF part
<1>5. {part[i] : i \in 1..Len(part)} = (total + 1 - n)..total
  <2>1. ASSUME NEW k \in (total + 1 - n)..total
        PROVE  k \in {part[i] : i \in 1..Len(part)}
    <3>1. total + 1 - k \in 1..n /\ part[total + 1 - k] = k
      BY <1>1, <1>4
    <3> QED BY <1>3, <3>1
  <2>2. ASSUME NEW i \in 1..n PROVE part[i] \in (total + 1 - n)..total
    BY <1>1, <1>4
  <2> QED BY <1>3, <2>1, <2>2
<1>6. Cardinality((total + 1 - n)..total) = n
  <2>1. total + 1 - n \in Int /\ total \in Int
    BY <1>1
  <2> QED BY <1>1, <2>1, FS_Interval
<1> QED BY <1>3, <1>5, <1>6 DEF Distinct, part

\* The page after the entries so far.
LEMMA NextPage ==
    ASSUME NEW V, validation \in Seq(V), NEW n \in Nat \ {0},
           (n - 1) * PerPage <= Len(validation)
    PROVE  LET total == Len(validation)
               reach == IF n * PerPage < total THEN n * PerPage ELSE total IN
           /\ SubSeq(Listing, 1, (n - 1) * PerPage) \o Batch(n) = SubSeq(Listing, 1, reach)
           /\ reach \in 0..total /\ n * PerPage \in Nat
           /\ reach < total => Len(Batch(n)) = PerPage
<1> DEFINE total == Len(validation)
           before == (n - 1) * PerPage
           after == n * PerPage
           reach == IF after < total THEN after ELSE total
<1>1. total \in Nat /\ PerPage \in Nat /\ PerPage >= 1
  BY EvidenceAssumption
<1>2. Listing \in [1..total -> 1..total] /\ Len(Listing) = total
  BY <1>1 DEF Listing
<1>3. Listing \in Seq(1..total)
  BY <1>1, <1>2
<1>4. before \in Nat /\ after \in Nat /\ after = before + PerPage
  <2>1. n - 1 \in Nat
    OBVIOUS
  <2>2. before \in Nat /\ after \in Nat
    BY <1>1, <2>1
  <2>3. after = before + PerPage
    BY <1>1
  <2> QED BY <2>2, <2>3
<1>5. Batch(n) = SubSeq(Listing, before + 1, reach)
  BY <1>2 DEF Batch
<1>6. before <= total
  OBVIOUS
<1> HIDE DEF before, after
<1>7. reach \in 0..total /\ before <= reach
  BY <1>1, <1>4, <1>6
<1>8. SubSeq(Listing, 1, before) \o SubSeq(Listing, before + 1, reach) = SubSeq(Listing, 1, reach)
  <2>1. 1 \in 1..Len(Listing) + 1
    BY <1>1, <1>2
  <2>2. before \in 1 - 1..Len(Listing) /\ reach \in before..Len(Listing)
    BY <1>1, <1>2, <1>4, <1>6, <1>7
  <2> QED BY <1>3, <2>1, <2>2, ConcatAdjacentSubSeq
<1>9. reach < total => Len(SubSeq(Listing, before + 1, reach)) = PerPage
  <2> SUFFICES ASSUME reach < total PROVE Len(SubSeq(Listing, before + 1, reach)) = PerPage
    OBVIOUS
  <2>1. reach = before + PerPage
    BY <1>1, <1>4
  <2>2. \A i \in before + 1..reach : Listing[i] \in 1..total
    BY <1>1, <1>2, <1>4, <1>7
  <2>3. before + 1 \in Int /\ reach \in Int
    BY <1>4, <1>7
  <2> HIDE DEF reach
  <2>4. Len(SubSeq(Listing, before + 1, reach))
            = IF before + 1 <= reach THEN reach - (before + 1) + 1 ELSE 0
    BY <2>2, <2>3, SubSeqProperties
  <2> QED BY <1>1, <1>4, <2>1, <2>4
<1> QED BY <1>4, <1>5, <1>7, <1>8, <1>9 DEF before, after

LEMMA NewestOfAll ==
    ASSUME NEW total \in Nat, total >= 1
    PROVE  Newest(1..total) = total
<1>1. total \in 1..total /\ \A j \in 1..total : j <= total
  OBVIOUS
<1>2. \A i \in 1..total : (\A j \in 1..total : j <= i) => i = total
  OBVIOUS
<1> QED BY <1>1, <1>2 DEF Newest

\* Pages that list as many runs as exist, and none twice, list the newest.
LEMMA CompletePages ==
    ASSUME NEW total \in Nat, NEW all \in Seq(1..total), Len(all) = total, Distinct(all),
           {all[i] : i \in 1..Len(all)} # {}
    PROVE  total >= 1 /\ Newest({all[i] : i \in 1..Len(all)}) = total
<1> DEFINE ids == {all[i] : i \in 1..Len(all)}
<1>1. ids \in SUBSET (1..total)
  OBVIOUS
<1>2. Cardinality(ids) = total
  BY DEF Distinct
<1>3. IsFiniteSet(1..total) /\ Cardinality(1..total) = total
  BY FS_Interval
<1>4. ids = 1..total
  BY <1>1, <1>2, <1>3, FS_Subset
<1>5. total >= 1
  BY <1>4
<1> HIDE DEF ids
<1>6. Newest(ids) = total
  BY <1>4, <1>5, NewestOfAll
<1> QED BY <1>5, <1>6 DEF ids

\* Where pages is called, and what it has when it has read a page: runs that
\* exist; and the newest ones in order, unless one was created in between.
LEMMA PageFacts ==
    ASSUME IInv, At("pages")
    PROVE  LET total == Len(validation)
               all == values \o Batch(page)
               reach == IF page * PerPage < total THEN page * PerPage ELSE total IN
           /\ (stage = "poll" /\ index = 1) \/ (stage = "final" /\ index = 4)
           /\ tree = "unchanged"
           /\ total \in Nat /\ all \in Seq(1..total) /\ Len(all) \in Nat
           /\ page * PerPage \in Nat
           /\ ~overtaken =>
                  /\ expected \in {-1, total}
                  /\ all = SubSeq(Listing, 1, reach) /\ Len(all) = reach /\ Distinct(all)
                  /\ reach < total => Len(Batch(page)) = PerPage
<1> DEFINE total == Len(validation)
           all == values \o Batch(page)
           reach == IF page * PerPage < total THEN page * PerPage ELSE total
<1>1. (stage = "poll" /\ index = 1) \/ (stage = "final" /\ index = 4)
  BY PositionType, ReadPlaces DEF Position, IInv, TypeOK, At
<1>2. tree = "unchanged"
  BY <1>1 DEF IInv, TreeInv
<1>3. validation \in Seq(ValidationRuns) /\ total \in Nat /\ page \in Nat \ {0}
      /\ values \in Seq(1..total)
  BY EvidenceAssumption DEF IInv, TypeOK, PagesInv
<1>4. Batch(page) \in Seq(1..total)
  BY <1>3, BatchType
<1>5. all \in Seq(1..total) /\ Len(all) = Len(values) + Len(Batch(page)) /\ Len(all) \in Nat
  BY <1>3, <1>4, ConcatProperties
<1>6. page * PerPage \in Nat
  BY <1>3, EvidenceAssumption
<1>7. ASSUME ~overtaken
      PROVE  /\ expected \in {-1, total}
             /\ all = SubSeq(Listing, 1, reach) /\ Len(all) = reach /\ Distinct(all)
             /\ reach < total => Len(Batch(page)) = PerPage
  <2>1. expected \in {-1, total} /\ (page - 1) * PerPage <= total
        /\ values = SubSeq(Listing, 1, (page - 1) * PerPage)
    <3>1. CASE page = 1
      <4>1. (page - 1) * PerPage = 0
        BY <3>1, EvidenceAssumption
      <4>2. SubSeq(Listing, 1, 0) = << >>
        BY SubSeqEmpty
      <4> QED BY <1>3, <3>1, <4>1, <4>2 DEF IInv, TypeOK
    <3>2. CASE page > 1
      BY <1>7, <3>2 DEF IInv, PagesInv
    <3> QED BY <1>3, <3>1, <3>2
  <2>2. all = SubSeq(Listing, 1, reach) /\ reach \in 0..total
        /\ (reach < total => Len(Batch(page)) = PerPage)
    BY <1>3, <2>1, NextPage
  <2> HIDE DEF reach, all
  <2>3. Len(all) = reach /\ Distinct(all)
    BY <1>3, <2>2, NewestFirst
  <2> QED BY <2>1, <2>2, <2>3
<1> QED BY <1>1, <1>2, <1>3, <1>5, <1>6, <1>7

\* pages or local_validation ends here: it raises, or goes on to another read.
LEMMA PagesEnd ==
    ASSUME IInv, ResetPages, together' = FALSE, UNCHANGED <<githubVars, overtaken>>,
           Position', late' \in BOOLEAN, chosen' \in 0..Len(validation),
           held' \in BOOLEAN, unanswered' \in BOOLEAN
    PROVE  TypeOK' /\ PagesInv'
<1>1. /\ stage' \in DOMAIN Program \union Ended
      /\ index' \in 1..(IF stage' \in Ended THEN 1 ELSE Len(Program[stage']))
  BY PositionType DEF Position
<1>2. /\ page' \in 1..MaxPages /\ expected' \in -1..MaxRuns
      /\ expected' = -1 /\ values' = << >>
  BY EvidenceAssumption DEF ResetPages
<1>3. values' \in Seq(1..MaxRuns) /\ values' \in Seq(1..Len(validation'))
  BY DEF ResetPages
<1>4. TypeOK'
  BY <1>1, <1>2, <1>3 DEF IInv, TypeOK, githubVars
<1> QED BY <1>3, <1>4 DEF PagesInv, ResetPages

LEMMA RaiseStep ==
    ASSUME IInv, Fail, ResetPages, together' = FALSE, UNCHANGED <<githubVars, overtaken>>,
           late' \in BOOLEAN, chosen' \in 0..Len(validation),
           held' \in BOOLEAN, unanswered' \in BOOLEAN
    PROVE  IInv'
<1>1. Position' /\ stage' = "failed"
  BY FailFacts
<1>2. TypeOK' /\ PagesInv'
  BY <1>1, PagesEnd
<1> QED BY <1>1, <1>2 DEF IInv, TreeInv, ChosenInv, HeldInv, TogetherInv

\* The loop waits for a validation, or it is an error that there is none.
LEMMA NotYetStep ==
    ASSUME IInv, NotYet, ResetPages, together' = FALSE,
           UNCHANGED <<githubVars, overtaken, unanswered>>,
           chosen' \in 0..Len(validation), held' \in BOOLEAN
    PROVE  IInv'
<1>1. late' \in BOOLEAN /\ unanswered' \in BOOLEAN
  BY DEF NotYet, IInv, TypeOK
<1>2. CASE stage = "poll" /\ stage' = "wait" /\ index' = 1
  <2>1. Position'
    BY <1>2 DEF Position, Placed, Stages, Ended
  <2>2. TypeOK' /\ PagesInv'
    BY <1>1, <2>1, PagesEnd
  <2> QED BY <1>2, <2>2
          DEF IInv, TreeInv, ChosenInv, HeldInv, TogetherInv, githubVars
<1>3. CASE Fail
  BY <1>1, <1>3, RaiseStep
<1> QED BY <1>2, <1>3 DEF NotYet

\* pages has returned, and local_validation has chosen the newest run, if any.
LEMMA ReturnedStep ==
    ASSUME IInv, together' = FALSE, UNCHANGED <<githubVars, overtaken>>,
           (stage = "poll" /\ index = 1) \/ (stage = "final" /\ index = 4),
           tree = "unchanged",
           NEW all \in Seq(1..Len(validation)), Len(all) = Len(validation), Distinct(all),
           Returned(all)
    PROVE  IInv'
<1> DEFINE ids == {all[i] : i \in 1..Len(all)}
           newest == Newest(ids)
           total == Len(validation)
<1>1. /\ ResetPages /\ total \in Nat /\ UNCHANGED unanswered
      /\ unanswered \in BOOLEAN /\ late \in BOOLEAN
  BY DEF Returned, IInv, TypeOK
<1>2. CASE ids = {} /\ NotYet /\ UNCHANGED <<chosen, held>>
  <2>1. chosen' \in 0..total /\ held' \in BOOLEAN
    BY <1>2 DEF IInv, TypeOK
  <2> QED BY <1>1, <1>2, <2>1, NotYetStep
<1>3. ASSUME ids # {}, chosen' = newest, held' = EvidenceHolds(newest),
             \/ Judge(validation[newest]) = "examine" /\ Proceed /\ UNCHANGED late
             \/ Judge(validation[newest]) = "raise" /\ Fail /\ UNCHANGED late
             \/ Judge(validation[newest]) = "not_yet" /\ NotYet
      PROVE  IInv'
  <2>1. total >= 1 /\ newest = total
    BY <1>1, <1>3, CompletePages
  <2> HIDE DEF newest, ids
  <2>2. chosen' = total /\ chosen' \in 0..total
    BY <1>1, <1>3, <2>1
  <2>3. held' = EvidenceHolds(total)
    BY <1>3, <2>1
  <2>4. held' \in BOOLEAN
    BY <2>3 DEF EvidenceHolds
  <2>5. CASE Judge(validation[newest]) = "examine" /\ Proceed /\ UNCHANGED late
    <3>1. Position /\ stage \notin Ended
      BY PositionType DEF Position, IInv, TypeOK, Ended
    <3>2. Position' /\ stage' = stage /\ index' = index + 1 /\ index' \in {2, 5}
      BY <2>5, <3>1, ProceedFacts
    <3>3. TypeOK' /\ PagesInv'
      BY <1>1, <2>2, <2>4, <2>5, <3>2, PagesEnd
    <3>4. ~validation[total].rerun /\ validation[total].result \in Green
      BY <2>1, <2>5 DEF Judge
    <3>5. TreeInv' /\ ChosenInv' /\ TogetherInv'
      BY <2>1, <2>2, <3>2, <3>4 DEF TreeInv, ChosenInv, TogetherInv, githubVars
    <3>6. HeldInv'
      <4>1. ~held' => \/ main # 0 \/ cloud.attempt # 1 \/ ~cloud.log
                      \/ validation[total].result # "passed"
        <5>1. cloud \in [attempt : {1, 2}, log : BOOLEAN]
          BY DEF IInv, TypeOK
        <5>2. cloud.attempt = 1 /\ cloud.log => cloud = Intact
          BY <5>1 DEF Intact
        <5> QED BY <2>3, <3>4, <5>2 DEF EvidenceHolds, Passed
      <4>2. stage' = "final" => index' = 5
        BY <3>2
      <4>3. UNCHANGED <<main, cloud, validation>>
        BY DEF githubVars
      <4> QED BY <2>2, <3>2, <4>1, <4>2, <4>3 DEF HeldInv
    <3> QED BY <3>3, <3>5, <3>6 DEF IInv
  <2>6. CASE Judge(validation[newest]) = "raise" /\ Fail /\ UNCHANGED late
    BY <1>1, <2>2, <2>4, <2>6, RaiseStep
  <2>7. CASE Judge(validation[newest]) = "not_yet" /\ NotYet
    BY <1>1, <2>2, <2>4, <2>7, NotYetStep
  <2> QED BY <1>3, <2>5, <2>6, <2>7
<1> QED BY <1>2, <1>3 DEF Returned

LEMMA PageStep == IInv /\ ReadPage => IInv'
<1> SUFFICES ASSUME IInv, ReadPage PROVE IInv'
  OBVIOUS
<1> DEFINE total == Len(validation)
           batch == Batch(page)
           all == values \o batch
           reach == IF page * PerPage < total THEN page * PerPage ELSE total
           consistent == expected \in {-1, total} /\ Len(all) <= total
<1>1. At("pages") /\ together' = FALSE /\ UNCHANGED <<githubVars, overtaken>>
  BY DEF ReadPage
<1>2. /\ (stage = "poll" /\ index = 1) \/ (stage = "final" /\ index = 4)
      /\ tree = "unchanged"
      /\ total \in Nat /\ all \in Seq(1..total) /\ Len(all) \in Nat
      /\ page * PerPage \in Nat
      /\ ~overtaken => all = SubSeq(Listing, 1, reach) /\ Len(all) = reach
  BY <1>1, PageFacts
<1>3. /\ chosen \in 0..total /\ held \in BOOLEAN /\ total <= MaxRuns /\ page \in 1..MaxPages
      /\ late \in BOOLEAN /\ unanswered \in BOOLEAN
  BY DEF IInv, TypeOK
<1> HIDE DEF batch, all
<1>4. CASE consistent /\ Len(all) = total /\ Distinct(all) /\ Returned(all)
  BY <1>1, <1>2, <1>4, ReturnedStep
<1>5. CASE /\ consistent /\ Len(all) < total
           /\ Len(batch) = PerPage /\ ~LastPage
           /\ page' = page + 1 /\ expected' = total /\ values' = all
           /\ UNCHANGED <<stage, index, late, chosen, held, unanswered>>
  <2>1. page' \in 1..MaxPages /\ page' # 1 /\ expected' \in -1..MaxRuns
    BY <1>2, <1>3, <1>5, EvidenceAssumption DEF LastPage
  <2>2. values' \in Seq(1..total)
    BY <1>2, <1>5
  <2>3. values' \in Seq(1..MaxRuns)
    BY <1>2, <1>3, <2>2, EvidenceAssumption
  <2>4. TypeOK'
    BY <1>1, <1>5, <2>1, <2>3 DEF IInv, TypeOK, githubVars
  <2>5. PagesInv'
    <3>1. page' - 1 = page /\ page' > 1
      BY <1>3, <1>5
    <3>2. ~overtaken => page * PerPage <= total /\ all = SubSeq(Listing, 1, page * PerPage)
      BY <1>2, <1>5
    <3>3. UNCHANGED <<validation, overtaken>>
      BY <1>1 DEF githubVars
    <3>4. Listing' = Listing
      BY <3>3 DEF Listing
    <3> QED BY <1>5, <2>2, <3>1, <3>2, <3>3, <3>4 DEF PagesInv
  <2>6. TreeInv' /\ ChosenInv' /\ HeldInv' /\ TogetherInv'
    BY <1>1, <1>2, <1>5 DEF IInv, TreeInv, ChosenInv, HeldInv, TogetherInv, githubVars
  <2> QED BY <2>4, <2>5, <2>6 DEF IInv
<1>6. CASE Fail /\ ResetPages /\ unanswered' \in BOOLEAN /\ UNCHANGED <<late, chosen, held>>
  BY <1>1, <1>3, <1>6, RaiseStep
<1> QED BY <1>3, <1>4, <1>5, <1>6 DEF ReadPage, all, batch

-----------------------------------------------------------------------------
(* GitHub *)

\* A change on GitHub, where no validation run disappears, no result is taken back,
\* and what is lost is not found again.
LEMMA ChangeStep ==
    ASSUME IInv, Changes, UNCHANGED tree,
           pull' \in [offers : BOOLEAN, base : 0..MaxMain],
           main' \in 0..MaxMain, main' >= main,
           own' \in [attempt : {1}, status : {"in_progress", "completed"}],
           cloud' \in [attempt : {1, 2}, log : BOOLEAN],
           cloud.attempt # 1 => cloud'.attempt # 1, ~cloud.log => ~cloud'.log,
           validation' \in Seq(ValidationRuns), Len(validation') <= MaxRuns,
           Len(validation') >= Len(validation),
           \A i \in 1..Len(validation) :
               validation[i].result \in Green => validation'[i].result = validation[i].result,
           overtaken' \in BOOLEAN,
           ~overtaken' => ~overtaken /\ (Len(validation') = Len(validation) \/ ~Examining)
    PROVE  IInv'
<1>1. UNCHANGED <<stage, index, late, page, expected, values, chosen, together, held, unanswered>>
  BY DEF Changes, verifierVars
<1>2. Len(validation) \in Nat /\ Len(validation') \in Nat /\ chosen \in 0..Len(validation)
      /\ main \in 0..MaxMain /\ page \in 1..MaxPages
  BY DEF IInv, TypeOK
<1>3. TypeOK'
  <2>1. chosen' \in 0..Len(validation')
    BY <1>1, <1>2
  <2> QED BY <1>1, <2>1 DEF IInv, TypeOK
<1>4. PagesInv'
  <2>1. values \in Seq(1..Len(validation'))
    BY <1>2 DEF IInv, PagesInv
  <2>2. CASE page = 1
    BY <1>1, <2>1, <2>2 DEF IInv, PagesInv
  <2>3. CASE page > 1 /\ overtaken'
    BY <1>1, <2>1, <2>3 DEF PagesInv
  <2>4. CASE page > 1 /\ ~overtaken'
    <3>1. ~overtaken /\ Len(validation') = Len(validation)
      BY <2>4 DEF Examining
    <3>2. Listing' = Listing
      BY <3>1 DEF Listing
    <3> QED BY <1>1, <2>1, <2>4, <3>1, <3>2 DEF IInv, PagesInv
  <2> QED BY <1>2, <2>2, <2>3, <2>4
<1>5. TreeInv' /\ TogetherInv'
  BY <1>1, <1>2 DEF IInv, TreeInv, TogetherInv
<1>6. ChosenInv'
  <2>1. (stage = "poll" /\ index > 1) \/ stage = "final" =>
            chosen >= 1 /\ validation'[chosen].result \in Green
    BY <1>2 DEF IInv, ChosenInv
  <2>2. ~overtaken' /\ ((stage = "poll" /\ index > 1) \/ (stage = "final" /\ index <= 6)) =>
            chosen = Len(validation')
    BY DEF IInv, ChosenInv, Examining
  <2> QED BY <1>1, <2>1, <2>2 DEF ChosenInv
<1>7. HeldInv'
  <2>1. stage = "final" => validation'[chosen].result = validation[chosen].result
    BY <1>2 DEF IInv, ChosenInv
  <2>2. main # 0 => main' # 0
    BY <1>2
  <2> QED BY <1>1, <2>1, <2>2 DEF IInv, HeldInv
<1> QED BY <1>3, <1>4, <1>5, <1>6, <1>7 DEF IInv

\* What ChangeStep asks of what a change leaves alone.
LEMMA BeforeChange ==
    ASSUME IInv
    PROVE  /\ pull \in [offers : BOOLEAN, base : 0..MaxMain]
           /\ main \in 0..MaxMain /\ main \in Nat
           /\ own \in [attempt : {1}, status : {"in_progress", "completed"}]
           /\ cloud \in [attempt : {1, 2}, log : BOOLEAN]
           /\ validation \in Seq(ValidationRuns) /\ Len(validation) <= MaxRuns
           /\ Len(validation) \in Nat
           /\ overtaken \in BOOLEAN
BY EvidenceAssumption DEF IInv, TypeOK

LEMMA ChangePullStep == IInv /\ ChangePull => IInv'
<1> SUFFICES ASSUME IInv, ChangePull PROVE IInv'
  OBVIOUS
<1>1. Changes /\ UNCHANGED <<main, own, tree, cloud, validation, overtaken>>
  BY DEF ChangePull
<1>2. pull' \in [offers : BOOLEAN, base : 0..MaxMain]
  BY BeforeChange DEF ChangePull
<1> QED BY <1>1, <1>2, BeforeChange, ChangeStep

LEMMA AdvanceMainStep == IInv /\ AdvanceMain => IInv'
<1> SUFFICES ASSUME IInv, AdvanceMain PROVE IInv'
  OBVIOUS
<1>1. Changes /\ UNCHANGED <<pull, own, tree, cloud, validation, overtaken>>
  BY DEF AdvanceMain
<1>2. main' \in 0..MaxMain /\ main' >= main
  BY BeforeChange, EvidenceAssumption DEF AdvanceMain
<1> QED BY <1>1, <1>2, BeforeChange, ChangeStep

LEMMA LoseEvidenceStep == IInv /\ LoseEvidence => IInv'
<1> SUFFICES ASSUME IInv, LoseEvidence PROVE IInv'
  OBVIOUS
<1>1. Changes /\ UNCHANGED <<pull, main, tree, validation, overtaken>>
  BY DEF LoseEvidence
<1>2. /\ own' \in [attempt : {1}, status : {"in_progress", "completed"}]
      /\ cloud' \in [attempt : {1, 2}, log : BOOLEAN]
      /\ cloud.attempt # 1 => cloud'.attempt # 1
      /\ ~cloud.log => ~cloud'.log
  BY BeforeChange DEF LoseEvidence
<1> QED BY <1>1, <1>2, BeforeChange, ChangeStep

LEMMA CreateValidationStep == IInv /\ CreateValidation => IInv'
<1> SUFFICES ASSUME IInv, CreateValidation PROVE IInv'
  OBVIOUS
<1> DEFINE run == [rerun |-> FALSE, result |-> "active"]
<1>1. /\ Changes /\ UNCHANGED <<pull, main, own, tree, cloud>>
      /\ Len(validation) < MaxRuns /\ validation' = Append(validation, run)
      /\ overtaken' = (overtaken \/ Examining)
  BY DEF CreateValidation
<1>2. run \in ValidationRuns
  BY DEF ValidationRuns
<1>3. /\ validation' \in Seq(ValidationRuns) /\ Len(validation') = Len(validation) + 1
      /\ \A i \in 1..Len(validation) : validation'[i] = validation[i]
  BY <1>1, <1>2, BeforeChange, AppendProperties
<1>4. Len(validation') <= MaxRuns /\ Len(validation') >= Len(validation)
  BY <1>1, <1>3, BeforeChange, EvidenceAssumption
<1>5. overtaken' \in BOOLEAN /\ (~overtaken' => ~overtaken /\ ~Examining)
  BY <1>1, BeforeChange
<1> QED BY <1>1, <1>3, <1>4, <1>5, BeforeChange, ChangeStep

\* One validation run changes, and no green result of it.
LEMMA OneRunStep ==
    ASSUME IInv, Changes, UNCHANGED <<pull, main, own, tree, cloud, overtaken>>,
           NEW i \in 1..Len(validation), NEW run \in ValidationRuns,
           validation' = [validation EXCEPT ![i] = run],
           validation[i].result \in Green => run.result = validation[i].result
    PROVE  IInv'
<1>1. validation' \in Seq(ValidationRuns) /\ Len(validation') = Len(validation)
  BY BeforeChange
<1>2. \A j \in 1..Len(validation) :
          validation[j].result \in Green => validation'[j].result = validation[j].result
  BY BeforeChange
<1> QED BY <1>1, <1>2, BeforeChange, ChangeStep

LEMMA EndValidationStep ==
    ASSUME IInv, NEW i \in 1..Len(validation), EndValidation(i)
    PROVE  IInv'
<1>1. PICK result \in Green \union {"failure"} :
          validation' = [validation EXCEPT ![i].result = result]
  BY DEF EndValidation
<1> DEFINE run == [validation[i] EXCEPT !.result = result]
<1>2. validation[i] \in ValidationRuns
  BY BeforeChange, ElementOfSeq
<1>3. run \in ValidationRuns /\ validation' = [validation EXCEPT ![i] = run]
  BY <1>1, <1>2 DEF ValidationRuns
<1>4. validation[i].result \notin Green
  BY DEF EndValidation, Green
<1> QED BY <1>3, <1>4, OneRunStep DEF EndValidation

LEMMA RerunValidationStep ==
    ASSUME IInv, NEW i \in 1..Len(validation), RerunValidation(i)
    PROVE  IInv'
<1> DEFINE run == [validation[i] EXCEPT !.rerun = TRUE]
<1>1. validation[i] \in ValidationRuns
  BY BeforeChange, ElementOfSeq
<1>2. run \in ValidationRuns /\ run.result = validation[i].result
  BY <1>1 DEF ValidationRuns
<1>3. validation' = [validation EXCEPT ![i] = run]
  BY DEF RerunValidation
<1> QED BY <1>2, <1>3, OneRunStep DEF RerunValidation

\* Neither the deadline nor a step of anything else changes what IInv is about.
LEMMA IdleStep ==
    ASSUME IInv, late' \in BOOLEAN,
           UNCHANGED <<stage, index, page, expected, values, chosen, githubVars, historyVars>>
    PROVE  IInv'
<1>1. /\ UNCHANGED <<stage, index, page, expected, values, chosen>>
      /\ UNCHANGED <<pull, main, own, tree, cloud, validation>>
      /\ UNCHANGED <<together, held, unanswered, overtaken>>
  BY DEF githubVars, historyVars
<1>2. TypeOK'
  BY <1>1 DEF IInv, TypeOK
<1>3. Listing' = Listing
  BY <1>1 DEF Listing
<1>4. PagesInv'
  BY <1>1, <1>3 DEF IInv, PagesInv
<1>5. TreeInv' /\ ChosenInv' /\ HeldInv' /\ TogetherInv'
  BY <1>1 DEF IInv, TreeInv, ChosenInv, HeldInv, TogetherInv
<1> QED BY <1>2, <1>4, <1>5 DEF IInv

LEMMA DeadlineStep == IInv /\ DeadlinePasses => IInv'
BY IdleStep DEF DeadlinePasses

LEMMA StutterStep == IInv /\ UNCHANGED vars => IInv'
<1> SUFFICES ASSUME IInv, UNCHANGED vars PROVE IInv'
  OBVIOUS
<1>1. late' \in BOOLEAN
  BY DEF IInv, TypeOK, vars, verifierVars
<1> QED BY <1>1, IdleStep DEF vars, verifierVars

LEMMA NextStep == IInv /\ [Next]_vars => IInv'
<1> SUFFICES ASSUME IInv, [Next]_vars PROVE IInv'
  OBVIOUS
<1>1. CASE Verify
  BY <1>1, IdentityStep, PullStep, MainStep, TreesStep, HistoryStep, PageStep, ValidationStep
     DEF Verify
<1>2. CASE GitHub
  BY <1>2, CreateValidationStep, EndValidationStep, RerunValidationStep, ChangePullStep,
     AdvanceMainStep, LoseEvidenceStep DEF GitHub
<1>3. CASE DeadlinePasses
  BY <1>3, DeadlineStep
<1> QED BY <1>1, <1>2, <1>3, StutterStep DEF Next

-----------------------------------------------------------------------------
(* Why verify refuses *)

\* The reasons of RefusesForReason.
Reason ==
    \/ tree = "changed" \/ ~PullOk \/ main # 0 \/ cloud # Intact \/ own # Running
    \/ validation # << >> /\ Unfit(validation[Len(validation)])
    \/ late /\ stage = "poll" /\ Awaited
    \/ overtaken
    \/ Len(validation) > MaxPages * PerPage
    \/ unanswered'

\* A read that is not ok has a reason, so a read that fails has one.
LEMMA ReadReason ==
    ASSUME NEW name, NEW ok, Read(name, ok), stage' = "failed", IInv,
           ~ok => Reason
    PROVE  Reason
<1>1. Position /\ stage \notin Ended
  BY PositionType DEF Position, IInv, TypeOK, Read, At
<1>2. ~Proceed
  BY <1>1, ProceedFacts DEF Ended
<1> QED BY <1>2 DEF Read, Reason

\* local_validation has chosen a run that ended green, and is the newest unless
\* it was overtaken: what it then finds wrong is wrong with the newest run.
LEMMA ChosenReason ==
    ASSUME IInv, At("jobs") \/ At("validated_run"),
           validation[chosen].rerun \/ validation[chosen].result # "passed"
    PROVE  Reason
<1>1. Position /\ stage \notin Ended /\ Program[stage][index] \in {"jobs", "validated_run"}
  BY PositionType DEF Position, IInv, TypeOK, At
<1>2. (stage = "poll" /\ index > 1) \/ (stage = "final" /\ index <= 6)
  BY <1>1, ReadPlaces
<1>3. /\ chosen >= 1 /\ validation[chosen].result \in Green
      /\ chosen \in 0..Len(validation) /\ Len(validation) \in Nat
  BY <1>2 DEF IInv, TypeOK, ChosenInv
<1>4. Unfit(validation[chosen]) /\ validation # << >>
  BY <1>3 DEF Unfit, Green
<1>5. ~overtaken => chosen = Len(validation)
  BY <1>2 DEF IInv, ChosenInv
<1> QED BY <1>4, <1>5 DEF Reason

\* No completed validation is an error when the deadline has passed, or when there
\* was one before and none has overtaken it.
LEMMA NotYetReason ==
    ASSUME IInv, NotYet, stage' = "failed", Awaited,
           (stage = "poll" /\ index = 1) \/ (stage = "final" /\ index = 4)
    PROVE  Reason
<1>1. CASE stage = "poll"
  BY <1>1 DEF NotYet, Reason
<1>2. CASE stage = "final"
  <2>1. /\ chosen >= 1 /\ validation[chosen].result \in Green /\ chosen \in 0..Len(validation)
        /\ ~overtaken => chosen = Len(validation)
    BY <1>2 DEF IInv, TypeOK, ChosenInv
  <2>2. overtaken
    BY <2>1 DEF Awaited, Green
  <2> QED BY <2>2 DEF Reason
<1> QED BY <1>1, <1>2

LEMMA ReturnedReason ==
    ASSUME IInv, stage' = "failed",
           (stage = "poll" /\ index = 1) \/ (stage = "final" /\ index = 4),
           NEW all \in Seq(1..Len(validation)), Len(all) = Len(validation), Distinct(all),
           Returned(all)
    PROVE  Reason
<1> DEFINE ids == {all[i] : i \in 1..Len(all)}
           newest == Newest(ids)
           total == Len(validation)
<1>1. total \in Nat /\ validation \in Seq(ValidationRuns)
  BY DEF IInv, TypeOK
<1>2. CASE ids = {} /\ NotYet
  <2>1. total = 0
    <3>1. 1 \notin 1..Len(all)
      BY <1>2
    <3> QED BY <1>1, <3>1
  <2>2. Awaited
    BY <1>1, <2>1 DEF Awaited
  <2> QED BY <1>2, <2>2, NotYetReason
<1>3. ASSUME ids # {},
             \/ Judge(validation[newest]) = "examine" /\ Proceed
             \/ Judge(validation[newest]) = "raise"
             \/ Judge(validation[newest]) = "not_yet" /\ NotYet
      PROVE  Reason
  <2>1. total >= 1 /\ newest = total
    BY <1>1, <1>3, CompletePages
  <2> HIDE DEF newest, ids
  <2>2. validation[total] \in ValidationRuns /\ validation # << >>
    BY <1>1, <2>1, ElementOfSeq
  <2>3. CASE Proceed
    <3>1. Position /\ stage \notin Ended
      BY PositionType DEF Position, IInv, TypeOK, Ended
    <3> QED BY <2>3, <3>1, ProceedFacts DEF Ended
  <2>4. CASE Judge(validation[newest]) = "raise"
    <3>1. Unfit(validation[total])
      BY <2>1, <2>2, <2>4 DEF Judge, Unfit, ValidationRuns, Green
    <3> QED BY <2>2, <3>1 DEF Reason
  <2>5. CASE Judge(validation[newest]) = "not_yet" /\ NotYet
    <3>1. Awaited
      BY <2>1, <2>5 DEF Judge, Awaited
    <3> QED BY <2>5, <3>1, NotYetReason
  <2> QED BY <1>3, <2>3, <2>4, <2>5
<1> QED BY <1>2, <1>3 DEF Returned

\* Pages that do not fit together were overtaken, and a listing that the last page
\* does not end has more runs than pages may list.
LEMMA PageReason == IInv /\ ReadPage /\ stage' = "failed" => Reason
<1> SUFFICES ASSUME IInv, ReadPage, stage' = "failed" PROVE Reason
  OBVIOUS
<1> DEFINE total == Len(validation)
           batch == Batch(page)
           all == values \o batch
           reach == IF page * PerPage < total THEN page * PerPage ELSE total
           consistent == expected \in {-1, total} /\ Len(all) <= total
<1>1. At("pages")
  BY DEF ReadPage
<1>2. /\ (stage = "poll" /\ index = 1) \/ (stage = "final" /\ index = 4)
      /\ total \in Nat /\ all \in Seq(1..total) /\ Len(all) \in Nat
      /\ page * PerPage \in Nat
      /\ ~overtaken => /\ expected \in {-1, total} /\ Len(all) = reach /\ Distinct(all)
                       /\ reach < total => Len(batch) = PerPage
  BY <1>1, PageFacts
<1> HIDE DEF batch, all
<1>3. CASE consistent /\ Len(all) = total /\ Distinct(all) /\ Returned(all)
  BY <1>2, <1>3, ReturnedReason
<1>4. CASE UNCHANGED stage
  BY <1>2, <1>4
<1>5. CASE unanswered' = TRUE
  BY <1>5 DEF Reason
<1>6. CASE \/ ~consistent
           \/ Len(all) = total /\ ~Distinct(all)
           \/ Len(all) < total /\ (Len(batch) # PerPage \/ LastPage)
  <2> SUFFICES ASSUME ~overtaken PROVE total > MaxPages * PerPage
    BY DEF Reason
  <2>1. reach < total /\ LastPage
    BY <1>2, <1>6
  <2> QED BY <1>2, <2>1 DEF LastPage
<1> QED BY <1>3, <1>4, <1>5, <1>6 DEF ReadPage, all, batch

LEMMA StepReason == IInv /\ Verify /\ stage' = "failed" => Reason
<1> SUFFICES ASSUME IInv, Verify, stage' = "failed" PROVE Reason
  OBVIOUS
<1>1. CASE ReadIdentity
  BY <1>1, ReadReason DEF ReadIdentity, Reason
<1>2. CASE ReadPull
  BY <1>2, ReadReason DEF ReadPull, Reason
<1>3. CASE ReadMain
  BY <1>3, ReadReason DEF ReadMain, Reason
<1>4. CASE ReadTrees
  <2>1. tree # "unchanged" => tree = "changed"
    BY DEF IInv, TypeOK
  <2> QED BY <1>4, <2>1, ReadReason DEF ReadTrees, Reason
<1>5. CASE ReadHistory
  <2>1. cloud.attempt # 1 \/ ~cloud.log => cloud # Intact
    BY DEF Intact
  <2>2. cloud # Intact => Reason
    BY DEF Reason
  <2>3. CASE Read("run", cloud.attempt = 1)
    BY <2>1, <2>2, <2>3, ReadReason
  <2>4. CASE Read("log", cloud.log)
    BY <2>1, <2>2, <2>4, ReadReason
  <2>5. CASE Read("run_again", cloud.attempt = 1)
    BY <2>1, <2>2, <2>5, ReadReason
  <2> QED BY <1>5, <2>3, <2>4, <2>5 DEF ReadHistory
<1>6. CASE ReadPage
  BY <1>6, PageReason
<1>7. CASE ReadValidation
  <2> DEFINE good == ~validation[chosen].rerun /\ validation[chosen].result \in Green
  <2>1. CASE Read("jobs", validation[chosen].result = "passed")
    <3>1. validation[chosen].result # "passed" => Reason
      BY <2>1, ChosenReason DEF Read
    <3> QED BY <2>1, <3>1, ReadReason
  <2>2. CASE Read("validated_run", good)
    <3>1. ~good => Reason
      BY <2>2, ChosenReason DEF Read, Green
    <3> QED BY <2>2, <3>1, ReadReason
  <2> QED BY <1>7, <2>1, <2>2 DEF ReadValidation
<1> QED BY <1>1, <1>2, <1>3, <1>4, <1>5, <1>6, <1>7 DEF Verify

-----------------------------------------------------------------------------
(* What verify promises *)

\* The inductive invariant holds of every behaviour of verify and GitHub.
THEOREM Invariance == Spec => []IInv
<1>1. Init => IInv
  BY InitIInv
<1>2. IInv /\ [Next]_vars => IInv'
  BY NextStep
<1> QED BY <1>1, <1>2, PTL DEF Spec

\* Every variable has its type: no run of verify leaves its parts or its bounds.
THEOREM TypeCorrect == Spec => []TypeOK
<1>1. IInv => TypeOK
  BY DEF IInv
<1> QED BY <1>1, Invariance, PTL

\* What verify accepts: an unchanged candidate; validation, cloud run, log and main
\* as they must be, all at the end of its last listing; and at a later moment the
\* pull request open at the candidate with main still BASE.
THEOREM AcceptsWhatWasCurrent == Spec => []VerifiedWasCurrent
<1>1. IInv => VerifiedWasCurrent
  BY DEF IInv, TreeInv, HeldInv, TogetherInv, VerifiedWasCurrent
<1> QED BY <1>1, Invariance, PTL

\* When verify raises, one of the reasons of RefusesForReason holds: the pages of a
\* listing into which no run is created between two of them fit together, and no
\* validation that is only absent, active or older than the newest is an error.
THEOREM RefusalHasReason == Spec => RefusesForReason
<1>1. IInv /\ [Next]_vars => (stage' = "failed" /\ stage # "failed" => Reason)
  <2> SUFFICES ASSUME IInv, [Next]_vars, stage' = "failed", stage # "failed" PROVE Reason
    OBVIOUS
  <2>1. CASE Verify
    BY <2>1, StepReason
  <2>2. CASE GitHub \/ DeadlinePasses \/ UNCHANGED vars
    <3>1. UNCHANGED stage
      BY <2>2 DEF GitHub, CreateValidation, EndValidation, RerunValidation, ChangePull,
                  AdvanceMain, LoseEvidence, Changes, verifierVars, DeadlinePasses, vars
    <3> QED BY <3>1
  <2> QED BY <2>1, <2>2 DEF Next
<1>2. IInv /\ [Next]_vars =>
          [stage' = "failed" /\ stage # "failed" =>
              \/ tree = "changed" \/ ~PullOk \/ main # 0 \/ cloud # Intact \/ own # Running
              \/ validation # << >> /\ Unfit(validation[Len(validation)])
              \/ late /\ stage = "poll" /\ Awaited
              \/ overtaken
              \/ Len(validation) > MaxPages * PerPage
              \/ unanswered']_vars
  BY <1>1 DEF Reason
<1> QED BY <1>2, Invariance, PTL DEF Spec, RefusesForReason
=============================================================================
