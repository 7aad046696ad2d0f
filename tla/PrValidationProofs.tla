-------------------------- MODULE PrValidationProofs --------------------------
(***************************************************************************)
(* Proofs about PrValidation: what an accepted pull request was, and why   *)
(* an attempt is refused, for any number of runs, attempts, jobs, heads,   *)
(* commits and Go releases.                                                *)
(***************************************************************************)
EXTENDS PrValidation, TLAPS

-----------------------------------------------------------------------------
(* The inductive invariant *)

Running == {"base", "plan", "jobs", "attempt", "newer", "pull", "ref", "evaluate"}
Recheck == {"attempt", "newer", "pull", "ref"}
IsPull(r) == event[r] = "pull_request"

\* Runs are created in their order, for heads that main has the base of.
RunInv(r) ==
    /\ event[r] = "none" <=> newest[r] = 0
    /\ newest[r] # 0 => \A q \in Runs : q < r => newest[q] # 0
    /\ IsPull(r) => head[r] \in Heads /\ head[r].on <= tip
    /\ ~IsPull(r) => head[r] = NoHead

\* The attempts of a run are those up to its newest, and those that have not got
\* to their jobs have nothing.
PlaceInv(p) ==
    /\ pc[p] # "none" <=> p[2] <= newest[p[1]]
    /\ pc[p] \in {"none", "base", "plan"} => result[p] = NoResults /\ runtime[p] = NoRuntime
    /\ pc[p] = "none" => base[p] = 0
    /\ pc[p] \in {"base"} \union Recheck => IsPull(p[1])
    /\ pc[p] = "jobs" => \/ result[p]["preflight"] = "success"
                         \/ \A j \in AllJobs : result[p][j] # "none"

\* A base is one of main that the head contains; a preflight that succeeded, and
\* the recheck, have one.
BaseInv(p) ==
    /\ base[p] # 0 => IsPull(p[1]) /\ base[p] <= head[p[1]].on
    /\ IsPull(p[1]) /\ result[p]["preflight"] = "success" => base[p] # 0
    /\ IsPull(p[1]) /\ pc[p] \in {"plan", "evaluate", "passed"} \union Recheck => base[p] # 0

\* If the pull request and main were not current together when the first was
\* read, then main had moved on, and the last read will show it.
FreshInv(p) ==
    /\ pc[p] = "ref" => p \in fresh \/ base[p] < tip
    /\ pc[p] \in {"evaluate", "passed"} /\ IsPull(p[1]) => p \in fresh

\* Results of success are earned and come with their outputs, and what the jobs
\* report is what was planned.
WorkInv(p) ==
    /\ \A j \in AllJobs : result[p][j] = "success" => <<p[1], j>> \in worked
    /\ \A j \in Versioned : result[p][j] = "success" => runtime[p][j] # 0
    /\ Mode = "latest" =>
          /\ \A j \in Versioned : runtime[p][j] \in {0, spec[p]}
          /\ result[p]["preflight"] = "success" => spec[p] # 0
    /\ pc[p] = "passed" => Complete(p)

\* The pull request and the runs are as the recheck wants them.
Calm(p) ==
    IsPull(p[1]) =>
        /\ Current(head[p[1]], tip) /\ pull.base = tip
        /\ newest[p[1]] = p[2] /\ ~NewerRun(p[1])
        /\ base[p] \in {0, tip}

\* An attempt without failure and change, whose head contains the tip of main,
\* has only results of success, and the base that it started on.
CalmInv(p) ==
    p \notin disturbed /\ ~Stale(p) =>
        /\ pc[p] # "failed"
        /\ pc[p] \in Running =>
              /\ Calm(p)
              /\ \A j \in AllJobs : result[p][j] \in {"none", "success"}
              /\ pc[p] \in Recheck \union {"evaluate"} => Complete(p)

AttemptInv(p) ==
    PlaceInv(p) /\ BaseInv(p) /\ FreshInv(p) /\ WorkInv(p) /\ CalmInv(p)

\* The inductive invariant.
IInv ==
    /\ TypeOK
    /\ pull.head.on <= tip
    /\ \A r \in Runs : RunInv(r)
    /\ \A p \in Attempts : AttemptInv(p)

-----------------------------------------------------------------------------
(* What keeps an attempt's invariant *)

\* Nothing of attempt p itself changes.
Frame(p) ==
    /\ pc'[p] = pc[p] /\ result'[p] = result[p]
    /\ base'[p] = base[p] /\ spec'[p] = spec[p] /\ runtime'[p] = runtime[p]
    /\ p \in fresh' <=> p \in fresh

\* What happens outside either leaves p calm, or disturbs it, or p was stale.
Heeded(p) ==
    \/ p \in disturbed'
    \/ p \notin disturbed /\ (pc[p] \in Running /\ ~Stale(p) => Calm(p)')

LEMMA AttemptType ==
    ASSUME NEW p \in Attempts
    PROVE  p[1] \in Runs /\ p[2] \in 1..MaxAttempts /\ p = <<p[1], p[2]>>
BY DEF Attempts

\* The invariant of an attempt survives every step of others: its run stays, main
\* only advances, and what is earned is never lost.
LEMMA AttemptStable ==
    ASSUME NEW p \in Attempts, TypeOK, TypeOK', RunInv(p[1]), AttemptInv(p), Frame(p), Heeded(p),
           tip <= tip', worked \subseteq worked',
           (event'[p[1]] = event[p[1]] /\ head'[p[1]] = head[p[1]]) \/ pc[p] = "none",
           pc[p] # "none" <=> p[2] <= newest'[p[1]]
    PROVE  AttemptInv(p)'
<1> USE DEF AttemptInv, Frame
<1>1. PlaceInv(p)'
  BY DEF PlaceInv, IsPull, NoResults, NoRuntime, Recheck
<1>2. BaseInv(p)'
  BY DEF BaseInv, PlaceInv, IsPull, NoResults, AllJobs, Recheck
<1>3. FreshInv(p)'
  <2>1. tip \in Nat /\ tip' \in Nat /\ base[p] \in Nat
    BY DEF TypeOK, Bases
  <2> QED BY <2>1 DEF FreshInv, IsPull
<1>4. WorkInv(p)'
  BY DEF WorkInv, Complete
<1>5. CalmInv(p)'
  <2>1. CASE pc[p] = "none"
    BY <2>1 DEF CalmInv, Running
  <2>2. CASE event'[p[1]] = event[p[1]] /\ head'[p[1]] = head[p[1]]
    <3>1. Stale(p) => Stale(p)'
      <4>1. tip \in Nat /\ tip' \in Nat
        BY DEF TypeOK, Bases
      <4>2. IsPull(p[1]) => head[p[1]].on \in Nat
        BY DEF RunInv, Heads, Bases
      <4> QED BY <2>2, <4>1, <4>2 DEF Stale, IsPull
    <3> QED BY <3>1 DEF CalmInv, Heeded, Running, Recheck, Complete
  <2> QED BY <2>1, <2>2
<1> QED BY <1>1, <1>2, <1>3, <1>4, <1>5

\* A step of attempt p keeps the invariant when it keeps that of p.
LEMMA StepOfAttempt ==
    ASSUME IInv, NEW p \in Attempts, TypeOK', AttemptInv(p)',
           UNCHANGED <<tip, pull, event, head, newest>>,
           \A q \in Attempts \ {p} : Frame(q),
           worked \subseteq worked',
           disturbed \subseteq disturbed', disturbed' \subseteq disturbed \union {p}
    PROVE  IInv'
<1>1. ASSUME NEW q \in Attempts, q # p PROVE AttemptInv(q)'
  <2>1. TypeOK /\ RunInv(q[1]) /\ AttemptInv(q) /\ Frame(q) /\ tip <= tip'
    BY <1>1, AttemptType DEF IInv, TypeOK, Bases
  <2>2. Heeded(q)
    BY <1>1, <2>1 DEF Heeded, AttemptInv, CalmInv, Calm, Current, NewerRun, IsPull, Frame, Stale
  <2>3. pc[q] # "none" <=> q[2] <= newest'[q[1]]
    BY <2>1 DEF AttemptInv, PlaceInv
  <2> QED BY <1>1, <2>1, <2>2, <2>3, AttemptStable
<1>2. \A r \in Runs : RunInv(r)'
  BY DEF IInv, RunInv, IsPull
<1> QED BY <1>1, <1>2 DEF IInv

\* A step of the world keeps the invariant when it disturbs whom it concerns.
LEMMA StepOfWorld ==
    ASSUME IInv, TypeOK', pull'.head.on <= tip', tip <= tip',
           UNCHANGED <<event, head, newest, pc, result, base, spec, runtime, worked, fresh>>,
           \A p \in Attempts : Heeded(p)
    PROVE  IInv'
<1>1. ASSUME NEW p \in Attempts PROVE AttemptInv(p)'
  <2>1. TypeOK /\ RunInv(p[1]) /\ AttemptInv(p)
    BY AttemptType DEF IInv
  <2>2. Frame(p) /\ Heeded(p)
    BY DEF Frame
  <2>3. pc[p] # "none" <=> p[2] <= newest'[p[1]]
    BY <2>1 DEF AttemptInv, PlaceInv
  <2> QED BY <2>1, <2>2, <2>3, AttemptStable
<1>2. ASSUME NEW r \in Runs PROVE RunInv(r)'
  <2>1. head[r] \in Heads => head[r].on \in Nat
    BY DEF Heads, Bases
  <2>2. tip \in Nat /\ tip' \in Nat
    BY DEF IInv, TypeOK, Bases
  <2> QED BY <2>1, <2>2 DEF IInv, RunInv, IsPull
<1> QED BY <1>1, <1>2 DEF IInv

LEMMA ActiveHeeded ==
    ASSUME NEW p \in Attempts, disturbed' = disturbed \union Active
    PROVE  Heeded(p)
BY DEF Heeded, Active, Ended, Running

-----------------------------------------------------------------------------
(* Events *)

LEMMA CloseKeeps == IInv /\ Close => IInv'
<1> SUFFICES ASSUME IInv, Close PROVE IInv'
  OBVIOUS
<1>a. /\ pull' \in [open : BOOLEAN, head : Heads, ref : {"main", "other"}, base : Bases]
      /\ pull'.head = pull.head
  BY DEF IInv, TypeOK, Close
<1>1. TypeOK' /\ pull'.head.on <= tip' /\ tip <= tip'
  BY <1>a DEF IInv, TypeOK, Bases, Close, Disturb, Active, runVars, jobVars
<1>2. \A p \in Attempts : Heeded(p)
  BY ActiveHeeded DEF Close, Disturb
<1> QED BY <1>1, <1>2, StepOfWorld DEF Close, runVars, jobVars

LEMMA RetargetKeeps == IInv /\ Retarget => IInv'
<1> SUFFICES ASSUME IInv, Retarget PROVE IInv'
  OBVIOUS
<1>a. /\ pull' \in [open : BOOLEAN, head : Heads, ref : {"main", "other"}, base : Bases]
      /\ pull'.head = pull.head
  BY DEF IInv, TypeOK, Retarget
<1>1. TypeOK' /\ pull'.head.on <= tip' /\ tip <= tip'
  BY <1>a DEF IInv, TypeOK, Bases, Retarget, Disturb, Active, runVars, jobVars
<1>2. \A p \in Attempts : Heeded(p)
  BY ActiveHeeded DEF Retarget, Disturb
<1> QED BY <1>1, <1>2, StepOfWorld DEF Retarget, runVars, jobVars

LEMMA AdvanceMainKeeps == IInv /\ AdvanceMain => IInv'
<1> SUFFICES ASSUME IInv, AdvanceMain PROVE IInv'
  OBVIOUS
<1>1. tip \in Nat /\ tip' = tip + 1 /\ tip' \in Bases /\ pull.head.on \in Nat
  BY ValidationAssumption DEF IInv, TypeOK, Bases, Heads, AdvanceMain
<1>2. TypeOK' /\ pull'.head.on <= tip' /\ tip <= tip'
  BY <1>1 DEF IInv, TypeOK, AdvanceMain, Disturb, Active, runVars, jobVars
<1>3. \A p \in Attempts : Heeded(p)
  BY ActiveHeeded DEF AdvanceMain, Disturb
<1> QED BY <1>2, <1>3, StepOfWorld DEF AdvanceMain, runVars, jobVars

LEMMA ShowBaseKeeps == IInv /\ ShowBase => IInv'
<1> SUFFICES ASSUME IInv, ShowBase PROVE IInv'
  OBVIOUS
<1>a. /\ pull' \in [open : BOOLEAN, head : Heads, ref : {"main", "other"}, base : Bases]
      /\ pull'.head = pull.head
  BY DEF IInv, TypeOK, ShowBase
<1>1. TypeOK' /\ pull'.head.on <= tip' /\ tip <= tip'
  BY <1>a DEF IInv, TypeOK, Bases, ShowBase, runVars, jobVars, historyVars
<1>2. ASSUME NEW p \in Attempts PROVE Heeded(p)
  <2>1. AttemptInv(p) /\ TypeOK
    BY DEF IInv
  <2>2. Calm(p) => Calm(p)'
    BY <2>1 DEF TypeOK, ShowBase, Calm, Current, IsPull, NewerRun, runVars, jobVars
  <2> QED BY <2>1, <2>2 DEF Heeded, AttemptInv, CalmInv, Stale, ShowBase, runVars, historyVars
<1> QED BY <1>1, <1>2, StepOfWorld DEF ShowBase, runVars, jobVars, historyVars

LEMMA GoReleaseKeeps == IInv /\ GoRelease => IInv'
<1> SUFFICES ASSUME IInv, GoRelease PROVE IInv'
  OBVIOUS
<1>1. golang' \in 1..MaxGo
  BY ValidationAssumption DEF IInv, TypeOK, GoRelease
<1>2. TypeOK' /\ pull'.head.on <= tip' /\ tip <= tip'
  BY <1>1 DEF IInv, TypeOK, Bases, GoRelease, runVars, jobVars, historyVars
<1>3. ASSUME NEW p \in Attempts PROVE Heeded(p)
  <2>1. AttemptInv(p) /\ TypeOK
    BY DEF IInv
  <2>2. Calm(p) => Calm(p)'
    BY <2>1 DEF GoRelease, Calm, Current, IsPull, NewerRun, runVars, jobVars
  <2> QED BY <2>1, <2>2 DEF Heeded, AttemptInv, CalmInv, Stale, GoRelease, runVars, historyVars
<1> QED BY <1>2, <1>3, StepOfWorld DEF GoRelease, runVars, jobVars, historyVars

\* A new run starts calm, and does not make one for the pull request uncalm
\* unless it is for the pull request itself, which disturbs.
LEMMA CreateKeeps ==
    ASSUME IInv, NEW r \in Runs, NEW e \in {"pull_request", "other"}, NEW h \in Heads \union {NoHead},
           Create(r, e, h), TypeOK',
           UNCHANGED <<tip, base, result, spec, runtime, worked, fresh>>,
           \/ /\ e = "pull_request" /\ h \in Heads /\ h.on <= tip
              /\ pull'.open /\ pull'.ref = "main" /\ pull'.head = h /\ pull'.base = tip
              /\ disturbed' = disturbed \union Active
           \/ e = "other" /\ h = NoHead /\ UNCHANGED <<pull, disturbed>>
    PROVE  IInv'
<1> DEFINE new == <<r, 1>>
<1> USE DEF Create
<1>1. TypeOK /\ (\A q \in Runs : RunInv(q)) /\ \A p \in Attempts : AttemptInv(p)
  BY DEF IInv
<1>2. new \in Attempts /\ 1 \in 1..MaxAttempts /\ tip \in Nat /\ tip # 0
  BY <1>1, ValidationAssumption DEF Attempts, TypeOK, Bases
<1>3. /\ event' = [event EXCEPT ![r] = e] /\ head' = [head EXCEPT ![r] = h]
      /\ newest' = [newest EXCEPT ![r] = 1]
      /\ event'[r] = e /\ head'[r] = h /\ newest'[r] = 1
      /\ \A q \in Runs \ {r} : event'[q] = event[q] /\ head'[q] = head[q] /\ newest'[q] = newest[q]
  BY <1>1 DEF TypeOK
<1>4. pc'[new] = FirstStep(e) /\ \A p \in Attempts \ {new} : pc'[p] = pc[p]
  BY <1>1, <1>2 DEF TypeOK
<1>5. \A p \in Attempts : p[1] = r => pc[p] = "none"
  <2> SUFFICES ASSUME NEW p \in Attempts, p[1] = r PROVE pc[p] = "none"
    OBVIOUS
  <2> QED BY <1>1, AttemptType DEF AttemptInv, PlaceInv
<1>6. \A q \in Runs : q > r => newest[q] = 0
  <2> SUFFICES ASSUME NEW q \in Runs, q > r, newest[q] # 0 PROVE FALSE
    OBVIOUS
  <2>1. r < q
    BY ValidationAssumption
  <2> QED BY <1>1, <2>1 DEF RunInv
<1>7. ASSUME NEW q \in Runs PROVE RunInv(q)'
  <2>1. CASE q = r
    <3>1. r \in Nat /\ \A s \in Runs : s \in Nat
      BY ValidationAssumption
    <3> QED BY <1>1, <1>3, <2>1, <3>1 DEF RunInv, IsPull
  <2>2. CASE q # r
    BY <1>1, <1>3, <2>2 DEF RunInv, IsPull
  <2> QED BY <2>1, <2>2
<1>8. ASSUME NEW p \in Attempts, p # new PROVE AttemptInv(p)'
  <2>1. Frame(p)
    BY <1>4, <1>8 DEF Frame
  <2>2. (event'[p[1]] = event[p[1]] /\ head'[p[1]] = head[p[1]]) \/ pc[p] = "none"
    BY <1>3, <1>5, AttemptType
  <2>3. pc[p] # "none" <=> p[2] <= newest'[p[1]]
    <3>1. CASE p[1] = r
      BY <1>3, <1>5, <1>8, <3>1, AttemptType
    <3>2. CASE p[1] # r
      BY <1>1, <1>3, <3>2, AttemptType DEF AttemptInv, PlaceInv
    <3> QED BY <3>1, <3>2
  <2>4. Heeded(p)
    <3>1. CASE disturbed' = disturbed \union Active
      BY <3>1, ActiveHeeded
    <3>2. CASE e = "other" /\ h = NoHead /\ UNCHANGED <<pull, disturbed>>
      <4> SUFFICES ASSUME p \notin disturbed, ~Stale(p), pc[p] \in Running, IsPull(p[1])'
                   PROVE  Calm(p)'
        BY <3>2 DEF Heeded, Calm
      <4>1. p[1] # r /\ p[1] \in Runs
        BY <1>5, AttemptType DEF Running
      <4>2. IsPull(p[1]) /\ head'[p[1]] = head[p[1]] /\ newest'[p[1]] = newest[p[1]]
        BY <1>3, <4>1 DEF IsPull
      <4>3. head[p[1]] \in Heads /\ NoHead \notin Heads
        BY <1>1, <4>1, <4>2, ValidationAssumption DEF RunInv, Heads, Bases
      <4>4. Calm(p)
        BY <1>1 DEF AttemptInv, CalmInv
      <4>5. ~NewerRun(p[1])'
        BY <1>3, <3>2, <4>2, <4>3, <4>4 DEF NewerRun, Calm
      <4> QED BY <3>2, <4>2, <4>4, <4>5 DEF Calm, Current
    <3> QED BY <3>1, <3>2
  <2>5. TypeOK /\ RunInv(p[1]) /\ AttemptInv(p) /\ tip <= tip' /\ worked \subseteq worked'
    BY <1>1, <1>2, AttemptType
  <2> HIDE DEF Create
  <2> QED BY <2>1, <2>2, <2>3, <2>4, <2>5, AttemptStable
<1>9. AttemptInv(new)'
  <2>1. /\ pc[new] = "none" /\ result'[new] = NoResults /\ runtime'[new] = NoRuntime
        /\ base'[new] = 0 /\ new[1] = r /\ new[2] = 1
    BY <1>1, <1>2, <1>5 DEF AttemptInv, PlaceInv
  <2>2. \A j \in AllJobs : result'[new][j] = "none"
    BY <2>1 DEF NoResults
  <2>3. \A j \in Versioned : runtime'[new][j] = 0
    BY <2>1 DEF NoRuntime
  <2>4. pc'[new] \in {"base", "plan"} /\ (pc'[new] = "base" <=> IsPull(r)')
    BY <1>3, <1>4 DEF FirstStep, IsPull
  <2>5. "preflight" \in AllJobs /\ Versioned \subseteq AllJobs
    BY ValidationAssumption DEF AllJobs, Versioned
  <2> HIDE DEF Create
  <2>6. PlaceInv(new)'
    BY <1>3, <2>1, <2>4 DEF PlaceInv, Recheck
  <2>7. BaseInv(new)' /\ FreshInv(new)'
    BY <2>1, <2>2, <2>4, <2>5 DEF BaseInv, FreshInv, Recheck
  <2>8. WorkInv(new)'
    BY <2>2, <2>3, <2>4, <2>5 DEF WorkInv
  <2>9. CalmInv(new)'
    <3>1. Calm(new)'
      <4> SUFFICES ASSUME IsPull(r)' PROVE Calm(new)'
        BY <2>1 DEF Calm
      <4>1. ~NewerRun(r)'
        <5>1. \A q \in Runs : q > r => newest'[q] = 0
          BY <1>3, <1>6, ValidationAssumption
        <5> QED BY <5>1 DEF NewerRun
      <4> QED BY <1>3, <2>1, <4>1 DEF Calm, Current, IsPull
    <3> QED BY <2>2, <2>4, <3>1 DEF CalmInv, Recheck
  <2> QED BY <2>6, <2>7, <2>8, <2>9 DEF AttemptInv
<1>10. pull'.head.on <= tip'
  BY DEF IInv
<1> QED BY <1>7, <1>8, <1>9, <1>10 DEF IInv

LEMMA OpenKeeps == ASSUME IInv, NEW r \in Runs, Open(r) PROVE IInv'
<1> USE DEF Open, Create, Disturb, jobVars
<1>a. pull' \in [open : BOOLEAN, head : Heads, ref : {"main", "other"}, base : Bases]
  BY DEF IInv, TypeOK
<1>1. TypeOK'
  BY <1>a, ValidationAssumption DEF IInv, TypeOK, FirstStep, Places, Active, Bases, Attempts
<1>2. pull.head \in Heads /\ pull.head.on <= tip
  BY DEF IInv, TypeOK
<1>3. /\ pull'.open /\ pull'.ref = "main" /\ pull'.head = pull.head /\ pull'.base = tip
      /\ disturbed' = disturbed \union Active
  BY DEF IInv, TypeOK
<1> QED BY <1>1, <1>2, <1>3, CreateKeeps

LEMMA PushHeadKeeps == ASSUME IInv, NEW r \in Runs, NEW h \in Heads, PushHead(r, h) PROVE IInv'
<1> USE DEF PushHead, Create, Disturb, jobVars
<1>a. pull' \in [open : BOOLEAN, head : Heads, ref : {"main", "other"}, base : Bases]
  BY DEF IInv, TypeOK
<1>1. TypeOK'
  BY <1>a, ValidationAssumption DEF IInv, TypeOK, FirstStep, Places, Active, Bases, Attempts
<1>2. /\ pull'.open /\ pull'.ref = "main" /\ pull'.head = h /\ pull'.base = tip
      /\ disturbed' = disturbed \union Active
  BY DEF IInv, TypeOK
<1> QED BY <1>1, <1>2, CreateKeeps

LEMMA OtherEventKeeps == ASSUME IInv, NEW r \in Runs, OtherEvent(r) PROVE IInv'
<1> USE DEF OtherEvent, Create, jobVars, historyVars
<1>1. TypeOK'
  BY ValidationAssumption DEF IInv, TypeOK, FirstStep, Places, Active, Bases, Attempts
<1> QED BY <1>1, CreateKeeps

\* A new attempt starts with what its predecessor earned, and calm or disturbed.
LEMMA RerunKeeps ==
    ASSUME IInv, NEW r \in Runs, NEW kept \in [AllJobs -> {"none", "success"}], Rerun(r, kept),
           \A j \in AllJobs : kept[j] = "success" => result[<<r, newest[r]>>][j] = "success",
           kept["preflight"] # "success" => kept = NoResults
    PROVE  IInv'
<1>0. PICK n \in Nat : n = newest[r]
  BY DEF IInv, TypeOK
<1> DEFINE old == <<r, n>>
           new == <<r, n + 1>>
           keepsPlan == kept["preflight"] = "success"
           b == IF keepsPlan THEN base[old] ELSE 0
<1>1. TypeOK /\ (\A q \in Runs : RunInv(q)) /\ \A p \in Attempts : AttemptInv(p)
  BY DEF IInv
<1>2. n \in 1..(MaxAttempts - 1) /\ newest' = [newest EXCEPT ![r] = n + 1]
  BY <1>0 DEF Rerun
<1>3. /\ old \in Attempts /\ old[1] = r /\ new \in Attempts /\ new[1] = r /\ new[2] = n + 1
      /\ MaxAttempts \in Nat /\ tip \in Nat
  BY <1>1, <1>2, ValidationAssumption DEF Attempts, TypeOK, Bases
<1>4. /\ newest'[r] = n + 1
      /\ \A q \in Runs \ {r} : newest'[q] = newest[q]
      /\ \A q \in Runs : newest'[q] = 0 <=> newest[q] = 0
  BY <1>0, <1>1, <1>2, <1>3 DEF TypeOK
<1>5. UNCHANGED <<tip, pull, golang, event, head, worked, fresh>>
  BY DEF Rerun
<1>6. /\ pc' = [pc EXCEPT ![new] = IF keepsPlan THEN "jobs" ELSE FirstStep(event[r])]
      /\ result' = [result EXCEPT ![new] = kept]
      /\ base' = [base EXCEPT ![new] = b]
      /\ spec' = [spec EXCEPT ![new] = IF keepsPlan THEN spec[old] ELSE 0]
      /\ runtime' = [runtime EXCEPT ![new] =
             [j \in Versioned |-> IF kept[j] = "success" THEN runtime[old][j] ELSE 0]]
      /\ \A j \in AllJobs : kept[j] = "success" => result[old][j] = "success"
  BY <1>0 DEF Rerun
<1>7. disturbed' = disturbed \union (Active \intersect {old})
                     \union {p \in {new} :
                               /\ event[r] = "pull_request"
                               /\ \/ ~Current(head[r], tip)
                                  \/ pull.base # tip
                                  \/ b \notin {0, tip}
                                  \/ NewerRun(r)}
  BY <1>0 DEF Rerun, Disturb
<1>8. /\ pc'[new] = (IF keepsPlan THEN "jobs" ELSE FirstStep(event[r]))
      /\ result'[new] = kept /\ base'[new] = b
      /\ spec'[new] = (IF keepsPlan THEN spec[old] ELSE 0)
      /\ runtime'[new] = [j \in Versioned |-> IF kept[j] = "success" THEN runtime[old][j] ELSE 0]
      /\ \A p \in Attempts \ {new} : Frame(p)
  BY <1>1, <1>3, <1>5, <1>6 DEF TypeOK, Frame
<1>9. "preflight" \in AllJobs /\ Versioned \subseteq AllJobs
  BY ValidationAssumption DEF AllJobs, Versioned
<1>10. PlaceInv(old) /\ BaseInv(old) /\ WorkInv(old) /\ RunInv(r)
  BY <1>1, <1>3 DEF AttemptInv
<1>11. event[r] \in {"pull_request", "other"}
  BY <1>0, <1>1, <1>2, <1>3, <1>10 DEF TypeOK, RunInv
<1>12. TypeOK'
  <2>1. newest' \in [Runs -> 0..MaxAttempts]
    BY <1>1, <1>2, <1>3 DEF TypeOK
  <2>2. pc' \in [Attempts -> Places]
    BY <1>1, <1>6 DEF TypeOK, Places, FirstStep
  <2>3. result' \in [Attempts -> [AllJobs -> Results]]
    <3>1. kept \in [AllJobs -> Results]
      BY DEF Results
    <3> QED BY <1>1, <1>6, <3>1 DEF TypeOK
  <2>4. base' \in [Attempts -> 0..MaxBase] /\ spec' \in [Attempts -> 0..MaxGo]
    <3>1. b \in 0..MaxBase /\ (IF keepsPlan THEN spec[old] ELSE 0) \in 0..MaxGo
      BY <1>1, <1>3, ValidationAssumption DEF TypeOK
    <3> QED BY <1>1, <1>6, <3>1 DEF TypeOK
  <2>5. runtime' \in [Attempts -> [Versioned -> 0..MaxGo]]
    <3>1. [j \in Versioned |-> IF kept[j] = "success" THEN runtime[old][j] ELSE 0]
            \in [Versioned -> 0..MaxGo]
      BY <1>1, <1>3, ValidationAssumption DEF TypeOK
    <3> QED BY <1>1, <1>6, <3>1 DEF TypeOK
  <2>6. disturbed' \subseteq Attempts
    BY <1>1, <1>3, <1>7 DEF TypeOK
  <2> QED BY <1>1, <1>5, <2>1, <2>2, <2>3, <2>4, <2>5, <2>6 DEF TypeOK
<1>13. ASSUME NEW q \in Runs PROVE RunInv(q)'
  BY <1>1, <1>4, <1>5 DEF RunInv, IsPull
<1>14. \A q \in Runs : NewerRun(q)' <=> NewerRun(q)
  BY <1>4, <1>5 DEF NewerRun
<1>15. ASSUME NEW p \in Attempts, p # new PROVE AttemptInv(p)'
  <2>1. p[1] \in Runs /\ p[2] \in 1..MaxAttempts /\ p = <<p[1], p[2]>> /\ Frame(p) /\ AttemptInv(p)
    BY <1>1, <1>8, <1>15, AttemptType
  <2>2. pc[p] # "none" <=> p[2] <= newest'[p[1]]
    <3>1. pc[p] # "none" <=> p[2] <= newest[p[1]]
      BY <2>1 DEF AttemptInv, PlaceInv
    <3>2. CASE p[1] = r
      <4>1. p[2] # n + 1
        BY <1>15, <2>1, <3>2
      <4> QED BY <1>0, <1>3, <1>4, <2>1, <3>1, <3>2, <4>1
    <3>3. CASE p[1] # r
      BY <1>4, <2>1, <3>1, <3>3
    <3> QED BY <3>2, <3>3
  <2>3. Heeded(p)
    <3> SUFFICES ASSUME p \notin disturbed'
                 PROVE  p \notin disturbed /\ (pc[p] \in Running /\ ~Stale(p) => Calm(p)')
      BY DEF Heeded
    <3>1. p \notin disturbed /\ p \notin Active \intersect {old}
      BY <1>7
    <3>2. pc[p] \in Running => p # old
      BY <1>3, <3>1 DEF Active, Running, Ended
    <3>3. ASSUME pc[p] \in Running, ~Stale(p), IsPull(p[1]) PROVE Calm(p)'
      <4>1. Calm(p) /\ newest[p[1]] = p[2]
        BY <2>1, <3>1, <3>3 DEF AttemptInv, CalmInv, Calm
      <4>2. p[1] # r
        BY <1>0, <2>1, <3>2, <3>3, <4>1
      <4> QED BY <1>4, <1>5, <1>14, <2>1, <4>1, <4>2 DEF Calm, Current, Frame, IsPull
    <3> QED BY <1>5, <3>1, <3>3 DEF Calm, IsPull
  <2>4. tip <= tip' /\ worked \subseteq worked' /\ event'[p[1]] = event[p[1]] /\ head'[p[1]] = head[p[1]]
    BY <1>3, <1>5
  <2> QED BY <1>1, <1>12, <2>1, <2>2, <2>3, <2>4, AttemptStable
<1>16. AttemptInv(new)'
  <2>1. \A j \in AllJobs : result'[new][j] \in {"none", "success"}
    BY <1>8
  <2>2. ~keepsPlan => result'[new] = NoResults /\ runtime'[new] = NoRuntime /\ base'[new] = 0
    <3>1. ~keepsPlan => \A j \in Versioned : kept[j] = "none"
      BY <1>9 DEF NoResults
    <3> QED BY <1>8, <3>1 DEF NoRuntime
  <2>3. /\ new[1] = r /\ new[2] = n + 1 /\ new[2] <= newest'[r]
        /\ IsPull(r)' <=> IsPull(r)
        /\ ~IsPull(r) => event[r] = "other"
        /\ head'[r] = head[r]
    BY <1>3, <1>4, <1>5, <1>11 DEF IsPull
  <2>4. /\ keepsPlan => pc'[new] = "jobs" /\ result'[new]["preflight"] = "success"
                          /\ base'[new] = base[old] /\ result[old]["preflight"] = "success"
        /\ ~keepsPlan => pc'[new] = FirstStep(event[r]) /\ result'[new]["preflight"] = "none"
    BY <1>6, <1>8, <1>9, <2>2 DEF NoResults
  <2>5. ~keepsPlan => pc'[new] = IF IsPull(r) THEN "base" ELSE "plan"
    BY <2>4 DEF FirstStep, IsPull
  <2>a. pc'[new] \in {"jobs", "base", "plan"}
    BY <2>4, <2>5
  <2>b. /\ IsPull(r) /\ result[old]["preflight"] = "success" => base[old] # 0
        /\ base[old] # 0 => IsPull(r) /\ base[old] <= head[r].on
    BY <1>3, <1>10 DEF BaseInv
  <2> HIDE DEF old, new, keepsPlan, b
  <2>c. PlaceInv(new)'
    BY <2>2, <2>3, <2>4, <2>5, <2>a DEF PlaceInv, Recheck
  <2>d. BaseInv(new)' /\ FreshInv(new)'
    BY <2>2, <2>3, <2>4, <2>5, <2>a, <2>b DEF BaseInv, FreshInv, Recheck
  <2>6. WorkInv(new)'
    <3>1. \A j \in AllJobs : result'[new][j] = "success" => <<r, j>> \in worked'
      BY <1>3, <1>5, <1>6, <1>8, <1>10 DEF WorkInv
    <3>2. \A j \in Versioned : result'[new][j] = "success" => runtime'[new][j] # 0
      BY <1>6, <1>8, <1>9, <1>10 DEF WorkInv
    <3>3. Mode = "latest" => \A j \in Versioned : runtime'[new][j] \in {0, spec'[new]}
      <4>1. CASE keepsPlan
        BY <1>8, <1>10, <4>1 DEF WorkInv
      <4>2. CASE ~keepsPlan
        BY <2>2, <4>2 DEF NoRuntime
      <4> QED BY <4>1, <4>2
    <3>4. Mode = "latest" /\ result'[new]["preflight"] = "success" => spec'[new] # 0
      BY <1>6, <1>8, <1>9, <1>10 DEF WorkInv, keepsPlan
    <3> QED BY <2>3, <2>a, <3>1, <3>2, <3>3, <3>4 DEF WorkInv
  <2>7. CalmInv(new)'
    <3>1. ASSUME new \notin disturbed', IsPull(r)
          PROVE Current(head[r], tip) /\ pull.base = tip /\ b \in {0, tip} /\ ~NewerRun(r)
      BY <1>7, <3>1 DEF IsPull
    <3>2. ~NewerRun(r)' <=> ~NewerRun(r)
      BY <1>14
    <3>3. newest'[r] = new[2] /\ base'[new] = b
      BY <1>4, <1>8, <2>3
    <3>4. new \notin disturbed' => Calm(new)'
      BY <1>5, <2>3, <3>1, <3>2, <3>3 DEF Calm, Current
    <3> QED BY <2>1, <2>a, <3>4 DEF CalmInv, Recheck
  <2> QED BY <2>c, <2>d, <2>6, <2>7 DEF AttemptInv
<1>17. pull'.head.on <= tip'
  BY <1>5 DEF IInv
<1>18. \A p \in Attempts : AttemptInv(p)'
  BY <1>15, <1>16
<1> QED BY <1>12, <1>13, <1>17, <1>18 DEF IInv

LEMMA RerunAllKeeps == ASSUME IInv, NEW r \in Runs, RerunAll(r) PROVE IInv'
<1>1. NoResults \in [AllJobs -> {"none", "success"}] /\ \A j \in AllJobs : NoResults[j] # "success"
  BY DEF NoResults
<1> QED BY <1>1, RerunKeeps DEF RerunAll

LEMMA RerunFailedKeeps == ASSUME IInv, NEW r \in Runs, RerunFailed(r) PROVE IInv'
<1> DEFINE old == <<r, newest[r]>>
<1>1. Rerun(r, KeptResults(old)) /\ "preflight" \in AllJobs
  BY DEF RerunFailed, AllJobs
<1>2. KeptResults(old) \in [AllJobs -> {"none", "success"}]
  BY DEF KeptResults, NoResults
<1>3. \A j \in AllJobs : KeptResults(old)[j] = "success" => result[old][j] = "success"
  BY DEF KeptResults, NoResults
<1>4. KeptResults(old)["preflight"] # "success" => KeptResults(old) = NoResults
  BY <1>1 DEF KeptResults
<1> HIDE DEF old
<1> QED BY <1>1, <1>2, <1>3, <1>4, RerunKeeps DEF old

-----------------------------------------------------------------------------
(* Jobs of an attempt *)

\* What is known of an attempt that takes a step.
LEMMA AttemptFacts ==
    ASSUME IInv, NEW p \in Attempts
    PROVE  /\ TypeOK /\ p[1] \in Runs /\ RunInv(p[1])
           /\ PlaceInv(p) /\ BaseInv(p) /\ FreshInv(p) /\ WorkInv(p) /\ CalmInv(p)
           /\ "preflight" \in AllJobs /\ Versioned \subseteq AllJobs
           /\ tip \in Nat /\ tip # 0
<1>1. p[1] \in Runs
  BY AttemptType
<1>2. tip \in Nat /\ tip # 0
  BY ValidationAssumption DEF IInv, TypeOK, Bases
<1>3. "preflight" \in AllJobs /\ Versioned \subseteq AllJobs
  BY ValidationAssumption DEF AllJobs, Versioned
<1> QED BY <1>1, <1>2, <1>3 DEF IInv, AttemptInv

\* A preflight that fails disturbs the attempt, or finds its head stale.
LEMMA PreflightFailsKeeps ==
    ASSUME IInv, NEW p \in Attempts, pc[p] \in {"base", "plan"}, PreflightFails(p),
           Fails(p) \/ (Stale(p) /\ UNCHANGED disturbed),
           UNCHANGED <<tip, pull, golang, runVars, base, spec, runtime, worked, fresh>>
    PROVE  IInv'
<1> USE DEF PreflightFails, Go, Fails, Disturb, runVars
<1>1. /\ TypeOK /\ RunInv(p[1]) /\ PlaceInv(p) /\ BaseInv(p) /\ FreshInv(p) /\ WorkInv(p)
      /\ "preflight" \in AllJobs /\ Versioned \subseteq AllJobs
  BY AttemptFacts
<1>2. /\ pc'[p] = "jobs" /\ base'[p] = base[p] /\ (p \in disturbed' \/ Stale(p)')
      /\ result'[p]["preflight"] = "failure"
      /\ \A j \in AllJobs : result'[p][j] \in {"failure", "skipped"}
  BY <1>1 DEF TypeOK, Stale
<1>3. TypeOK'
  BY <1>1 DEF TypeOK, Places, Results
<1>4. \A q \in Attempts \ {p} : Frame(q)
  BY <1>1 DEF TypeOK, Frame
<1>5. AttemptInv(p)'
  <2>1. PlaceInv(p)'
    BY <1>1, <1>2 DEF PlaceInv, Recheck
  <2>2. BaseInv(p)' /\ FreshInv(p)'
    BY <1>1, <1>2 DEF BaseInv, FreshInv, IsPull, Recheck
  <2>3. WorkInv(p)'
    BY <1>1, <1>2 DEF WorkInv
  <2> QED BY <1>2, <2>1, <2>2, <2>3 DEF AttemptInv, CalmInv
<1> QED BY <1>3, <1>4, <1>5, StepOfAttempt

LEMMA ReadBaseKeeps == ASSUME IInv, NEW p \in Attempts, ReadBase(p) PROVE IInv'
<1>1. /\ TypeOK /\ RunInv(p[1]) /\ PlaceInv(p) /\ BaseInv(p) /\ FreshInv(p) /\ WorkInv(p) /\ CalmInv(p)
      /\ p[1] \in Runs /\ tip \in Nat /\ tip # 0
  BY AttemptFacts
<1>2. CASE PreflightFails(p) /\ UNCHANGED base /\ (Fails(p) \/ (Stale(p) /\ UNCHANGED disturbed))
  BY <1>2, PreflightFailsKeeps DEF ReadBase
<1>3. CASE /\ ~Stale(p) /\ base' = [base EXCEPT ![p] = tip]
           /\ Go(p, "plan") /\ UNCHANGED <<result, disturbed>>
  <2> USE DEF ReadBase, Go, runVars
  <2>1. /\ pc[p] = "base" /\ pc'[p] = "plan" /\ base'[p] = tip /\ IsPull(p[1])
        /\ UNCHANGED <<tip, pull, golang, event, head, newest>>
        /\ UNCHANGED <<result, spec, runtime, worked, fresh, disturbed>>
    BY <1>1, <1>3 DEF TypeOK, PlaceInv
  <2>a. tip <= head[p[1]].on
    BY <1>1, <1>3, <2>1 DEF Stale, IsPull, RunInv, Heads, Bases
  <2>2. TypeOK'
    BY <1>1, <1>3 DEF TypeOK, Places, Bases
  <2>3. \A q \in Attempts \ {p} : Frame(q)
    BY <1>1, <1>3 DEF TypeOK, Frame
  <2>4. AttemptInv(p)'
    <3>1. PlaceInv(p)'
      BY <1>1, <2>1 DEF PlaceInv, Recheck
    <3>2. BaseInv(p)' /\ FreshInv(p)'
      BY <1>1, <2>1, <2>a DEF BaseInv, FreshInv, IsPull, Recheck
    <3>3. WorkInv(p)'
      BY <1>1, <2>1 DEF WorkInv
    <3>4. CalmInv(p)'
      BY <1>1, <2>1 DEF CalmInv, Calm, Current, IsPull, NewerRun, Running, Recheck, Stale
    <3> QED BY <3>1, <3>2, <3>3, <3>4 DEF AttemptInv
  <2> QED BY <2>1, <2>2, <2>3, <2>4, StepOfAttempt
<1> QED BY <1>2, <1>3 DEF ReadBase

LEMMA PlanKeeps == ASSUME IInv, NEW p \in Attempts, Plan(p) PROVE IInv'
<1>1. /\ TypeOK /\ RunInv(p[1]) /\ PlaceInv(p) /\ BaseInv(p) /\ FreshInv(p) /\ WorkInv(p) /\ CalmInv(p)
      /\ p[1] \in Runs /\ "preflight" \in AllJobs /\ Versioned \subseteq AllJobs
  BY AttemptFacts
<1>2. CASE PreflightFails(p) /\ Fails(p) /\ UNCHANGED <<spec, worked>>
  BY <1>2, PreflightFailsKeeps DEF Plan
<1>3. CASE /\ spec' = [spec EXCEPT ![p] = IF Mode = "latest" THEN golang ELSE 0]
           /\ Succeeds(p, "preflight") /\ Go(p, "jobs") /\ UNCHANGED disturbed
  <2> USE DEF Plan, Succeeds, Report, Go, runVars
  <2>1. /\ pc[p] = "plan" /\ pc'[p] = "jobs" /\ result[p] = NoResults /\ runtime[p] = NoRuntime
        /\ result'[p]["preflight"] = "success"
        /\ \A j \in AllJobs \ {"preflight"} : result'[p][j] = "none"
        /\ spec'[p] = IF Mode = "latest" THEN golang ELSE 0
        /\ <<p[1], "preflight">> \in worked' /\ worked \subseteq worked'
        /\ UNCHANGED <<tip, pull, golang, event, head, newest, base, runtime, fresh, disturbed>>
    BY <1>1, <1>3 DEF TypeOK, PlaceInv, NoResults
  <2>2. TypeOK'
    <3>1. result' \in [Attempts -> [AllJobs -> Results]] /\ pc' \in [Attempts -> Places]
      BY <1>1, <1>3 DEF TypeOK, Places, Results
    <3>2. spec' \in [Attempts -> 0..MaxGo] /\ worked' \subseteq Runs \X AllJobs
      BY <1>1, <1>3, ValidationAssumption DEF TypeOK
    <3> QED BY <1>1, <2>1, <3>1, <3>2 DEF TypeOK
  <2>3. \A q \in Attempts \ {p} : Frame(q)
    BY <1>1, <1>3 DEF TypeOK, Frame
  <2>4. AttemptInv(p)'
    <3>1. PlaceInv(p)'
      BY <1>1, <2>1 DEF PlaceInv, Recheck
    <3>2. BaseInv(p)' /\ FreshInv(p)'
      BY <1>1, <2>1 DEF BaseInv, FreshInv, IsPull, Recheck
    <3>3. WorkInv(p)'
      <4>1. "preflight" \notin Versioned
        BY DEF Versioned
      <4>2. golang # 0 /\ \A j \in Versioned : runtime'[p][j] = 0
        BY <1>1, <2>1, ValidationAssumption DEF TypeOK, NoRuntime
      <4> QED BY <1>1, <2>1, <4>1, <4>2 DEF WorkInv
    <3>4. CalmInv(p)'
      BY <1>1, <2>1 DEF CalmInv, Calm, Current, IsPull, NewerRun, Running, Recheck, Stale
    <3> QED BY <3>1, <3>2, <3>3, <3>4 DEF AttemptInv
  <2> QED BY <2>1, <2>2, <2>3, <2>4, StepOfAttempt
<1> QED BY <1>2, <1>3 DEF Plan

LEMMA RunJobKeeps == ASSUME IInv, NEW p \in Attempts, NEW j \in Jobs, RunJob(p, j) PROVE IInv'
<1> USE DEF RunJob, Report, runVars
<1>1. /\ TypeOK /\ RunInv(p[1]) /\ PlaceInv(p) /\ BaseInv(p) /\ FreshInv(p) /\ WorkInv(p) /\ CalmInv(p)
      /\ p[1] \in Runs /\ "preflight" \in AllJobs /\ Versioned \subseteq AllJobs
  BY AttemptFacts
<1>2. /\ pc[p] = "jobs" /\ result[p][j] = "none" /\ result[p]["preflight"] = "success"
      /\ j \in AllJobs /\ j # "preflight"
      /\ UNCHANGED <<tip, pull, golang, event, head, newest, pc, base, spec, fresh>>
  BY <1>1, ValidationAssumption DEF PlaceInv, AllJobs
<1>3. CASE /\ Succeeds(p, j) /\ UNCHANGED disturbed
           /\ runtime' = IF j \in Versioned THEN [runtime EXCEPT ![p][j] = RuntimeOf(p)]
                                            ELSE runtime
  <2> USE DEF Succeeds
  <2>1. /\ result'[p][j] = "success" /\ \A k \in AllJobs \ {j} : result'[p][k] = result[p][k]
        /\ <<p[1], j>> \in worked' /\ worked \subseteq worked'
    BY <1>1, <1>2, <1>3 DEF TypeOK
  <2>2. /\ RuntimeOf(p) \in 0..MaxGo
        /\ Mode # "latest" => RuntimeOf(p) # 0
        /\ Mode = "latest" => RuntimeOf(p) = spec[p]
    BY <1>1, ValidationAssumption DEF TypeOK, RuntimeOf
  <2>3. /\ \A k \in Versioned \ {j} : runtime'[p][k] = runtime[p][k]
        /\ j \in Versioned => runtime'[p][j] = RuntimeOf(p)
    BY <1>1, <1>3 DEF TypeOK
  <2>4. TypeOK'
    <3>1. result' \in [Attempts -> [AllJobs -> Results]]
      BY <1>1, <1>2, <1>3 DEF TypeOK, Results
    <3>2. runtime' \in [Attempts -> [Versioned -> 0..MaxGo]]
      BY <1>1, <1>3, <2>2 DEF TypeOK
    <3>3. worked' \subseteq Runs \X AllJobs
      BY <1>1, <1>2, <1>3 DEF TypeOK
    <3> QED BY <1>1, <1>2, <1>3, <3>1, <3>2, <3>3 DEF TypeOK
  <2>5. \A q \in Attempts \ {p} : Frame(q)
    BY <1>1, <1>2, <1>3 DEF TypeOK, Frame
  <2>6. AttemptInv(p)'
    <3>1. PlaceInv(p)'
      BY <1>1, <1>2, <2>1 DEF PlaceInv, Recheck
    <3>2. BaseInv(p)' /\ FreshInv(p)'
      BY <1>1, <1>2, <2>1 DEF BaseInv, FreshInv, IsPull, Recheck
    <3>3. WorkInv(p)'
      <4>1. \A k \in AllJobs : result'[p][k] = "success" => <<p[1], k>> \in worked'
        BY <1>1, <1>2, <2>1 DEF WorkInv
      <4>2. \A k \in Versioned : Mode = "latest" => runtime'[p][k] \in {0, spec[p]}
        BY <1>1, <2>2, <2>3 DEF WorkInv
      <4>3. j \in Versioned => runtime'[p][j] # 0
        BY <1>1, <1>2, <2>2, <2>3 DEF WorkInv
      <4> QED BY <1>1, <1>2, <2>1, <2>2, <2>3, <4>1, <4>2, <4>3 DEF WorkInv
    <3>4. CalmInv(p)'
      BY <1>1, <1>2, <1>3, <2>1 DEF CalmInv, Calm, Current, IsPull, NewerRun, Running, Recheck, Stale
    <3> QED BY <3>1, <3>2, <3>3, <3>4 DEF AttemptInv
  <2> QED BY <1>2, <1>3, <2>1, <2>4, <2>5, <2>6, StepOfAttempt
<1>4. CASE (Report(p, j, "failure") \/ Report(p, j, "cancelled")) /\ Fails(p) /\ UNCHANGED <<runtime, worked>>
  <2> USE DEF Fails, Disturb
  <2>1. /\ result'[p][j] \in {"failure", "cancelled"}
        /\ \A k \in AllJobs \ {j} : result'[p][k] = result[p][k]
        /\ p \in disturbed'
    BY <1>1, <1>2, <1>4 DEF TypeOK
  <2>2. TypeOK'
    <3>1. result' \in [Attempts -> [AllJobs -> Results]]
      <4>1. [result[p] EXCEPT ![j] = "failure"] \in [AllJobs -> Results]
            /\ [result[p] EXCEPT ![j] = "cancelled"] \in [AllJobs -> Results]
        BY <1>1, <1>2 DEF TypeOK, Results
      <4> QED BY <1>1, <1>4, <4>1 DEF TypeOK
    <3>2. disturbed' \subseteq Attempts
      BY <1>1, <1>4 DEF TypeOK
    <3> QED BY <1>1, <1>2, <1>4, <3>1, <3>2 DEF TypeOK
  <2>3. \A q \in Attempts \ {p} : Frame(q)
    BY <1>1, <1>2, <1>4 DEF TypeOK, Frame
  <2>4. AttemptInv(p)'
    <3>1. PlaceInv(p)'
      BY <1>1, <1>2, <2>1 DEF PlaceInv, Recheck
    <3>2. BaseInv(p)' /\ FreshInv(p)'
      BY <1>1, <1>2, <2>1 DEF BaseInv, FreshInv, IsPull, Recheck
    <3>3. WorkInv(p)'
      BY <1>1, <1>2, <1>4, <2>1 DEF WorkInv
    <3> QED BY <2>1, <3>1, <3>2, <3>3 DEF AttemptInv, CalmInv
  <2> QED BY <1>2, <1>4, <2>2, <2>3, <2>4, StepOfAttempt
<1> QED BY <1>3, <1>4

-----------------------------------------------------------------------------
(* Recheck validated PR identity, and Evaluate *)

\* A step that only moves attempt p, and by it may find the pull request current.
LEMMA MoveKeeps ==
    ASSUME IInv, NEW p \in Attempts,
           NEW next \in Recheck \union {"evaluate", "failed", "passed"},
           pc[p] \in {"jobs", "evaluate"} \union Recheck,
           Go(p, next),
           UNCHANGED <<tip, pull, golang, runVars, jobVars, worked>>,
           fresh' \subseteq Attempts, \A q \in Attempts \ {p} : q \in fresh' <=> q \in fresh,
           disturbed' = disturbed \/ disturbed' = disturbed \union {p},
           next \in Recheck => IsPull(p[1]),
           IsPull(p[1]) /\ next # "failed" => base[p] # 0,
           FreshInv(p)',
           next = "passed" => Complete(p),
           p \notin disturbed' /\ ~Stale(p) /\ next \in Recheck \union {"evaluate"} => Complete(p),
           p \notin disturbed' /\ ~Stale(p) => next # "failed"
    PROVE  IInv'
<1> USE DEF Go, runVars, jobVars
<1>1. /\ TypeOK /\ RunInv(p[1]) /\ PlaceInv(p) /\ BaseInv(p) /\ FreshInv(p) /\ WorkInv(p) /\ CalmInv(p)
      /\ p[1] \in Runs
  BY AttemptFacts
<1>2. /\ pc'[p] = next
      /\ UNCHANGED <<tip, pull, event, head, newest, result, base, spec, runtime, worked>>
  BY <1>1 DEF TypeOK
<1>3. TypeOK'
  BY <1>1 DEF TypeOK, Places, Ended, Recheck
<1>4. \A q \in Attempts \ {p} : Frame(q)
  BY <1>1 DEF TypeOK, Frame
<1>5. AttemptInv(p)'
  <2>1. PlaceInv(p)'
    BY <1>1, <1>2 DEF PlaceInv, Recheck, IsPull
  <2>2. BaseInv(p)'
    BY <1>1, <1>2 DEF BaseInv, IsPull, Recheck
  <2>3. WorkInv(p)'
    BY <1>1, <1>2 DEF WorkInv, Complete
  <2>4. CalmInv(p)'
    <3> SUFFICES ASSUME p \notin disturbed', ~Stale(p)
        PROVE  /\ next # "failed"
               /\ next \in Running => Calm(p)' /\ \A j \in AllJobs : result[p][j] \in {"none", "success"}
               /\ next \in Running /\ next \in Recheck \union {"evaluate"} => Complete(p)
      BY <1>2 DEF CalmInv, Complete, Stale
    <3>1. p \notin disturbed /\ Calm(p) /\ \A j \in AllJobs : result[p][j] \in {"none", "success"}
      BY <1>1 DEF CalmInv, Running, Recheck
    <3>2. Calm(p)'
      BY <1>2, <3>1 DEF Calm, Current, IsPull, NewerRun
    <3> QED BY <3>1, <3>2
  <2> QED BY <2>1, <2>2, <2>3, <2>4 DEF AttemptInv
<1> QED BY <1>2, <1>3, <1>4, <1>5, StepOfAttempt

LEMMA StartPolicyKeeps == ASSUME IInv, NEW p \in Attempts, StartPolicy(p) PROVE IInv'
<1>1. /\ TypeOK /\ PlaceInv(p) /\ BaseInv(p) /\ FreshInv(p) /\ CalmInv(p) /\ p[1] \in Runs
      /\ "preflight" \in AllJobs
  BY AttemptFacts
<1> DEFINE next == IF event[p[1]] # "pull_request" THEN "evaluate"
                   ELSE IF base[p] = 0 THEN "failed" ELSE "attempt"
<1>2. /\ pc[p] = "jobs" /\ Go(p, next) /\ \A j \in AllJobs : result[p][j] # "none"
      /\ UNCHANGED <<tip, pull, golang, runVars, jobVars, historyVars>>
  BY DEF StartPolicy
<1>3. p \notin disturbed /\ ~Stale(p) => Complete(p)
  BY <1>1, <1>2 DEF CalmInv, Running, Complete
<1>4. p \notin disturbed /\ ~Stale(p) /\ IsPull(p[1]) => base[p] # 0
  BY <1>1, <1>3 DEF BaseInv, Complete
<1>5. FreshInv(p)'
  BY <1>1, <1>2 DEF FreshInv, Go, TypeOK, IsPull, runVars
<1>6. UNCHANGED <<worked, fresh, disturbed>> /\ fresh \subseteq Attempts
  BY <1>1, <1>2 DEF historyVars, TypeOK
<1>7. CASE ~IsPull(p[1])
  BY <1>2, <1>3, <1>5, <1>6, <1>7, MoveKeeps DEF IsPull, Recheck
<1>8. CASE IsPull(p[1]) /\ base[p] = 0
  BY <1>2, <1>4, <1>5, <1>6, <1>8, MoveKeeps DEF IsPull, Recheck
<1>9. CASE IsPull(p[1]) /\ base[p] # 0
  BY <1>2, <1>3, <1>5, <1>6, <1>9, MoveKeeps DEF IsPull, Recheck
<1> QED BY <1>7, <1>8, <1>9

\* A read of the recheck: a calm attempt is not refused by what it shows.
LEMMA ReadKeeps ==
    ASSUME IInv, NEW p \in Attempts, NEW step \in Recheck, NEW next \in Recheck \union {"evaluate"},
           pc[p] = step,
           \/ Go(p, next) /\ UNCHANGED disturbed
           \/ Go(p, "failed") /\ UNCHANGED disturbed /\ ~Calm(p)
           \/ Go(p, "failed") /\ Fails(p),
           UNCHANGED <<tip, pull, golang, runVars, jobVars, worked>>,
           fresh' \subseteq Attempts, \A q \in Attempts \ {p} : q \in fresh' <=> q \in fresh,
           FreshInv(p)'
    PROVE  IInv'
<1>1. PlaceInv(p) /\ BaseInv(p) /\ CalmInv(p) /\ IsPull(p[1]) /\ base[p] # 0
  BY AttemptFacts DEF PlaceInv, BaseInv
<1>2. p \notin disturbed /\ ~Stale(p) => Calm(p) /\ Complete(p)
  BY <1>1 DEF CalmInv, Running, Recheck
<1>3. CASE Go(p, next) /\ UNCHANGED disturbed
  BY <1>1, <1>2, <1>3, MoveKeeps DEF Recheck
<1>4. CASE Go(p, "failed") /\ UNCHANGED disturbed /\ ~Calm(p)
  BY <1>2, <1>4, MoveKeeps DEF Recheck
<1>5. CASE Go(p, "failed") /\ Fails(p)
  BY <1>5, MoveKeeps DEF Recheck, Fails, Disturb
<1> QED BY <1>3, <1>4, <1>5

LEMMA ReadAttemptKeeps == ASSUME IInv, NEW p \in Attempts, ReadAttempt(p) PROVE IInv'
<1>1. TypeOK /\ PlaceInv(p) /\ FreshInv(p) /\ IsPull(p[1]) /\ pc[p] = "attempt"
  BY AttemptFacts DEF PlaceInv, ReadAttempt, Read, Recheck
<1>2. FreshInv(p)'
  BY <1>1 DEF FreshInv, ReadAttempt, Read, Go, TypeOK
<1>3. Calm(p) => newest[p[1]] = p[2]
  BY <1>1 DEF Calm
<1> QED BY <1>1, <1>2, <1>3, ReadKeeps DEF ReadAttempt, Read, Recheck, TypeOK

LEMMA ReadNewerKeeps == ASSUME IInv, NEW p \in Attempts, ReadNewer(p) PROVE IInv'
<1>1. TypeOK /\ PlaceInv(p) /\ FreshInv(p) /\ IsPull(p[1]) /\ pc[p] = "newer"
  BY AttemptFacts DEF PlaceInv, ReadNewer, Read, Recheck
<1>2. FreshInv(p)'
  BY <1>1 DEF FreshInv, ReadNewer, Read, Go, TypeOK
<1>3. Calm(p) => ~NewerRun(p[1])
  BY <1>1 DEF Calm
<1> QED BY <1>1, <1>2, <1>3, ReadKeeps DEF ReadNewer, Read, Recheck, TypeOK

\* When the pull request shows the head and base that p validated but they are
\* not both current, main is past that base.
LEMMA ReadPullKeeps == ASSUME IInv, NEW p \in Attempts, ReadPull(p) PROVE IInv'
<1>1. /\ TypeOK /\ RunInv(p[1]) /\ PlaceInv(p) /\ BaseInv(p) /\ FreshInv(p) /\ IsPull(p[1])
      /\ pc[p] = "pull" /\ p[1] \in Runs /\ base[p] # 0 /\ tip \in Nat
  BY AttemptFacts DEF PlaceInv, BaseInv, ReadPull, Read, Recheck
<1>2. base[p] <= tip
  <2>1. base[p] \in Nat /\ head[p[1]].on \in Nat
    BY <1>1 DEF TypeOK, RunInv, Heads, Bases
  <2> QED BY <1>1, <2>1 DEF BaseInv, RunInv
<1>3. /\ fresh' = IF Current(head[p[1]], base[p]) THEN fresh \union {p} ELSE fresh \ {p}
      /\ UNCHANGED <<tip, pull, golang, runVars, jobVars, worked>>
  BY DEF ReadPull
<1>4. fresh' \subseteq Attempts /\ \A q \in Attempts \ {p} : q \in fresh' <=> q \in fresh
  BY <1>1, <1>3 DEF TypeOK
<1>5. FreshInv(p)'
  <2>1. CASE Go(p, "ref") /\ PullMatches(p)
    <3>1. p \in fresh' \/ tip # base[p]
      BY <1>3, <2>1 DEF PullMatches, Current
    <3>2. base[p] \in Nat
      BY <1>1 DEF TypeOK
    <3>3. pc'[p] = "ref" /\ base' = base /\ tip' = tip
      BY <1>1, <1>3, <2>1 DEF TypeOK, Go, jobVars
    <3> QED BY <1>1, <1>2, <3>1, <3>2, <3>3 DEF FreshInv
  <2>2. CASE Go(p, "failed")
    BY <1>1, <2>2 DEF FreshInv, Go, TypeOK
  <2> QED BY <2>1, <2>2 DEF ReadPull, Read
<1>6. Calm(p) => PullMatches(p)
  BY <1>1 DEF Calm, Current, PullMatches
<1> QED BY <1>1, <1>3, <1>4, <1>5, <1>6, ReadKeeps DEF ReadPull, Read, Recheck

\* At the last read main is at the base still, so both were current at the first.
LEMMA ReadRefKeeps == ASSUME IInv, NEW p \in Attempts, ReadRef(p) PROVE IInv'
<1>1. /\ TypeOK /\ PlaceInv(p) /\ BaseInv(p) /\ FreshInv(p) /\ IsPull(p[1])
      /\ pc[p] = "ref" /\ base[p] # 0 /\ tip \in Nat
  BY AttemptFacts DEF PlaceInv, BaseInv, ReadRef, Read, Recheck
<1>2. FreshInv(p)'
  <2>1. CASE Go(p, "evaluate") /\ RefMatches(p)
    <3>1. p \in fresh
      BY <1>1, <2>1 DEF FreshInv, RefMatches
    <3>2. pc'[p] = "evaluate" /\ fresh' = fresh
      BY <1>1, <2>1 DEF TypeOK, Go, ReadRef
    <3> QED BY <3>1, <3>2 DEF FreshInv
  <2>2. CASE Go(p, "failed")
    BY <1>1, <2>2 DEF FreshInv, Go, TypeOK
  <2> QED BY <2>1, <2>2 DEF ReadRef, Read
<1>3. Calm(p) => RefMatches(p)
  BY <1>1 DEF Calm, RefMatches
<1> QED BY <1>1, <1>2, <1>3, ReadKeeps DEF ReadRef, Read, Recheck, TypeOK

LEMMA EvaluateKeeps == ASSUME IInv, NEW p \in Attempts, Evaluate(p) PROVE IInv'
<1>1. /\ TypeOK /\ PlaceInv(p) /\ BaseInv(p) /\ FreshInv(p) /\ WorkInv(p) /\ CalmInv(p)
      /\ Versioned \subseteq AllJobs
  BY AttemptFacts
<1> DEFINE ok == /\ Complete(p)
                 /\ ActionPassed(p)
                 /\ PlannedMode(p) \in {"requirements", "latest"}
                 /\ \A j \in Versioned : runtime[p][j] # 0
                 /\ PlannedMode(p) = "latest" => runtime[p]["root"] = runtime[p]["example"]
<1>2. /\ pc[p] = "evaluate" /\ Go(p, IF ok THEN "passed" ELSE "failed")
      /\ UNCHANGED <<tip, pull, golang, runVars, jobVars, historyVars>>
      /\ UNCHANGED <<worked, fresh, disturbed>> /\ fresh \subseteq Attempts
  BY <1>1 DEF Evaluate, historyVars, TypeOK
<1>3. Complete(p) => ok
  BY <1>1, ValidationAssumption
     DEF WorkInv, Complete, Versioned, ActionPassed, PlannedMode, AllJobs
<1>4. p \notin disturbed /\ ~Stale(p) => ok
  BY <1>1, <1>2, <1>3 DEF CalmInv, Running
<1>5. FreshInv(p)'
  BY <1>1, <1>2 DEF FreshInv, Go, TypeOK, IsPull, runVars
<1>6. IsPull(p[1]) => base[p] # 0
  BY <1>1, <1>2 DEF BaseInv
<1>7. CASE ok
  <2>1. Go(p, "passed") /\ Complete(p)
    BY <1>2, <1>7
  <2> HIDE DEF ok
  <2> QED BY <1>2, <1>5, <1>6, <2>1, MoveKeeps DEF Recheck
<1>8. CASE ~ok
  BY <1>2, <1>4, <1>5, <1>8, MoveKeeps DEF Recheck
<1> QED BY <1>7, <1>8

-----------------------------------------------------------------------------
(* The theorems *)

LEMMA InitIInv == Init => IInv
<1> SUFFICES ASSUME Init PROVE IInv
  OBVIOUS
<1> USE DEF Init
<1>1. 1 \in Bases /\ "preflight" \in AllJobs /\ Versioned \subseteq AllJobs
  BY ValidationAssumption DEF Bases, AllJobs, Versioned
<1>2. TypeOK
  <2>1. pull \in [open : BOOLEAN, head : Heads, ref : {"main", "other"}, base : Bases]
    BY <1>1
  <2>2. NoResults \in [AllJobs -> Results] /\ NoRuntime \in [Versioned -> 0..MaxGo]
    BY ValidationAssumption DEF NoResults, NoRuntime, Results
  <2>3. /\ pc \in [Attempts -> Places] /\ 1 \in 1..MaxGo /\ 0 \in 0..MaxGo
        /\ 0 \in 0..MaxAttempts /\ 0 \in 0..MaxBase
    BY ValidationAssumption DEF Places
  <2> QED BY <1>1, <2>1, <2>2, <2>3 DEF TypeOK
<1>3. pull.head.on <= tip
  BY DEF Heads, Bases
<1>4. \A r \in Runs : RunInv(r)
  BY DEF RunInv, IsPull
<1>5. ASSUME NEW p \in Attempts PROVE AttemptInv(p)
  <2>1. p[1] \in Runs /\ p[2] \in 1..MaxAttempts
    BY AttemptType
  <2>2. /\ pc[p] = "none" /\ result[p] = NoResults /\ runtime[p] = NoRuntime /\ base[p] = 0
        /\ newest[p[1]] = 0 /\ p[2] \in Nat \ {0}
    BY <2>1
  <2>3. \A j \in AllJobs : result[p][j] = "none"
    BY <2>2 DEF NoResults
  <2>4. \A j \in Versioned : runtime[p][j] = 0
    BY <2>2 DEF NoRuntime
  <2>5. PlaceInv(p) /\ BaseInv(p) /\ FreshInv(p) /\ CalmInv(p)
    BY <1>1, <2>2, <2>3 DEF PlaceInv, BaseInv, FreshInv, CalmInv, Recheck, Running
  <2>6. WorkInv(p)
    BY <1>1, <2>2, <2>3, <2>4 DEF WorkInv
  <2> QED BY <2>5, <2>6 DEF AttemptInv
<1> QED BY <1>2, <1>3, <1>4, <1>5 DEF IInv

LEMMA NextIInv == IInv /\ [Next]_vars => IInv'
<1> SUFFICES ASSUME IInv, [Next]_vars PROVE IInv'
  OBVIOUS
<1>1. ASSUME NEW p \in Attempts, Step(p) PROVE IInv'
  BY <1>1, ReadBaseKeeps, PlanKeeps, StartPolicyKeeps, EvaluateKeeps, RunJobKeeps,
     ReadAttemptKeeps, ReadNewerKeeps, ReadPullKeeps, ReadRefKeeps DEF Step
<1>2. CASE Environment
  BY <1>2, OpenKeeps, OtherEventKeeps, RerunAllKeeps, RerunFailedKeeps, PushHeadKeeps, CloseKeeps,
     RetargetKeeps, AdvanceMainKeeps, ShowBaseKeeps, GoReleaseKeeps DEF Environment
<1>3. CASE UNCHANGED vars
  <2>1. TypeOK' /\ tip <= tip' /\ pull'.head.on <= tip'
    BY <1>3 DEF IInv, TypeOK, vars, runVars, jobVars, historyVars, Bases, Active
  <2>2. ASSUME NEW p \in Attempts PROVE Heeded(p)
    <3>1. CalmInv(p)
      BY DEF IInv, AttemptInv
    <3> QED BY <1>3, <3>1 DEF Heeded, CalmInv, Calm, Current, NewerRun, IsPull, Stale,
            vars, runVars, jobVars, historyVars
  <2> QED BY <1>3, <2>1, <2>2, StepOfWorld DEF vars, runVars, jobVars, historyVars
<1> QED BY <1>1, <1>2, <1>3 DEF Next

\* The inductive invariant holds of every state of the validation workflow.
THEOREM Invariance == Spec => []IInv
<1>1. Init => IInv
  BY InitIInv
<1>2. IInv /\ [Next]_vars => IInv'
  BY NextIInv
<1> QED BY <1>1, <1>2, PTL DEF Spec

\* Every variable keeps its type.
THEOREM TypeCorrect == Spec => []TypeOK
<1>1. IInv => TypeOK
  BY DEF IInv
<1> QED BY <1>1, Invariance, PTL

\* Whatever main, the pull request, its runs and their reruns do between the
\* four reads of the recheck, an accepted pull request was at one moment open on
\* main with the validated head while main was at the base found in that head.
THEOREM AcceptedIsCurrent == Spec => []AcceptedWasCurrent
<1>1. IInv => AcceptedWasCurrent
  <2> SUFFICES ASSUME IInv, NEW p \in Attempts, pc[p] = "passed", event[p[1]] = "pull_request"
      PROVE  p \in fresh /\ base[p] \in 1..head[p[1]].on
    BY DEF AcceptedWasCurrent
  <2>1. TypeOK /\ RunInv(p[1]) /\ BaseInv(p) /\ FreshInv(p)
    BY AttemptFacts
  <2>2. p \in fresh /\ base[p] # 0 /\ base[p] <= head[p[1]].on
    BY <2>1 DEF FreshInv, BaseInv, IsPull
  <2>3. base[p] \in Nat /\ head[p[1]].on \in Nat
    BY <2>1 DEF TypeOK, RunInv, IsPull, Heads, Bases
  <2> QED BY <2>2, <2>3
<1> QED BY <1>1, Invariance, PTL

\* A run that is accepted has done all required work, over all its attempts.
THEOREM WorkIsDone == Spec => []AllWorkDone
<1>1. IInv => AllWorkDone
  <2> SUFFICES ASSUME IInv, NEW p \in Attempts, pc[p] = "passed", NEW j \in AllJobs
      PROVE  <<p[1], j>> \in worked
    BY DEF AllWorkDone
  <2> QED BY AttemptFacts DEF WorkInv, Complete
<1> QED BY <1>1, Invariance, PTL

\* Latest-Go validation that is accepted ran on the release that was planned,
\* across reruns that keep some of its jobs.
THEOREM OneRelease == Spec => []OneGoRelease
<1>1. IInv => OneGoRelease
  <2> SUFFICES ASSUME IInv, NEW p \in Attempts, pc[p] = "passed", Mode = "latest", NEW j \in Versioned
      PROVE  runtime[p][j] = spec[p]
    BY DEF OneGoRelease
  <2> QED BY AttemptFacts DEF WorkInv, Complete
<1> QED BY <1>1, Invariance, PTL

\* An attempt is refused only after a failure or a change that concerns it, or
\* for a head that lacks the tip of main.
THEOREM RefusedForReason == Spec => []NoSpuriousRejection
<1>1. IInv => NoSpuriousRejection
  BY DEF IInv, AttemptInv, CalmInv, NoSpuriousRejection
<1> QED BY <1>1, Invariance, PTL
=============================================================================
