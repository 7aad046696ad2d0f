----------------------------- MODULE PrValidation -----------------------------
(***************************************************************************)
(* Validation of a pull request: .github/workflows/validation_pipeline.yml, *)
(* as its own workflow (Mode "requirements") or called by                  *)
(* latest-go-canary.yml (Mode "latest").  A run is created for an event,   *)
(* with the head it names; its preflight reads the tip of main and plans   *)
(* the Go releases, four jobs validate the head, and the policy job        *)
(* rechecks the identity of the pull request in separate reads before it   *)
(* accepts.  Meanwhile main and the pull request move, newer runs are      *)
(* created, and runs are rerun, also while a runner of an earlier attempt  *)
(* still goes on.                                                          *)
(*                                                                         *)
(* A commit of main is its position: its tip only advances.  A head is a   *)
(* commit and the newest commit of main it contains.                       *)
(***************************************************************************)
EXTENDS Integers, FiniteSets

CONSTANTS
    Mode,         \* go_validation_mode
    Jobs,         \* the jobs that need the preflight: four in the workflow
    Commits,      \* what heads are made of
    MaxBase,      \* bound: commits of main
    MaxGo,        \* bound: Go releases
    Runs,         \* bound: runs of the workflow
    MaxAttempts,  \* bound: attempts of a run
    NoHead

ASSUME ValidationAssumption ==
    /\ Mode \in {"requirements", "latest"}
    /\ {"root", "example"} \subseteq Jobs
    /\ "preflight" \notin Jobs
    /\ Commits # {}
    /\ MaxBase \in Nat \ {0}
    /\ MaxGo \in Nat \ {0}
    /\ MaxAttempts \in Nat \ {0}
    /\ Runs \subseteq Nat \ {0}
    /\ NoHead \notin [commit : Commits, on : 1..MaxBase]

VARIABLES
    tip,        \* the commit main is at
    pull,       \* the pull request as GitHub shows it
    golang,     \* the newest Go release
    event,      \* the event each run was created for
    head,       \* the head in that event
    newest,     \* run_attempt of each run, 0 when there is no such run
    pc,         \* where each attempt is
    result,     \* the result of each job of each attempt
    base,       \* output validated_base of the preflight, 0 for none
    spec,       \* its root_spec and example_spec in Mode "latest", 0 for none
    runtime,    \* output runtime_version of root and example, 0 for none
    worked,     \* history: the jobs of each run that succeeded, in any attempt
    fresh,      \* history: attempts that read the pull request while its head and
                \* the base they validated were both current
    disturbed   \* history: attempts that met a failure or a change

runVars == <<event, head, newest>>
jobVars == <<result, base, spec, runtime>>
historyVars == <<worked, fresh, disturbed>>
vars == <<tip, pull, golang, runVars, pc, jobVars, historyVars>>

Bases == 1..MaxBase
Heads == [commit : Commits, on : Bases]
Attempts == Runs \X (1..MaxAttempts)
AllJobs == Jobs \union {"preflight"}
Versioned == {"root", "example"}
NoResults == [j \in AllJobs |-> "none"]
NoRuntime == [j \in Versioned |-> 0]

Ended == {"passed", "failed"}
Active == {p \in Attempts : pc[p] \notin Ended \union {"none"}}

Init ==
    /\ tip = 1
    /\ pull \in [open : {FALSE}, head : {h \in Heads : h.on = 1}, ref : {"main"}, base : {1}]
    /\ golang = 1
    /\ event = [r \in Runs |-> "none"]
    /\ head = [r \in Runs |-> NoHead]
    /\ newest = [r \in Runs |-> 0]
    /\ pc = [p \in Attempts |-> "none"]
    /\ result = [p \in Attempts |-> NoResults]
    /\ base = [p \in Attempts |-> 0]
    /\ spec = [p \in Attempts |-> 0]
    /\ runtime = [p \in Attempts |-> NoRuntime]
    /\ worked = {}
    /\ fresh = {}
    /\ disturbed = {}

-----------------------------------------------------------------------------
(* Events *)

\* The first step of an attempt: only a pull request has a base to check.
FirstStep(e) == IF e = "pull_request" THEN "base" ELSE "plan"

\* The next run is created for an event.
Create(r, e, h) ==
    /\ newest[r] = 0
    /\ \A q \in Runs : q < r => newest[q] # 0
    /\ event' = [event EXCEPT ![r] = e]
    /\ head' = [head EXCEPT ![r] = h]
    /\ newest' = [newest EXCEPT ![r] = 1]
    /\ pc' = [pc EXCEPT ![<<r, 1>>] = FirstStep(e)]

\* What moves under the attempts that go on disturbs them.
Disturb(ps) == disturbed' = disturbed \union ps

\* The pull request is opened or reopened (opened, reopened).
Open(r) ==
    /\ ~pull.open /\ pull.ref = "main"
    /\ pull' = [pull EXCEPT !.open = TRUE, !.base = tip]
    /\ Create(r, "pull_request", pull.head)
    /\ Disturb(Active)
    /\ UNCHANGED <<tip, golang, jobVars, worked, fresh>>

\* A new head is pushed (synchronize), or an earlier one by force.
PushHead(r, h) ==
    /\ pull.open /\ pull.ref = "main"
    /\ h # pull.head /\ h.on <= tip
    /\ pull' = [pull EXCEPT !.head = h, !.base = tip]
    /\ Create(r, "pull_request", h)
    /\ Disturb(Active)
    /\ UNCHANGED <<tip, golang, jobVars, worked, fresh>>

\* The pull request is closed, or its base branch is changed: no run for these.
Close ==
    /\ pull.open
    /\ pull' = [pull EXCEPT !.open = FALSE]
    /\ Disturb(Active)
    /\ UNCHANGED <<tip, golang, runVars, pc, jobVars, worked, fresh>>

Retarget ==
    /\ pull' = [pull EXCEPT !.ref = IF @ = "main" THEN "other" ELSE "main"]
    /\ Disturb(Active)
    /\ UNCHANGED <<tip, golang, runVars, pc, jobVars, worked, fresh>>

\* Main advances; the pull request shows its new tip at once or later.
AdvanceMain ==
    /\ tip < MaxBase
    /\ tip' = tip + 1
    /\ Disturb(Active)
    /\ UNCHANGED <<pull, golang, runVars, pc, jobVars, worked, fresh>>

ShowBase ==
    /\ pull.base # tip
    /\ pull' = [pull EXCEPT !.base = tip]
    /\ UNCHANGED <<tip, golang, runVars, pc, jobVars, historyVars>>

\* A merge group, a dispatch or a calling workflow: nothing to recheck.
OtherEvent(r) ==
    /\ Create(r, "other", NoHead)
    /\ UNCHANGED <<tip, pull, golang, jobVars, historyVars>>

GoRelease ==
    /\ golang < MaxGo
    /\ golang' = golang + 1
    /\ UNCHANGED <<tip, pull, runVars, pc, jobVars, historyVars>>

\* The pull request shows this head on this base, and both are current.
Current(h, b) ==
    /\ pull.open /\ pull.ref = "main"
    /\ pull.head = h
    /\ tip = b

\* Mutant of NewerRun: the run itself is among the newer ones.
NewerRun_Self(r) == \E q \in Runs : q >= r /\ newest[q] # 0 /\ head[q] = head[r]

\* A newer run for the pull request and head of run r.  (GitHub does not tell
\* this of pull requests from forks; this one is from the repository itself.)
NewerRun(r) == \E q \in Runs : q > r /\ newest[q] # 0 /\ head[q] = head[r]

\* The results that a rerun of the failed jobs keeps: none after a failed
\* preflight, which all others need.
KeptResults(p) ==
    IF result[p]["preflight"] # "success" THEN NoResults
    ELSE [j \in AllJobs |-> IF result[p][j] = "success" THEN "success" ELSE "none"]

\* A run is rerun when it has ended, or was cancelled by force while its
\* runner goes on.  The attempt starts with the results and outputs it keeps.
Rerun(r, kept) ==
    LET old == <<r, newest[r]>>
        new == <<r, newest[r] + 1>>
        keepsPlan == kept["preflight"] = "success"
        b == IF keepsPlan THEN base[old] ELSE 0
    IN  /\ newest[r] \in 1..(MaxAttempts - 1)
        /\ newest' = [newest EXCEPT ![r] = @ + 1]
        /\ pc' = [pc EXCEPT ![new] = IF keepsPlan THEN "jobs" ELSE FirstStep(event[r])]
        /\ result' = [result EXCEPT ![new] = kept]
        /\ base' = [base EXCEPT ![new] = b]
        /\ spec' = [spec EXCEPT ![new] = IF keepsPlan THEN spec[old] ELSE 0]
        /\ runtime' = [runtime EXCEPT ![new] =
               [j \in Versioned |-> IF kept[j] = "success" THEN runtime[old][j] ELSE 0]]
        /\ Disturb((Active \intersect {old})
                     \union {p \in {new} :
                               /\ event[r] = "pull_request"
                               /\ \/ ~Current(head[r], tip)
                                  \/ pull.base # tip
                                  \/ b \notin {0, tip}
                                  \/ NewerRun(r)})
        /\ UNCHANGED <<tip, pull, golang, event, head, worked, fresh>>

RerunAll(r) == Rerun(r, NoResults)
RerunFailed(r) ==
    /\ newest[r] # 0
    /\ pc[<<r, newest[r]>>] # "passed"
    /\ Rerun(r, KeptResults(<<r, newest[r]>>))

-----------------------------------------------------------------------------
(* Jobs of an attempt *)

Go(p, step) == pc' = [pc EXCEPT ![p] = step]
Report(p, job, r) == result' = [result EXCEPT ![p][job] = r]
Succeeds(p, job) ==
    /\ Report(p, job, "success")
    /\ worked' = worked \union {<<p[1], job>>}
Fails(p) == Disturb({p})

\* The preflight fails: the jobs that need it are skipped.
PreflightFails(p) ==
    /\ result' = [result EXCEPT ![p] =
                     [j \in AllJobs |-> IF j = "preflight" THEN "failure" ELSE "skipped"]]
    /\ Go(p, "jobs")

\* The head that p validates does not contain the tip of main.
Stale(p) == event[p[1]] = "pull_request" /\ head[p[1]].on < tip

\* Require current PR base: the tip of main, which the head must contain.
ReadBase(p) ==
    /\ pc[p] = "base"
    /\ \/ /\ ~Stale(p)
          /\ base' = [base EXCEPT ![p] = tip]
          /\ Go(p, "plan")
          /\ UNCHANGED <<result, disturbed>>
       \/ /\ Stale(p)
          /\ PreflightFails(p)
          /\ UNCHANGED <<base, disturbed>>
       \/ PreflightFails(p) /\ Fails(p) /\ UNCHANGED base
    /\ UNCHANGED <<tip, pull, golang, runVars, spec, runtime, worked, fresh>>

\* The other steps of the preflight.  In Mode "latest" the plan names one
\* release, in Mode "requirements" a series, of which setup-go takes the newest.
Plan(p) ==
    /\ pc[p] = "plan"
    /\ \/ /\ spec' = [spec EXCEPT ![p] = IF Mode = "latest" THEN golang ELSE 0]
          /\ Succeeds(p, "preflight")
          /\ Go(p, "jobs")
          /\ UNCHANGED disturbed
       \/ PreflightFails(p) /\ Fails(p) /\ UNCHANGED <<spec, worked>>
    /\ UNCHANGED <<tip, pull, golang, runVars, base, runtime, fresh>>

\* Mutants of RuntimeOf: the plan names a series in Mode "latest" too; a job
\* reports the series it was given, which is no release.
RuntimeOf_Newest(p) == golang
RuntimeOf_Series(p) == IF Mode = "latest" THEN spec[p] ELSE -1

RuntimeOf(p) == IF Mode = "latest" THEN spec[p] ELSE golang

\* A job validates the head.
RunJob(p, j) ==
    /\ pc[p] = "jobs"
    /\ result[p][j] = "none"
    /\ \/ /\ Succeeds(p, j)
          /\ runtime' = IF j \in Versioned THEN [runtime EXCEPT ![p][j] = RuntimeOf(p)]
                                           ELSE runtime
          /\ UNCHANGED disturbed
       \/ /\ Report(p, j, "failure") \/ Report(p, j, "cancelled")
          /\ Fails(p)
          /\ UNCHANGED <<runtime, worked>>
    /\ UNCHANGED <<tip, pull, golang, runVars, pc, base, spec, fresh>>

-----------------------------------------------------------------------------
(* Recheck validated PR identity, and Evaluate *)

\* The policy job runs always(), when all others are done.
StartPolicy(p) ==
    LET r == p[1] IN
    /\ pc[p] = "jobs"
    /\ \A j \in AllJobs : result[p][j] # "none"
    /\ Go(p, IF event[r] # "pull_request" THEN "evaluate"
             ELSE IF base[p] = 0 THEN "failed" ELSE "attempt")
    /\ UNCHANGED <<tip, pull, golang, runVars, jobVars, historyVars>>

\* One read of the recheck: the next step, or the end of the job when the read
\* shows a change or fails.
Read(p, step, ok, next) ==
    /\ pc[p] = step
    /\ \/ /\ ok
          /\ Go(p, next)
          /\ UNCHANGED disturbed
       \/ /\ ~ok
          /\ Go(p, "failed")
          /\ UNCHANGED disturbed
       \/ /\ Go(p, "failed")
          /\ Fails(p)

\* getWorkflowRun: a newer attempt has superseded this one.
ReadAttempt(p) ==
    /\ Read(p, "attempt", newest[p[1]] = p[2], "newer")
    /\ UNCHANGED <<tip, pull, golang, runVars, jobVars, worked, fresh>>

\* listWorkflowRuns
ReadNewer(p) ==
    /\ Read(p, "newer", ~NewerRun(p[1]), "pull")
    /\ UNCHANGED <<tip, pull, golang, runVars, jobVars, worked, fresh>>

\* pulls.get
PullMatches(p) ==
    /\ pull.open /\ pull.ref = "main"
    /\ pull.head = head[p[1]]
    /\ pull.base = base[p]
ReadPull(p) ==
    /\ Read(p, "pull", PullMatches(p), "ref")
    /\ fresh' = IF Current(head[p[1]], base[p]) THEN fresh \union {p} ELSE fresh \ {p}
    /\ UNCHANGED <<tip, pull, golang, runVars, jobVars, worked>>

\* Mutant of RefMatches: the base that the pull request shows is taken for current.
RefMatches_Shown(p) == pull.base = base[p]

\* git.getRef: main is still where the preflight found it.
RefMatches(p) == tip = base[p]
ReadRef(p) ==
    /\ Read(p, "ref", RefMatches(p), "evaluate")
    /\ UNCHANGED <<tip, pull, golang, runVars, jobVars, worked, fresh>>

\* Mutant of Complete: only a job that failed counts.
Complete_NoFailure(p) == \A j \in AllJobs : result[p][j] # "failure"

\* The outputs that come with success: validation_passed of the smoke job, and
\* the mode that the preflight was called with.
ActionPassed(p) == "smoke" \in Jobs => result[p]["smoke"] = "success"
PlannedMode(p) == IF result[p]["preflight"] = "success" THEN Mode ELSE "none"

\* Evaluate adapter local validation result
Complete(p) == \A j \in AllJobs : result[p][j] = "success"
Evaluate(p) ==
    LET ok == /\ Complete(p)
              /\ ActionPassed(p)
              /\ PlannedMode(p) \in {"requirements", "latest"}
              /\ \A j \in Versioned : runtime[p][j] # 0
              /\ PlannedMode(p) = "latest" => runtime[p]["root"] = runtime[p]["example"]
    IN  /\ pc[p] = "evaluate"
        /\ Go(p, IF ok THEN "passed" ELSE "failed")
        /\ UNCHANGED <<tip, pull, golang, runVars, jobVars, historyVars>>

Step(p) ==
    \/ ReadBase(p) \/ Plan(p) \/ StartPolicy(p) \/ Evaluate(p)
    \/ \E j \in Jobs : RunJob(p, j)
    \/ ReadAttempt(p) \/ ReadNewer(p) \/ ReadPull(p) \/ ReadRef(p)

Environment ==
    \/ \E r \in Runs : Open(r) \/ OtherEvent(r) \/ RerunAll(r) \/ RerunFailed(r)
    \/ \E r \in Runs, h \in Heads : PushHead(r, h)
    \/ Close \/ Retarget \/ AdvanceMain \/ ShowBase \/ GoRelease

Next ==
    \/ \E p \in Attempts : Step(p)
    \/ Environment

Spec == Init /\ [][Next]_vars

-----------------------------------------------------------------------------
(* Properties *)

Results == {"none", "success", "failure", "cancelled", "skipped"}
Places ==
    {"none", "base", "plan", "jobs", "attempt", "newer", "pull", "ref", "evaluate"}
    \union Ended

\* Type correctness.
TypeOK ==
    /\ tip \in Bases
    /\ pull \in [open : BOOLEAN, head : Heads, ref : {"main", "other"}, base : Bases]
    /\ golang \in 1..MaxGo
    /\ event \in [Runs -> {"none", "pull_request", "other"}]
    /\ head \in [Runs -> Heads \union {NoHead}]
    /\ newest \in [Runs -> 0..MaxAttempts]
    /\ pc \in [Attempts -> Places]
    /\ result \in [Attempts -> [AllJobs -> Results]]
    /\ base \in [Attempts -> 0..MaxBase]
    /\ spec \in [Attempts -> 0..MaxGo]
    /\ runtime \in [Attempts -> [Versioned -> 0..MaxGo]]
    /\ worked \subseteq Runs \X AllJobs
    /\ fresh \subseteq Attempts
    /\ disturbed \subseteq Attempts

\* What is accepted for a pull request was current as a whole: at one moment of
\* the recheck the pull request was open on main with the validated head, and
\* main was at the base that the preflight found in that head, although the
\* four reads see four moments and the base may come from an earlier attempt
\* (docs/RELEASE_POLICY.md: "recheck the live PR head and base").
AcceptedWasCurrent ==
    \A p \in Attempts : (pc[p] = "passed" /\ event[p[1]] = "pull_request") =>
        /\ p \in fresh
        /\ base[p] \in 1..head[p[1]].on

\* Nothing is accepted without all required work: every job succeeded for the
\* run's head, in this attempt or in one whose result was kept
\* (docs/RELEASE_POLICY.md: "Failed, cancelled, skipped, or missing").
AllWorkDone ==
    \A p \in Attempts : pc[p] = "passed" => \A j \in AllJobs : <<p[1], j>> \in worked

\* Latest-Go validation ran root and example on the release its plan named, also
\* when Go published a newer one between the jobs or before a rerun.
OneGoRelease ==
    \A p \in Attempts : (pc[p] = "passed" /\ Mode = "latest") =>
        \A j \in Versioned : runtime[p][j] = spec[p]

\* No attempt is refused for nothing: while nothing moves and nothing fails it
\* passes, whatever earlier attempts left, and whatever Go releases meanwhile;
\* only a head that lacks the tip of main is refused as it is ("Update the
\* branch and rerun validation", validation_pipeline.yml:74).
NoSpuriousRejection ==
    \A p \in Attempts : pc[p] = "failed" => p \in disturbed \/ Stale(p)
=============================================================================
