------------------------------- MODULE Release -------------------------------
(***************************************************************************)
(* Publishing a release: .github/workflows/auto-release.yml and the policy *)
(* it runs, .github/scripts/release_policy.py, against GitHub.  A workflow *)
(* run is triggered by a push that changes version.go or by a manual       *)
(* dispatch, waits in the concurrency group, and goes through its jobs and *)
(* steps; any of them may fail, its answers may be lost, its runner may    *)
(* die, and a maintainer may rerun it, whole or only its failed jobs.      *)
(* Others may create tags and releases meanwhile.                          *)
(*                                                                         *)
(* A commit is its position on main's first-parent line; a version is its  *)
(* rank in the semantic order, 0 where version.go has no canonical         *)
(* declaration.  Tags are neither moved nor deleted by others (the branch  *)
(* and tag rules, outside the repository).                                 *)
(***************************************************************************)
EXTENDS Integers, Sequences, FiniteSets

CONSTANTS
    Versions,      \* ranks of the versions
    FirstVersion,  \* the version main declares at first
    MaxCommits,    \* bound: commits on main
    Runs,          \* bound: workflow runs
    MaxAttempts,   \* bound: attempts of a run, reruns included
    Pushes,        \* what is pushed to main: the versions that the commits declare
    Touched,       \* versions that others tag or release
    Slots,         \* runs the concurrency group lets run at once: 1 in the workflow
    NoTag, NoTrigger

ASSUME ReleaseAssumption ==
    /\ Versions \subseteq Nat \ {0}
    /\ FirstVersion \in Versions
    /\ MaxCommits \in Nat \ {0}
    /\ MaxAttempts \in Nat \ {0}
    /\ Slots \in Nat \ {0}
    /\ Pushes \subseteq Seq(Versions \union {0}) \ {<< >>}
    /\ Touched \subseteq Versions
    /\ Runs \subseteq Nat \ {0}

MaxTries == 3    \* for attempt in 1 2 3; range(3)

VARIABLES
    main,        \* the version each commit of main declares
    trigger,     \* the event each run was triggered by
    queue,       \* runs waiting for the concurrency group, oldest first
    pc,          \* the job and step each run is at
    attempt,     \* github.run_attempt
    version,     \* output of release_intent
    preflight,   \* result of release_preflight
    e2e,         \* result of release_e2e
    tries,       \* the loop variable of the push and of publish, 0 outside the loops
    key,         \* runs whose runner holds the signing key file
    tag,         \* the tag of each version on GitHub
    release,     \* the release of each version on GitHub
    evidence,    \* history: validation jobs that succeeded, with run and attempt
    disturbed    \* history: runs whose present attempt met a failure or a draft

githubVars == <<tag, release>>
resultVars == <<version, preflight, e2e>>
vars == <<main, trigger, queue, pc, attempt, version, preflight, e2e,
          tries, key, tag, release, evidence, disturbed>>

Commits == 1..MaxCommits

Triggers ==
    [event : {"push", "workflow_dispatch"}, ref : {"main", "other"}, sha : Commits,
     before : 0..MaxCommits, requested : Versions \union {0}]

\* A tag that is not annotated cannot be verified; by is the run that pushed
\* it and made the attempt that did, 0 for others.
Tags ==
    [target : Commits, annotated : BOOLEAN, verified : BOOLEAN,
     by : Runs \union {0}, made : 0..MaxAttempts]

ASSUME NoTagAssumption == NoTag \notin Tags

\* "draft" and "foreign" releases are made by others; a run publishes.
Releases == {"none", "draft", "foreign", "published"}

Ended == {"succeeded", "no_release", "failed"}
Steps ==
    {"plan", "preflight", "e2e", "gate", "graph", "tag_state", "sign", "push",
     "verify_push", "cleanup_ok", "cleanup_failed", "verify_tag", "get_release", "post"}

Active == {r \in Runs : pc[r] \in Steps}

Init ==
    /\ main = <<FirstVersion>>
    /\ trigger = [r \in Runs |-> NoTrigger]
    /\ queue = << >>
    /\ pc = [r \in Runs |-> "none"]
    /\ attempt = [r \in Runs |-> 0]
    /\ version = [r \in Runs |-> 0]
    /\ preflight = [r \in Runs |-> "none"]
    /\ e2e = [r \in Runs |-> "none"]
    /\ tries = [r \in Runs |-> 0]
    /\ key = {}
    /\ tag = [v \in Versions |-> NoTag]
    /\ release = [v \in Versions |-> "none"]
    /\ evidence = {}
    /\ disturbed = {}

-----------------------------------------------------------------------------
(* Triggers, the concurrency group and reruns *)

\* A run is created, with the next run id, and joins the group's queue.
Enqueue(r, t) ==
    /\ pc[r] = "none"
    /\ \A q \in Runs : q < r => pc[q] # "none"
    /\ trigger' = [trigger EXCEPT ![r] = t]
    /\ pc' = [pc EXCEPT ![r] = "queued"]
    /\ attempt' = [attempt EXCEPT ![r] = 1]
    /\ queue' = Append(queue, r)

\* Commits declaring vs are pushed to main.
Extend(vs) ==
    /\ Len(main) + Len(vs) <= MaxCommits
    /\ main' = main \o vs

\* One or two commits are pushed, version.go among their changes, which
\* triggers a run.  A baseline of 0 is one that is not on the first-parent
\* line of the pushed commit, or all zeros.
Push(r, vs) ==
    /\ Extend(vs)
    /\ \E before \in {Len(main), 0} :
          Enqueue(r, [event |-> "push", ref |-> "main", sha |-> Len(main'),
                      before |-> before, requested |-> 0])
    /\ UNCHANGED <<resultVars, tries, key, githubVars, evidence, disturbed>>

\* A push over which version.go does not change in all triggers nothing.
PushOther(vs) ==
    /\ Extend(vs)
    /\ vs[Len(vs)] = main[Len(main)]
    /\ UNCHANGED <<trigger, queue, pc, attempt, resultVars, tries, key, githubVars,
                   evidence, disturbed>>

\* A maintainer dispatches the workflow on main, or on another branch.
Dispatch(r) ==
    /\ \E ref \in {"main", "other"}, requested \in Versions \union {0} :
          Enqueue(r, [event |-> "workflow_dispatch", ref |-> ref, sha |-> Len(main),
                      before |-> 0, requested |-> requested])
    /\ UNCHANGED <<main, resultVars, tries, key, githubVars, evidence, disturbed>>

\* The oldest pending run starts when the group has room; one that is rerun
\* for its failed jobs only keeps the results of those that succeeded.
Start(r) ==
    /\ queue # << >>
    /\ r = Head(queue)
    /\ Cardinality(Active) < Slots
    /\ queue' = Tail(queue)
    /\ pc' = [pc EXCEPT ![r] =
                 CASE version[r] = 0 -> "plan"
                   [] version[r] # 0 /\ preflight[r] = "none" -> "preflight"
                   [] version[r] # 0 /\ preflight[r] # "none" /\ e2e[r] = "none" -> "e2e"
                   [] OTHER -> "gate"]
    /\ UNCHANGED <<main, trigger, attempt, resultVars, tries, key, githubVars, evidence,
                   disturbed>>

CanRerun(r) == pc[r] \in Ended /\ attempt[r] < MaxAttempts

\* All jobs are run again, with the event, commit and version of the run.
RerunAll(r) ==
    /\ CanRerun(r)
    /\ pc' = [pc EXCEPT ![r] = "queued"]
    /\ attempt' = [attempt EXCEPT ![r] = @ + 1]
    /\ queue' = Append(queue, r)
    /\ version' = [version EXCEPT ![r] = 0]
    /\ preflight' = [preflight EXCEPT ![r] = "none"]
    /\ e2e' = [e2e EXCEPT ![r] = "none"]
    /\ disturbed' = disturbed \ {r}
    /\ UNCHANGED <<main, trigger, tries, key, githubVars, evidence>>

\* Only the failed jobs and those that need them are run again: the results
\* and outputs of jobs that succeeded stay.
RerunFailed(r) ==
    /\ CanRerun(r)
    /\ pc[r] = "failed"
    /\ pc' = [pc EXCEPT ![r] = "queued"]
    /\ attempt' = [attempt EXCEPT ![r] = @ + 1]
    /\ queue' = Append(queue, r)
    /\ preflight' = [preflight EXCEPT ![r] = IF @ = "failure" THEN "none" ELSE @]
    /\ e2e' = [e2e EXCEPT ![r] = IF @ = "success" /\ preflight[r] # "failure" THEN @ ELSE "none"]
    /\ disturbed' = disturbed \ {r}
    /\ UNCHANGED <<main, trigger, version, tries, key, githubVars, evidence>>

-----------------------------------------------------------------------------
(* Jobs and steps of a run *)

Go(r, step) == pc' = [pc EXCEPT ![r] = step]

\* The version of a commit, 0 for no commit.
DeclaredAt(c) == IF c \in 1..Len(main) THEN main[c] ELSE 0

\* The commit that plan compares with: the push baseline, or sha^.
Baseline(t) == IF t.event = "push" THEN t.before ELSE t.sha - 1

\* Mutant of PlanRejects: the comparison with the baseline is dropped.
PlanRejects_AnyChange(t) ==
    LET current == DeclaredAt(t.sha)
        previous == DeclaredAt(Baseline(t))
    IN  \/ t.ref # "main"
        \/ t.event = "push" /\ t.before \notin 1..(t.sha - 1)
        \/ current = 0
        \/ previous = 0
        \/ t.requested \notin {0, current}
        \/ current = previous /\ t.event = "workflow_dispatch"

\* plan raises, or says whether there is something to release.
PlanRejects(t) ==
    LET current == DeclaredAt(t.sha)
        previous == DeclaredAt(Baseline(t))
    IN  \/ t.ref # "main"
        \/ t.event = "push" /\ t.before \notin 1..(t.sha - 1)
        \/ current = 0
        \/ previous = 0
        \/ t.requested \notin {0, current}
        \/ current = previous /\ t.event = "workflow_dispatch"
        \/ current < previous

\* release_intent
Plan(r) ==
    LET t == trigger[r] IN
    /\ pc[r] = "plan"
    /\ \/ /\ PlanRejects(t)
          /\ Go(r, "failed")
          /\ UNCHANGED version
       \/ /\ ~PlanRejects(t)
          /\ DeclaredAt(t.sha) = DeclaredAt(Baseline(t))
          /\ Go(r, "no_release")
          /\ UNCHANGED version
       \/ /\ ~PlanRejects(t)
          /\ DeclaredAt(t.sha) # DeclaredAt(Baseline(t))
          /\ Go(r, "preflight")
          /\ version' = [version EXCEPT ![r] = DeclaredAt(t.sha)]
    /\ UNCHANGED <<main, trigger, queue, attempt, preflight, e2e, tries, key,
                   githubVars, evidence, disturbed>>

\* A validation job of the run succeeds on its commit in this attempt.
Record(job, r) == evidence' = evidence \union {[job |-> job, run |-> r, made |-> attempt[r]]}

\* release_preflight: the validation pipeline on the release commit.
Preflight(r) ==
    /\ pc[r] = "preflight"
    /\ \/ /\ preflight' = [preflight EXCEPT ![r] = "success"]
          /\ Record("preflight", r)
          /\ UNCHANGED disturbed
       \/ /\ preflight' = [preflight EXCEPT ![r] = "failure"]
          /\ disturbed' = disturbed \union {r}
          /\ UNCHANGED evidence
    /\ Go(r, "e2e")
    /\ UNCHANGED <<main, trigger, queue, attempt, version, e2e, tries, key,
                   githubVars>>

\* release_e2e: the cloud suite, skipped when the preflight failed.
E2E(r) ==
    /\ pc[r] = "e2e"
    /\ \/ /\ preflight[r] # "success"
          /\ e2e' = [e2e EXCEPT ![r] = "skipped"]
          /\ UNCHANGED <<evidence, disturbed>>
       \/ /\ preflight[r] = "success"
          /\ e2e' = [e2e EXCEPT ![r] = "success"]
          /\ Record("e2e", r)
          /\ UNCHANGED disturbed
       \/ /\ preflight[r] = "success"
          /\ e2e' = [e2e EXCEPT ![r] = "failure"]
          /\ disturbed' = disturbed \union {r}
          /\ UNCHANGED evidence
    /\ Go(r, "gate")
    /\ UNCHANGED <<main, trigger, queue, attempt, version, preflight, tries,
                   key, githubVars>>

\* Output validation_passed of release_preflight: its policy job sets it when it
\* succeeds, and a rerun keeps it with that result.
ValidationPassed(r) == preflight[r] = "success"

\* Mutant of Validated: a skipped cloud suite does not block.
Validated_E2EMaySkip(r) == e2e[r] # "failure"

\* Require Successful Release Validation: the first step of the release job,
\* which runs always().
Validated(r) == preflight[r] = "success" /\ e2e[r] = "success" /\ ValidationPassed(r)
Gate(r) ==
    /\ pc[r] = "gate"
    /\ Go(r, IF Validated(r) THEN "graph" ELSE "failed")
    /\ UNCHANGED <<main, trigger, queue, attempt, resultVars, tries, key, githubVars,
                   evidence, disturbed>>

\* The checkouts and the fresh selected graph.
Graph(r) ==
    /\ pc[r] = "graph"
    /\ Go(r, "tag_state")
    /\ UNCHANGED <<main, trigger, queue, attempt, resultVars, tries, key, githubVars,
                   evidence, disturbed>>

\* Mutant of Verifies: the target is not compared.
Verifies_AnyTarget(v, sha) ==
    /\ tag[v] # NoTag
    /\ tag[v].annotated
    /\ tag[v].verified

\* verify_tag: an annotated tag of this commit, signed by the authorized key.
Verifies(v, sha) ==
    /\ tag[v] # NoTag
    /\ tag[v].annotated
    /\ tag[v].target = sha
    /\ tag[v].verified

\* Mutant of TagState: a tag that is there is always a conflict.
TagState_NoReuse(r) ==
    /\ pc[r] = "tag_state"
    /\ Go(r, IF tag[version[r]] = NoTag THEN "sign" ELSE "failed")
    /\ UNCHANGED <<main, trigger, queue, attempt, resultVars, tries, key, githubVars,
                   evidence, disturbed>>

\* Check Existing Tag.  A matching tag skips the signing steps and the removal
\* of the key (tag_exists); any other tag is a conflict that ends the run.
TagState(r) ==
    LET v == version[r] IN
    /\ pc[r] = "tag_state"
    /\ Go(r, IF tag[v] = NoTag THEN "sign"
             ELSE IF Verifies(v, trigger[r].sha) THEN "verify_tag" ELSE "failed")
    /\ UNCHANGED <<main, trigger, queue, attempt, resultVars, tries, key, githubVars,
                   evidence, disturbed>>

\* Configure SSH Tag Signing: the key is on the runner from here on, also
\* when a later command of the step fails; then git tag -s and -v.
Sign(r) ==
    /\ pc[r] = "sign"
    /\ key' = key \union {r}
    /\ \/ /\ Go(r, "push")
          /\ tries' = [tries EXCEPT ![r] = 1]
          /\ UNCHANGED disturbed
       \/ /\ Go(r, "cleanup_failed")
          /\ disturbed' = disturbed \union {r}
          /\ UNCHANGED tries
    /\ UNCHANGED <<main, trigger, queue, attempt, resultVars, githubVars, evidence>>

\* Mutant of PushAccepted: git push --force.
PushAccepted_Force(r, v) == TRUE

\* The tag object of this attempt is on GitHub already.
Pushed(r, v) == tag[v] # NoTag /\ tag[v].by = r /\ tag[v].made = attempt[r]

\* git push without force: the remote accepts a new tag, or the same object.
PushAccepted(r, v) == tag[v] = NoTag \/ Pushed(r, v)

\* The tag of this attempt, as GitHub will see it: verified unless the signing
\* identity is not the one GitHub and the repository know.
OwnTag(r, verified) ==
    [target |-> trigger[r].sha, annotated |-> TRUE, verified |-> verified,
     by |-> r, made |-> attempt[r]]

\* The remote has the tag afterwards; pushing the same object changes nothing.
PushArrives(r) ==
    LET v == version[r] IN
    /\ PushAccepted(r, v)
    /\ \/ /\ Pushed(r, v)
          /\ UNCHANGED <<tag, disturbed>>
       \/ /\ ~Pushed(r, v)
          /\ tag' = [tag EXCEPT ![v] = OwnTag(r, TRUE)]
          /\ UNCHANGED disturbed
       \/ /\ ~Pushed(r, v)
          /\ tag' = [tag EXCEPT ![v] = OwnTag(r, FALSE)]
          /\ disturbed' = disturbed \union {r}

\* One push of the loop: it succeeds; it arrives but its answer is lost; it is
\* refused; or it fails before it arrives.
PushTag(r) ==
    /\ pc[r] = "push"
    /\ \/ /\ PushArrives(r)
          /\ Go(r, "cleanup_ok")
          /\ tries' = [tries EXCEPT ![r] = 0]
       \/ /\ PushArrives(r)
          /\ Go(r, "verify_push")
          /\ UNCHANGED tries
       \/ /\ ~PushAccepted(r, version[r])
          /\ Go(r, "verify_push")
          /\ UNCHANGED <<tag, tries, disturbed>>
       \/ /\ Go(r, "verify_push")
          /\ disturbed' = disturbed \union {r}
          /\ UNCHANGED <<tag, tries>>
    /\ UNCHANGED <<main, trigger, queue, attempt, resultVars, key, release, evidence>>

\* Mutants of Again: a round is not counted; the count is not compared.
Again_Uncounted(r, round, exhausted) ==
    /\ Go(r, round)
    /\ UNCHANGED tries

Again_Unbounded(r, round, exhausted) ==
    /\ Go(r, round)
    /\ tries' = [tries EXCEPT ![r] = @ + 1]

\* The next round of a loop, or where it leads when the tries are used up.
Again(r, round, exhausted) ==
    /\ Go(r, IF tries[r] < MaxTries THEN round ELSE exhausted)
    /\ tries' = [tries EXCEPT ![r] = IF @ < MaxTries THEN @ + 1 ELSE 0]

\* The loop asks GitHub for the tag after a failed push, and goes round when
\* the answer is not the expected tag or does not come.
VerifyPush(r) ==
    /\ pc[r] = "verify_push"
    /\ \/ /\ Verifies(version[r], trigger[r].sha)
          /\ Go(r, "cleanup_ok")
          /\ tries' = [tries EXCEPT ![r] = 0]
          /\ UNCHANGED disturbed
       \/ /\ ~Verifies(version[r], trigger[r].sha)
          /\ Again(r, "push", "cleanup_failed")
          /\ UNCHANGED disturbed
       \/ /\ Again(r, "push", "cleanup_failed")
          /\ disturbed' = disturbed \union {r}
    /\ UNCHANGED <<main, trigger, queue, attempt, resultVars, key, githubVars, evidence>>

\* Remove Signing Key Material runs always(), so after a failed push too.
CleanupSteps == {"cleanup_ok", "cleanup_failed"}

\* Mutant of Cleanup: the removal lacks its always().
Cleanup_OnSuccessOnly(r) ==
    /\ pc[r] \in CleanupSteps
    /\ key' = IF pc[r] = "cleanup_ok" THEN key \ {r} ELSE key
    /\ Go(r, IF pc[r] = "cleanup_ok" THEN "verify_tag" ELSE "failed")
    /\ UNCHANGED <<main, trigger, queue, attempt, resultVars, tries, githubVars, evidence,
                   disturbed>>

Cleanup(r) ==
    /\ pc[r] \in CleanupSteps
    /\ key' = key \ {r}
    /\ Go(r, IF pc[r] = "cleanup_ok" THEN "verify_tag" ELSE "failed")
    /\ UNCHANGED <<main, trigger, queue, attempt, resultVars, tries, githubVars, evidence,
                   disturbed>>

\* Mutant of VerifyTag: the tag is not verified before publication.
VerifyTag_Skipped(r) ==
    /\ pc[r] = "verify_tag"
    /\ Go(r, "get_release")
    /\ tries' = [tries EXCEPT ![r] = 1]
    /\ UNCHANGED <<main, trigger, queue, attempt, resultVars, key, githubVars, evidence,
                   disturbed>>

\* publish begins with verify_tag, for which a missing tag is an error.
VerifyTag(r) ==
    LET ok == Verifies(version[r], trigger[r].sha) IN
    /\ pc[r] = "verify_tag"
    /\ Go(r, IF ok THEN "get_release" ELSE "failed")
    /\ tries' = [tries EXCEPT ![r] = IF ok THEN 1 ELSE 0]
    /\ UNCHANGED <<main, trigger, queue, attempt, resultVars, key, githubVars, evidence,
                   disturbed>>

\* An existing published release is taken as the result; a draft is refused
\* when GitHub shows it, and otherwise like no release.
GetRelease(r) ==
    LET found == release[version[r]] IN
    /\ pc[r] = "get_release"
    /\ \/ /\ found \in {"none", "draft"}
          /\ Go(r, "post")
          /\ UNCHANGED <<tries, disturbed>>
       \/ /\ found = "draft"
          /\ Go(r, "failed")
          /\ tries' = [tries EXCEPT ![r] = 0]
          /\ disturbed' = disturbed \union {r}
       \/ /\ found \in {"foreign", "published"}
          /\ Go(r, "succeeded")
          /\ tries' = [tries EXCEPT ![r] = 0]
          /\ UNCHANGED disturbed
    /\ UNCHANGED <<main, trigger, queue, attempt, resultVars, key, githubVars, evidence>>

\* GitHub creates the release, and a plain tag when there is none.
ReleaseArrives(r) ==
    LET v == version[r] IN
    /\ release[v] \in {"none", "draft"}
    /\ release' = [release EXCEPT ![v] = "published"]
    /\ tag' = [tag EXCEPT ![v] = IF @ # NoTag THEN @
                                 ELSE [OwnTag(r, FALSE) EXCEPT !.annotated = FALSE]]

\* POST /releases: it succeeds; it arrives but its answer is lost; it is
\* refused because there is a release (422); or it fails on its way.  Without
\* a success the loop goes round until its third attempt.
Post(r) ==
    /\ pc[r] = "post"
    /\ \/ /\ ReleaseArrives(r)
          /\ Go(r, "succeeded")
          /\ tries' = [tries EXCEPT ![r] = 0]
          /\ UNCHANGED disturbed
       \/ /\ ReleaseArrives(r)
          /\ Again(r, "get_release", "failed")
          /\ UNCHANGED disturbed
       \/ /\ release[version[r]] \in {"foreign", "published"}
          /\ Again(r, "get_release", "failed")
          /\ UNCHANGED <<githubVars, disturbed>>
       \/ /\ Again(r, "get_release", "failed")
          /\ disturbed' = disturbed \union {r}
          /\ UNCHANGED githubVars
    /\ UNCHANGED <<main, trigger, queue, attempt, resultVars, key, evidence>>

\* A step of a job fails for a reason of its own (an API error that outlasts
\* the retries, a checkout, a credential), before the key is on the runner or
\* after it was removed; or the runner is lost, and its disk with it.
Abort(r) ==
    /\ pc[r] \in Steps \ {"preflight", "e2e"}
    /\ key' = key \ {r}
    /\ Go(r, "failed")
    /\ tries' = [tries EXCEPT ![r] = 0]
    /\ disturbed' = disturbed \union {r}
    /\ UNCHANGED <<main, trigger, queue, attempt, resultVars, githubVars, evidence>>

-----------------------------------------------------------------------------
(* Others *)

\* Somebody else pushes a tag of any kind, for any commit of main.
ForeignTag(v) ==
    /\ tag[v] = NoTag
    /\ \E target \in 1..Len(main), annotated, verified \in BOOLEAN :
          /\ verified => annotated
          /\ tag' = [tag EXCEPT ![v] = [target |-> target, annotated |-> annotated,
                                        verified |-> verified, by |-> 0, made |-> 0]]
    /\ UNCHANGED <<main, trigger, queue, pc, attempt, resultVars, tries, key, release,
                   evidence, disturbed>>

\* Somebody else drafts a release, or publishes one for a tag that exists.
ForeignRelease(v) ==
    /\ release[v] = "none"
    /\ \/ release' = [release EXCEPT ![v] = "draft"]
       \/ tag[v] # NoTag /\ release' = [release EXCEPT ![v] = "foreign"]
    /\ UNCHANGED <<main, trigger, queue, pc, attempt, resultVars, tries, key, tag,
                   evidence, disturbed>>

Step(r) ==
    \/ Plan(r) \/ Preflight(r) \/ E2E(r) \/ Gate(r) \/ Graph(r) \/ TagState(r) \/ Sign(r)
    \/ PushTag(r) \/ VerifyPush(r) \/ Cleanup(r) \/ VerifyTag(r) \/ GetRelease(r) \/ Post(r)

Environment ==
    \/ \E r \in Runs : Dispatch(r) \/ RerunAll(r) \/ RerunFailed(r) \/ Abort(r)
    \/ \E r \in Runs, vs \in Pushes : Push(r, vs)
    \/ \E vs \in Pushes : PushOther(vs)
    \/ \E v \in Touched : ForeignTag(v) \/ ForeignRelease(v)

Next ==
    \/ \E r \in Runs : Start(r) \/ Step(r)
    \/ Environment

Spec == Init /\ [][Next]_vars

\* GitHub starts the oldest run of the group when there is room, and a job
\* that has started takes its next step, as jobs do until they time out.
\* Failures, reruns and others' actions owe nothing.
FairSpec ==
    /\ Spec
    /\ WF_vars(\E r \in Runs : Start(r))
    /\ \A r \in Runs : WF_vars(Step(r))

-----------------------------------------------------------------------------
(* Properties *)

\* Type correctness; the loops stay within their three tries.
TypeOK ==
    /\ main \in Seq(Versions \union {0}) /\ Len(main) \in Commits
    /\ trigger \in [Runs -> Triggers \union {NoTrigger}]
    /\ queue \in Seq(Runs)
    /\ pc \in [Runs -> {"none", "queued"} \union Ended \union Steps]
    /\ attempt \in [Runs -> 0..MaxAttempts]
    /\ version \in [Runs -> Versions \union {0}]
    /\ preflight \in [Runs -> {"none", "success", "failure"}]
    /\ e2e \in [Runs -> {"none", "success", "failure", "skipped"}]
    /\ tries \in [Runs -> 0..MaxTries]
    /\ key \subseteq Runs
    /\ tag \in [Versions -> Tags \union {NoTag}]
    /\ release \in [Versions -> Releases]
    /\ evidence \subseteq [job : {"preflight", "e2e"}, run : Runs, made : 0..MaxAttempts]
    /\ disturbed \subseteq Runs

\* A run that succeeds leaves its version released under an annotated, verified
\* tag of its own commit, whoever pushed that tag and whoever published, and
\* whatever was lost on the way (publish: verify_tag, then resume or create).
PublishedMatchesTag ==
    \A r \in Runs : pc[r] = "succeeded" =>
        /\ Verifies(version[r], trigger[r].sha)
        /\ release[version[r]] \in {"foreign", "published"}

\* Both validations of run r succeeded, in some attempt, on its commit.
Proven(r) ==
    \A job \in {"preflight", "e2e"} : \E e \in evidence : e.job = job /\ e.run = r

\* The pipeline never tags a commit that its two validations have not passed,
\* nor publishes a version whose tagged commit they have not passed, not even
\* when somebody else pushed that tag (auto-release.yml, Require Successful
\* Release Validation; docs/RELEASE_POLICY.md "Both must succeed").
ProvenBeforeRelease ==
    \A v \in Versions :
        /\ tag[v] # NoTag /\ tag[v].by # 0 => Proven(tag[v].by)
        /\ release[v] = "published" =>
              \E r \in Runs : Proven(r) /\ trigger[r].sha = tag[v].target /\ main[trigger[r].sha] = v

\* Two runs that succeed for one version released one commit, however many
\* commits declared that version and however the runs and their reruns
\* interleave: the tag is the arbiter.
OneCommitPerVersion ==
    \A q, r \in Runs :
        (pc[q] = "succeeded" /\ pc[r] = "succeeded" /\ version[q] = version[r]) =>
            trigger[q].sha = trigger[r].sha

\* Only a commit of main whose declared version is above its baseline's is
\* released, under that version, although the plan that decided it read main
\* before the validations ran (release_policy.py plan).
ReleaseAdvances ==
    \A r \in Runs : pc[r] = "succeeded" =>
        /\ trigger[r].ref = "main"
        /\ version[r] = main[trigger[r].sha]
        /\ Baseline(trigger[r]) \in 1..(trigger[r].sha - 1)
        /\ main[Baseline(trigger[r])] < version[r]

\* The signing key is on a runner only from its configuration to its removal:
\* not while the release is published, nor after the job ended in any way
\* (docs/RELEASE_POLICY.md "The runner removes its signing material after use").
KeyConfined ==
    \A r \in key : pc[r] \in {"push", "verify_push"} \union CleanupSteps

\* Recovery always works: an attempt in which nothing failed publishes, unless
\* the event was no release, another tag is in the way or a draft was met. So
\* neither a crash at any step of earlier attempts, nor an answer lost in this
\* one, leaves behind a state that a rerun cannot finish
\* (docs/RELEASE_POLICY.md "Recovery").
UndisturbedSucceeds ==
    \A r \in Runs : (pc[r] = "failed" /\ r \notin disturbed) =>
        \/ PlanRejects(trigger[r])
        \/ tag[version[r]] # NoTag /\ ~Verifies(version[r], trigger[r].sha)

\* The abstract view of GitHub and of the evidence.
BoundTo == [v \in Versions |-> IF tag[v] = NoTag THEN 0 ELSE tag[v].target]
ProvenCommits == {trigger[r].sha : r \in {q \in Runs : Proven(q)}}
PublishedVersions == {v \in Versions : release[v] = "published"}

Registry == INSTANCE VersionRegistry
    WITH bound <- BoundTo, proven <- ProvenCommits, published <- PublishedVersions

\* The pipeline implements VersionRegistry: a tag is never moved or replaced,
\* by any push, retry or rerun, and publication follows the tag and the proof.
ImplementsRegistry == Registry!Spec

\* Every run that is queued ends, whatever the failures: no retry loop and no
\* place in the queue holds it for ever.
QueuedRunsEnd == \A r \in Runs : pc[r] = "queued" ~> pc[r] \in Ended

\* docs/RELEASE_POLICY.md: recovery "repeats the required validation".  What is
\* released in an attempt was validated in that attempt.
RecoveryRevalidates ==
    \A r \in Runs : pc[r] = "succeeded" =>
        \A job \in {"preflight", "e2e"} :
            [job |-> job, run |-> r, made |-> attempt[r]] \in evidence

\* docs/RELEASE_POLICY.md: Auto Release "requires a strictly increasing stable
\* semantic version".  A version is published only above all published before.
PublishedInOrder ==
    [][\A v \in Versions :
          (release'[v] = "published" /\ release[v] # "published") =>
              \A u \in Versions : release[u] = "published" => u < v]_vars
=============================================================================
