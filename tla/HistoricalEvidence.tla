-------------------------- MODULE HistoricalEvidence --------------------------
(***************************************************************************)
(* The verifier of existing cloud evidence, verify in                      *)
(* .github/scripts/verify_existing_e2e.py: a sequence of reads from GitHub  *)
(* that waits for the local validation of a candidate and then accepts an  *)
(* earlier cloud run in place of a new one.  Between any two reads the pull *)
(* request and main move, validation runs are created, end and are rerun,  *)
(* and the evidence can be superseded or expire.                           *)
(***************************************************************************)
EXTENDS Integers, Sequences, FiniteSets

CONSTANTS
    PerPage,      \* entries of a page: 100 in the code
    MaxPages,     \* pages that pages() reads at most: 100 in the code
    MaxMain,      \* bound: commits on main after BASE
    MaxRuns,      \* bound: validation runs of the candidate
    MaxLosses     \* bound: losses of evidence

ASSUME EvidenceAssumption ==
    /\ PerPage \in Nat \ {0} /\ MaxPages \in Nat \ {0}
    /\ MaxMain \in Nat /\ MaxRuns \in Nat /\ MaxLosses \in Nat

VARIABLES
    stage, index,   \* the part of verify, and the read in it
    late,           \* the deadline of the loop has passed
    page, expected, values,  \* the locals of pages, expected is -1 for None
    chosen,         \* the run that local_validation looks at, 0 for none
    pull,           \* pull request 53: whether it is open, ready and at the
                    \* candidate, and the base that it shows
    main,           \* commits of main after BASE
    own,            \* the verifier's own run
    tree,           \* what the candidate changes, besides the additions
    cloud,          \* the historical cloud run: its attempts and its log
    validation,     \* the validation runs of the candidate, by id: whether they
                    \* were rerun, and the result of the first attempt
    together,       \* history: at the last read of the pull request it was the
                    \* candidate's and main was BASE, and no other check came since
    held,           \* history: all other evidence held when pages last returned
    unanswered,     \* history: a request failed
    overtaken       \* history: a run was created while an older one was examined

verifierVars == <<stage, index, late, page, expected, values, chosen>>
githubVars == <<pull, main, own, tree, cloud, validation>>
historyVars == <<together, held, unanswered, overtaken>>
vars == <<verifierVars, githubVars, historyVars>>

Ended == {"verified", "failed"}

authority == <<"pull", "main">>
history == <<"run", "log", "run_again">>
local_validation == <<"pages", "jobs", "validated_run">>

\* Mutant of Program: the last look at the pull request is left out.
Program_NoLastAuthority ==
    [start |-> <<"identity">> \o authority \o <<"trees">> \o history,
     poll |-> local_validation,
     wait |-> authority,
     final |-> authority \o <<"identity">> \o local_validation \o history]

\* The reads of each part of verify, in their order.
Program ==
    [start |-> <<"identity">> \o authority \o <<"trees">> \o history,
     poll |-> local_validation,
     wait |-> authority,
     final |-> authority \o <<"identity">> \o local_validation \o history \o authority]

\* What follows a part.
Following == [start |-> "poll", poll |-> "final", wait |-> "poll", final |-> "verified"]

\* The verifier's own run, the cloud run and the pull request as they must be.
Running == [attempt |-> 1, status |-> "in_progress"]
Intact == [attempt |-> 1, log |-> TRUE]
PullOk == pull = [offers |-> TRUE, base |-> 0]

Init ==
    /\ stage = "start" /\ index = 1
    /\ late = FALSE
    /\ page = 1 /\ expected = -1 /\ values = << >>
    /\ chosen = 0
    /\ pull = [offers |-> TRUE, base |-> 0]
    /\ main = 0
    /\ own = Running
    /\ tree \in {"unchanged", "changed"}
    /\ cloud = Intact
    /\ validation = << >>
    /\ together = FALSE /\ held = FALSE /\ unanswered = FALSE /\ overtaken = FALSE

-----------------------------------------------------------------------------
(* The verifier *)

At(read) == stage \notin Ended /\ Program[stage][index] = read

Proceed ==
    IF index < Len(Program[stage])
    THEN index' = index + 1 /\ UNCHANGED stage
    ELSE stage' = Following[stage] /\ index' = 1

\* require(...) raises: nothing is verified.
Fail == stage' = "failed" /\ index' = 1

\* A read whose answer is ok, or not; or that fails.
Read(name, ok) ==
    /\ At(name)
    /\ \/ ok /\ Proceed /\ UNCHANGED unanswered
       \/ ~ok /\ Fail /\ UNCHANGED unanswered
       \/ Fail /\ unanswered' = TRUE
    /\ UNCHANGED <<late, page, expected, values, chosen, githubVars, held, overtaken>>

\* execution_identity
ReadIdentity == Read("identity", own = Running) /\ UNCHANGED together

\* current_authority: the pull request, and then main.  The comparison and the
\* commits it reads next are named by their hashes and cannot change.
ReadPull == Read("pull", PullOk) /\ together' = (PullOk /\ main = 0)
ReadMain == Read("main", main = 0) /\ UNCHANGED together

\* verify_trees
ReadTrees == Read("trees", tree = "unchanged") /\ UNCHANGED together

\* verify_history: the run, with its first attempt and the jobs of that, which
\* ended long ago; its log; the run again.
ReadHistory ==
    /\ \/ Read("run", cloud.attempt = 1)
       \/ Read("log", cloud.log)
       \/ Read("run_again", cloud.attempt = 1)
    /\ together' = FALSE

\* The listing of the validation runs, newest first, and one page of it.
Listing == [i \in 1..Len(validation) |-> Len(validation) + 1 - i]
Batch(n) == SubSeq(Listing, (n - 1) * PerPage + 1,
                   IF n * PerPage < Len(Listing) THEN n * PerPage ELSE Len(Listing))

\* Mutant of ResetPages: the list of values is one for all calls.
ResetPages_OneList == page' = 1 /\ expected' = -1 /\ UNCHANGED values

\* The locals of the next call of pages.
ResetPages == page' = 1 /\ expected' = -1 /\ values' = << >>

\* Mutant of NotYet: each round has a deadline of its own.
NotYet_NewDeadline ==
    \/ stage = "poll" /\ stage' = "wait" /\ index' = 1 /\ late' = FALSE
    \/ stage = "final" /\ Fail /\ UNCHANGED late

\* The loop has not seen a completed validation: it waits, unless the deadline
\* has passed.  In the final part that is an error.
NotYet ==
    /\ \/ stage = "poll" /\ ~late /\ stage' = "wait" /\ index' = 1
       \/ stage = "poll" /\ late /\ Fail
       \/ stage = "final" /\ Fail
    /\ UNCHANGED late

\* max(runs, key=id)
Newest(ids) == CHOOSE i \in ids : \A j \in ids : j <= i

\* A green run may have skipped a required job or step: "partial".
Green == {"partial", "passed"}

\* Mutant of Judge: a run that is not completed is an error.
Judge_NoWait(run) ==
    IF run.rerun \/ run.result \notin Green THEN "raise" ELSE "examine"

\* What local_validation makes of the run it has chosen.
Judge(run) ==
    IF run.rerun THEN "raise"
    ELSE IF run.result = "active" THEN "not_yet"
    ELSE IF run.result \notin Green THEN "raise"
    ELSE "examine"

\* A run that has passed with all its jobs, and all evidence but the pull
\* request, with run n as the newest.
Passed(run) == ~run.rerun /\ run.result = "passed"
EvidenceHolds(n) ==
    n = Len(validation) /\ Passed(validation[n]) /\ cloud = Intact /\ main = 0

\* pages has returned all: local_validation takes the newest run.
Returned(all) ==
    LET ids == {all[i] : i \in 1..Len(all)}
        newest == Newest(ids)
        verdict == Judge(validation[newest])
    IN  /\ ResetPages
        /\ UNCHANGED unanswered
        /\ \/ ids = {} /\ NotYet /\ UNCHANGED <<chosen, held>>
           \/ /\ ids # {}
              /\ chosen' = newest
              /\ held' = EvidenceHolds(newest)
              /\ \/ verdict = "examine" /\ Proceed /\ UNCHANGED late
                 \/ verdict = "raise" /\ Fail /\ UNCHANGED late
                 \/ verdict = "not_yet" /\ NotYet

Distinct(all) == Cardinality({all[i] : i \in 1..Len(all)}) = Len(all)

LastPage == page = MaxPages

\* One page is read: pages returns, reads the next page, or raises.
ReadPage ==
    LET total == Len(validation)
        batch == Batch(page)
        all == values \o batch
        consistent == expected \in {-1, total} /\ Len(all) <= total
        more == Len(batch) = PerPage /\ ~LastPage
    IN  /\ At("pages")
        /\ together' = FALSE
        /\ \/ consistent /\ Len(all) = total /\ Distinct(all) /\ Returned(all)
           \/ /\ consistent /\ Len(all) < total /\ more
              /\ page' = page + 1 /\ expected' = total /\ values' = all
              /\ UNCHANGED <<stage, index, late, chosen, held, unanswered>>
           \/ /\ Fail /\ ResetPages
              /\ \/ /\ \/ ~consistent
                       \/ Len(all) = total /\ ~Distinct(all)
                       \/ Len(all) < total /\ ~more
                    /\ UNCHANGED unanswered
                 \/ unanswered' = TRUE
              /\ UNCHANGED <<late, chosen, held>>
        /\ UNCHANGED <<githubVars, overtaken>>

\* The jobs of the first attempt of the chosen run, and the run again.  That
\* attempt has ended, so that the pages of its jobs do not change between them.
ReadValidation ==
    /\ \/ Read("jobs", validation[chosen].result = "passed")
       \/ Read("validated_run",
               ~validation[chosen].rerun /\ validation[chosen].result \in Green)
    /\ together' = FALSE

Verify ==
    \/ ReadIdentity \/ ReadPull \/ ReadMain \/ ReadTrees \/ ReadHistory
    \/ ReadPage \/ ReadValidation

-----------------------------------------------------------------------------
(* GitHub *)

Changes == UNCHANGED <<verifierVars, together, held, unanswered>>

\* A run is being examined: between two pages of a listing, and from its choice
\* in the loop to the end of the second local_validation, the sixth read of the
\* final part.
Examining ==
    page > 1 \/ (stage = "poll" /\ index > 1) \/ (stage = "final" /\ index <= 6)

CreateValidation ==
    /\ Len(validation) < MaxRuns
    /\ validation' = Append(validation, [rerun |-> FALSE, result |-> "active"])
    /\ overtaken' = (overtaken \/ Examining)
    /\ Changes
    /\ UNCHANGED <<pull, main, own, tree, cloud>>

EndValidation(i) ==
    /\ validation[i].result = "active"
    /\ \E result \in Green \union {"failure"} :
           validation' = [validation EXCEPT ![i].result = result]
    /\ Changes
    /\ UNCHANGED <<pull, main, own, tree, cloud, overtaken>>

\* From its rerun on a run is refused, whatever becomes of the new attempt.
RerunValidation(i) ==
    /\ validation[i].result # "active"
    /\ ~validation[i].rerun
    /\ validation' = [validation EXCEPT ![i].rerun = TRUE]
    /\ Changes
    /\ UNCHANGED <<pull, main, own, tree, cloud, overtaken>>

\* The pull request is closed or drafted, or its head moves, and also back.
\* Main moves, and the pull request shows its new tip at once or later.
ChangePull ==
    /\ \/ pull' = [pull EXCEPT !.offers = ~@]
       \/ pull' = [pull EXCEPT !.base = main]
    /\ Changes
    /\ UNCHANGED <<main, own, tree, cloud, validation, overtaken>>

AdvanceMain ==
    /\ main < MaxMain
    /\ main' = main + 1
    /\ Changes
    /\ UNCHANGED <<pull, own, tree, cloud, validation, overtaken>>

\* The cloud run is rerun, or its log expires; the verifier's own run is cancelled.
Lost == {what \in {"run", "log", "own"} :
            \/ what = "run" /\ cloud.attempt = 2
            \/ what = "log" /\ ~cloud.log
            \/ what = "own" /\ own # Running}
LoseEvidence ==
    /\ Cardinality(Lost) < MaxLosses
    /\ \/ cloud' = [cloud EXCEPT !.attempt = 2] /\ UNCHANGED own
       \/ cloud' = [cloud EXCEPT !.log = FALSE] /\ UNCHANGED own
       \/ own' = [own EXCEPT !.status = "completed"] /\ UNCHANGED cloud
    /\ Changes
    /\ UNCHANGED <<pull, main, tree, validation, overtaken>>

\* Of what happens after the end of verify nothing is read.
GitHub ==
    /\ stage \notin Ended
    /\ \/ CreateValidation
       \/ \E i \in 1..Len(validation) : EndValidation(i) \/ RerunValidation(i)
       \/ ChangePull \/ AdvanceMain \/ LoseEvidence

\* The twenty minutes that the loop has are over.
DeadlinePasses ==
    /\ stage \in {"poll", "wait"}
    /\ ~late
    /\ late' = TRUE
    /\ UNCHANGED <<stage, index, page, expected, values, chosen, githubVars, historyVars>>

Next == Verify \/ GitHub \/ DeadlinePasses

\* The script runs: subprocess.run times out after 45 seconds, sleep returns.
\* Time passes.
Spec == Init /\ [][Next]_vars /\ WF_vars(Verify) /\ WF_vars(DeadlinePasses)

-----------------------------------------------------------------------------
(* Properties *)

ValidationRuns ==
    [rerun : BOOLEAN, result : {"active", "failure"} \union Green]

\* Type correctness; each listing starts with nothing.
TypeOK ==
    /\ stage \in DOMAIN Program \union Ended
    /\ index \in 1..(IF stage \in Ended THEN 1 ELSE Len(Program[stage]))
    /\ late \in BOOLEAN
    /\ page \in 1..MaxPages
    /\ expected \in -1..MaxRuns
    /\ values \in Seq(1..MaxRuns)
    /\ page = 1 => expected = -1 /\ values = << >>
    /\ chosen \in 0..Len(validation)
    /\ pull \in [offers : BOOLEAN, base : 0..MaxMain]
    /\ main \in 0..MaxMain
    /\ own \in [attempt : {1}, status : {"in_progress", "completed"}]
    /\ tree \in {"unchanged", "changed"}
    /\ cloud \in [attempt : {1, 2}, log : BOOLEAN]
    /\ validation \in Seq(ValidationRuns) /\ Len(validation) <= MaxRuns
    /\ together \in BOOLEAN /\ held \in BOOLEAN
    /\ unanswered \in BOOLEAN /\ overtaken \in BOOLEAN

\* What is verified was so.  The candidate changes nothing but the additions.
\* There was one moment (the end of the last listing) at which the newest
\* validation run had passed with all its jobs, the cloud run had one attempt and
\* its log, and main was BASE, although these are read one after the other.  And
\* there was a later one at which the pull request was open at the candidate and
\* main still BASE, whatever moved and moved back in between.
VerifiedWasCurrent ==
    stage = "verified" => tree = "unchanged" /\ held /\ together

\* A run that no read accepts, once its first attempt has ended.
Unfit(run) == run.rerun \/ run.result \in {"failure", "partial"}

\* The newest validation run is still awaited, or there is none.
Awaited == validation = << >> \/ validation[Len(validation)].result = "active"

\* The verifier refuses for a reason that holds at that moment: the candidate,
\* the pull request, main, the cloud run or its own run is not as it must be, the
\* newest validation is unfit, the deadline passed while it was awaited, a newer
\* run came while one was examined, there are more runs than pages may list, or a
\* request failed.  So it refuses neither for a validation that is absent or
\* active, nor for older runs that failed, nor for runs that come while it waits,
\* nor trips over the pages of a listing that did not change between them.
RefusesForReason ==
    [][stage' = "failed" /\ stage # "failed" =>
          \/ tree = "changed" \/ ~PullOk \/ main # 0 \/ cloud # Intact \/ own # Running
          \/ validation # << >> /\ Unfit(validation[Len(validation)])
          \/ late /\ stage = "poll" /\ Awaited
          \/ overtaken
          \/ Len(validation) > MaxPages * PerPage
          \/ unanswered']_vars

\* Whatever GitHub answers and however it changes, verify ends.
VerifierEnds == <>(stage \in Ended)
=============================================================================
