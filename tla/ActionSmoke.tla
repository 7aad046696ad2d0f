------------------------------ MODULE ActionSmoke ------------------------------
(***************************************************************************)
(* The smoke test of CI actions: the job of                                *)
(* .github/workflows/ci-action-smoke.yml, the fixture server it starts     *)
(* (.github/scripts/action_smoke_server.py) with a thread for each request, *)
(* and the action under test, which sends requests, waits for them, and    *)
(* may send one again while a thread still works on the one before.        *)
(***************************************************************************)
EXTENDS Integers, FiniteSets

CONSTANTS
    MaxPolls,    \* polls for fixture.json: 100 in the code
    MaxRequests  \* bound: requests of the action

ASSUME SmokeAssumption == MaxPolls \in Nat /\ MaxRequests \in Nat \ {0}

VARIABLES
    step,      \* where the job is
    outcome,   \* the outcomes that the last step requires
    polls,     \* rounds of the polling loop so far
    outputs,   \* what the step fixture has written to its outputs
    counted,   \* the counters that verify has in hand: the routes above zero
    server,    \* where the server process is
    file,      \* fixture.json
    threads,   \* the requests so far, each with its handler thread
    counts,    \* fixture.counts
    errors,    \* length of fixture.errors
    awaited,   \* the request that the action waits for, 0 for none
    obtained,  \* the routes that have answered the action with success
    refused,   \* history: the action has seen a request refused
    disturbed  \* history: something failed, was late or was misused

jobVars == <<step, outcome, polls, outputs, counted>>
serverVars == <<server, file>>
fixtureVars == <<threads, counts, errors>>
actionVars == <<awaited, obtained, refused>>
vars == <<jobVars, serverVars, fixtureVars, actionVars, disturbed>>

Required == {"fixture", "app_token", "verify", "cleanup"}
Routes == {"installation", "app-token"}
Ended == {"passed", "failed"}
Requests == 1..MaxRequests
NoThread == [route |-> "none", valid |-> FALSE, at |-> "none", read |-> 0]

Init ==
    /\ step = "checkout"
    /\ outcome = [s \in Required |-> "none"]
    /\ polls = 0
    /\ outputs = {}
    /\ counted = {}
    /\ server = "off"
    /\ file = "absent"
    /\ threads = [i \in Requests |-> NoThread]
    /\ counts = [r \in Routes |-> 0]
    /\ errors = 0
    /\ awaited = 0
    /\ obtained = {}
    /\ refused = FALSE
    /\ disturbed = FALSE

-----------------------------------------------------------------------------
(* The server process *)

\* make_server binds the port; generate_fixture runs openssl; write_text creates
\* the file and then fills it; and only then does serve_forever accept what has
\* been queued.
After == [bound |-> "ready", ready |-> "opened", opened |-> "written", written |-> "serving"]

Advance ==
    /\ server \in DOMAIN After
    /\ server' = After[server]
    /\ file' = CASE server = "bound" -> "absent"
                 [] server = "ready" -> "empty"
                 [] server \in {"opened", "written"} -> "full"
    /\ UNCHANGED <<jobVars, fixtureVars, actionVars, disturbed>>

\* shutdown has been asked for: serve_forever returns.
Close ==
    /\ server = "stopping"
    /\ server' = "gone"
    /\ UNCHANGED <<jobVars, file, fixtureVars, actionVars, disturbed>>

\* openssl or a write fails, or the process ends otherwise.
Die ==
    /\ server \in DOMAIN After \union {"serving"}
    /\ server' = "gone"
    /\ disturbed' = TRUE
    /\ UNCHANGED <<jobVars, file, fixtureVars, actionVars>>

Serving == server \in {"serving", "stopping"}
Listening == server \in DOMAIN After \union {"serving"}

-----------------------------------------------------------------------------
(* The handler threads, which end with the process *)

Move(i, at) == threads' = [threads EXCEPT ![i].at = at]

\* handle checks the request; a ValueError or TypeError is recorded.
Check(i) ==
    /\ Serving
    /\ threads[i].at = "queued"
    /\ IF threads[i].valid
       THEN Move(i, "counting") /\ UNCHANGED errors
       ELSE Move(i, "refusing") /\ errors' = errors + 1
    /\ UNCHANGED <<jobVars, serverVars, counts, actionVars, disturbed>>

\* self.counts[...] += 1 reads the counter and then writes it.
ReadCount(i) ==
    /\ Serving
    /\ threads[i].at = "counting"
    /\ threads' = [threads EXCEPT ![i].at = "writing", ![i].read = counts[threads[i].route]]
    /\ UNCHANGED <<jobVars, serverVars, counts, errors, actionVars, disturbed>>

\* Mutant of Incremented: the counter is written back as it was read.
Incremented_Not(t) == t.read

Incremented(t) == t.read + 1
WriteCount(i) ==
    /\ Serving
    /\ threads[i].at = "writing"
    /\ Move(i, "answering")
    /\ counts' = [counts EXCEPT ![threads[i].route] = Incremented(threads[i])]
    /\ UNCHANGED <<jobVars, serverVars, errors, actionVars, disturbed>>

\* respond: the action takes the answer if it still waits for this one.
Respond(i) ==
    LET good == threads[i].at = "answering" IN
    /\ Serving
    /\ threads[i].at \in {"answering", "refusing"}
    /\ Move(i, IF good THEN "answered" ELSE "ended")
    /\ \/ /\ awaited = i
          /\ awaited' = 0
          /\ obtained' = IF good THEN obtained \union {threads[i].route} ELSE obtained
          /\ refused' = (refused \/ ~good)
       \/ awaited # i /\ UNCHANGED actionVars
    /\ UNCHANGED <<jobVars, serverVars, counts, errors, disturbed>>

\* Any other exception ends the thread without an answer.
Raise(i) ==
    /\ Serving
    /\ threads[i].at = "queued"
    /\ Move(i, "ended")
    /\ UNCHANGED <<jobVars, serverVars, counts, errors, actionVars, disturbed>>

Thread(i) == Check(i) \/ ReadCount(i) \/ WriteCount(i) \/ Respond(i)

-----------------------------------------------------------------------------
(* The steps of the job *)

\* A step succeeds, and the next one runs; or it fails, and the steps between it
\* and the next one that runs always() are skipped.
Succeed(s, next) ==
    /\ outcome' = [outcome EXCEPT ![s] = "success"]
    /\ step' = next
Skipped(s) == CASE s = "fixture" -> {"app_token", "verify"}
                [] s = "app_token" -> {"verify"}
                [] OTHER -> {}
Fail(s) ==
    /\ outcome' = [t \in Required |-> IF t = s THEN "failure"
                                      ELSE IF t \in Skipped(s) THEN "skipped" ELSE outcome[t]]
    /\ step' = IF s = "cleanup" THEN "policy" ELSE "cleanup"

\* Whatever goes wrong in a step besides what is modelled.
StepOf == [poll |-> "fixture", outputs |-> "fixture", key |-> "fixture",
           app_token |-> "app_token", verify |-> "verify", status |-> "verify",
           cleanup |-> "cleanup", stop |-> "cleanup"]
Trouble(s) ==
    /\ step = s
    /\ Fail(StepOf[s])
    /\ disturbed' = TRUE
    /\ awaited' = 0
    /\ UNCHANGED <<polls, outputs, counted, serverVars, fixtureVars, obtained, refused>>

\* Who waits for an answer of the server gives up in the end.
GiveUp == \E s \in {"app_token", "verify", "stop"} : Trouble(s)

Checkout ==
    /\ step = "checkout"
    /\ \/ /\ step' = "poll"
          /\ server' = "bound"
          /\ UNCHANGED <<outcome, disturbed>>
       \/ /\ outcome' = [s \in Required |-> IF s = "cleanup" THEN "none" ELSE "skipped"]
          /\ step' = "cleanup"
          /\ disturbed' = TRUE
          /\ UNCHANGED server
    /\ UNCHANGED <<polls, outputs, counted, file, fixtureVars, actionVars>>

\* Mutants of Late: a loop that counts on, and one that does not count.
Late_CountOn == polls' = polls + 1 /\ UNCHANGED <<step, outcome, disturbed>>
Late_Until == UNCHANGED <<step, outcome, polls, disturbed>>

\* test -f after the last round: the server is late or dead.
Late ==
    /\ Fail("fixture")
    /\ disturbed' = TRUE
    /\ UNCHANGED polls

Poll ==
    /\ step = "poll"
    /\ \/ file # "absent" /\ step' = "outputs" /\ UNCHANGED <<outcome, polls, disturbed>>
       \/ /\ file = "absent" /\ polls < MaxPolls
          /\ polls' = polls + 1
          /\ UNCHANGED <<step, outcome, disturbed>>
       \/ file = "absent" /\ polls >= MaxPolls /\ Late
    /\ UNCHANGED <<outputs, counted, serverVars, fixtureVars, actionVars>>

\* jq prints the entries, and nothing for a file that is still empty; cat reads
\* the key that a second jq names, and fails when that one printed nothing.
Outputs ==
    /\ step = "outputs"
    /\ step' = "key"
    /\ outputs' = IF file = "full" THEN outputs \union {"config"} ELSE outputs
    /\ disturbed' = (disturbed \/ file # "full")
    /\ UNCHANGED <<outcome, polls, counted, serverVars, fixtureVars, actionVars>>

Key ==
    /\ step = "key"
    /\ \/ /\ file = "full"
          /\ outputs' = outputs \union {"key"}
          /\ Succeed("fixture", "app_token")
          /\ UNCHANGED disturbed
       \/ /\ file # "full"
          /\ Fail("fixture")
          /\ disturbed' = TRUE
          /\ UNCHANGED outputs
    /\ UNCHANGED <<polls, counted, serverVars, fixtureVars, actionVars>>

-----------------------------------------------------------------------------
(* The action under test, in the step app_token *)

Configured == outputs = {"config", "key"}

\* A request for the next route, as the fixture demands it or not.
NextRoute == IF "installation" \in obtained THEN "app-token" ELSE "installation"
Send(i, valid) ==
    /\ step = "app_token" /\ Configured
    /\ awaited = 0 /\ "app-token" \notin obtained
    /\ Listening
    /\ threads[i] = NoThread
    /\ \A j \in Requests : j < i => threads[j] # NoThread
    /\ threads' = [threads EXCEPT ![i] =
           [route |-> NextRoute, valid |-> valid, at |-> "queued", read |-> 0]]
    /\ awaited' = i
    /\ disturbed' = (disturbed \/ ~valid)
    /\ UNCHANGED <<jobVars, serverVars, counts, errors, obtained, refused>>

\* It waits no longer, and will try again while the bound lets it.
Retry ==
    /\ step = "app_token" /\ awaited # 0
    /\ threads[MaxRequests] = NoThread
    /\ awaited' = 0
    /\ UNCHANGED <<jobVars, serverVars, fixtureVars, obtained, refused, disturbed>>

\* It has its token.
Obtain ==
    /\ step = "app_token" /\ "app-token" \in obtained
    /\ Succeed("app_token", "verify")
    /\ UNCHANGED <<polls, outputs, counted, serverVars, fixtureVars, actionVars, disturbed>>

-----------------------------------------------------------------------------
(* verify, cleanup and the policy *)

\* The configuration is read, and the status handler copies the counters.
Verify ==
    /\ step = "verify"
    /\ file = "full" /\ Serving
    /\ counted' = {r \in Routes : counts[r] >= 1}
    /\ step' = "status"
    /\ UNCHANGED <<outcome, polls, outputs, serverVars, fixtureVars, actionVars, disturbed>>

\* Mutant of Accepts: errors are not looked at.
Accepts_AnyErrors == counted = Routes

\* The errors go into the answer after the counters; verify looks at both.
Accepts == errors = 0 /\ counted = Routes
Status ==
    /\ step = "status"
    /\ \/ Accepts /\ Succeed("verify", "cleanup")
       \/ ~Accepts /\ Fail("verify")
    /\ UNCHANGED <<polls, outputs, counted, serverVars, fixtureVars, actionVars, disturbed>>

Cleanup ==
    /\ step = "cleanup"
    /\ \/ file = "absent" /\ Succeed("cleanup", "policy")
       \/ file = "full" /\ step' = "stop" /\ UNCHANGED outcome
       \/ file = "empty" /\ Fail("cleanup")
    /\ UNCHANGED <<polls, outputs, counted, serverVars, fixtureVars, actionVars, disturbed>>

\* The answer to the request to stop comes before the server stops.
Stop ==
    /\ step = "stop" /\ Serving
    /\ server' = "stopping"
    /\ Succeed("cleanup", "policy")
    /\ UNCHANGED <<polls, outputs, counted, file, fixtureVars, actionVars, disturbed>>

\* Mutant of Passes: the outcome of the step cleanup is not required.
Passes_NoCleanup == \A s \in Required \ {"cleanup"} : outcome[s] = "success"

Passes == \A s \in Required : outcome[s] = "success"
Policy ==
    /\ step = "policy"
    /\ step' = IF Passes THEN "passed" ELSE "failed"
    /\ UNCHANGED <<outcome, polls, outputs, counted, serverVars, fixtureVars, actionVars, disturbed>>

Job ==
    \/ Checkout \/ Poll \/ Outputs \/ Key \/ Obtain
    \/ Verify \/ Status \/ Cleanup \/ Stop \/ Policy
    \/ GiveUp

Next ==
    \/ Job
    \/ \E s \in DOMAIN StepOf : Trouble(s)
    \/ Advance \/ Close \/ Die
    \/ \E i \in Requests : Thread(i) \/ Raise(i) \/ Send(i, TRUE) \/ Send(i, FALSE)
    \/ Retry

\* The job runs (urlopen times out after 5 seconds, the action has timeouts of
\* its own), and serve_forever polls for the request to shut down.
Spec == Init /\ [][Next]_vars /\ WF_vars(Job) /\ WF_vars(Close)

-----------------------------------------------------------------------------
(* Properties *)

Threads == [route : Routes \union {"none"}, valid : BOOLEAN,
            at : {"none", "queued", "counting", "writing", "answering", "refusing",
                  "answered", "ended"},
            read : 0..MaxRequests]

\* Type correctness.
TypeOK ==
    /\ step \in {"checkout", "policy"} \union DOMAIN StepOf \union Ended
    /\ outcome \in [Required -> {"none", "success", "failure", "skipped"}]
    /\ polls \in 0..MaxPolls
    /\ outputs \subseteq {"config", "key"}
    /\ counted \subseteq Routes
    /\ server \in DOMAIN After \union {"off", "serving", "stopping", "gone"}
    /\ file \in {"absent", "empty", "full"}
    /\ threads \in [Requests -> Threads]
    /\ counts \in [Routes -> 0..MaxRequests]
    /\ errors \in 0..MaxRequests
    /\ awaited \in 0..MaxRequests
    /\ obtained \subseteq Routes
    /\ refused \in BOOLEAN /\ disturbed \in BOOLEAN

\* The job passes on what the action did: it got its token by requests that the
\* fixture checked and answered, it saw none refused, and it was configured from
\* a complete fixture.json, whatever requests came again or late.
PassedIsEarned ==
    step = "passed" =>
        /\ \A r \in Routes : \E i \in Requests :
               threads[i].route = r /\ threads[i].valid /\ threads[i].at = "answered"
        /\ ~refused
        /\ Configured

\* The job does not fail for nothing: neither a request that was sent again, nor
\* an increment that two threads lost, nor a thread that still works is a
\* reason.  That fixture.json was read between its creation and its writing is.
FailsForReason == step = "failed" => disturbed

\* The job ends, whatever becomes of the server and of the requests.
JobEnds == <>(step \in Ended)

\* A job that passed leaves no server behind.
ServerStops == (step = "passed") ~> (server = "gone")
=============================================================================
