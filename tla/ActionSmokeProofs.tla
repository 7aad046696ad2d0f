-------------------------- MODULE ActionSmokeProofs --------------------------
(***************************************************************************)
(* Proofs about ActionSmoke: what a job that passed has shown, and that it *)
(* does not fail for nothing, for any number of requests and of polls.     *)
(***************************************************************************)
EXTENDS ActionSmoke, FiniteSetTheorems, TLAPS

-----------------------------------------------------------------------------
(* The inductive invariant *)

\* The threads of a route that have written its counter, and those that have
\* refused their request or ended without an answer.
Written(r) == {i \in Requests : threads[i].route = r /\ threads[i].at \in {"answering", "answered"}}
Rejected == {i \in Requests : threads[i].at \in {"refusing", "ended"}}

\* Lost increments only make the counters smaller than what has been written.
BoundInv ==
    /\ \A r \in Routes : counts[r] <= Cardinality(Written(r))
    /\ \A i \in Requests : threads[i].at = "writing" =>
           threads[i].read <= Cardinality(Written(threads[i].route))
    /\ errors <= Cardinality(Rejected)

\* What the work of a thread says of its request and of the fixture: a counter
\* that has been written is not zero again, whoever writes it later.
ThreadInv ==
    \A i \in Requests :
        LET t == threads[i] IN
        /\ t.at = "none" => t = NoThread
        /\ t.at # "none" => t.route \in Routes /\ Configured
        /\ t.at \in {"counting", "writing", "answering", "answered"} => t.valid
        /\ t.at \in {"answering", "answered"} => counts[t.route] >= 1
        /\ t.at = "refusing" => errors >= 1
        /\ t.route = "app-token" => "installation" \in obtained

\* What the action has was given by threads that have counted it, and a refusal
\* that it saw was recorded.
ActionInv ==
    /\ \A r \in obtained : \E i \in Requests :
           threads[i].route = r /\ threads[i].valid /\ threads[i].at = "answered"
    /\ "app-token" \in obtained => awaited = 0 /\ "installation" \in obtained
    /\ refused => errors >= 1

\* A later step of the job rests on the earlier ones.
OutcomeInv ==
    /\ step \in {"checkout", "poll", "outputs", "key"} =>
           \A s \in Required : outcome[s] = "none"
    /\ step \in {"app_token", "verify", "status"} =>
           /\ outcome["fixture"] = "success"
           /\ outcome["verify"] = "none" /\ outcome["cleanup"] = "none"
           /\ step # "app_token" => outcome["app_token"] = "success"
           /\ step = "app_token" => outcome["app_token"] = "none"
    /\ step \in {"cleanup", "stop"} => outcome["cleanup"] = "none"
    /\ step = "status" => counted = Routes
    /\ outcome["app_token"] = "success" => "app-token" \in obtained
    /\ outcome["verify"] = "success" => outcome["app_token"] = "success" /\ ~refused
    /\ step = "passed" => Passes

\* The server starts once, and a fixture.json that is complete stays so.
FileInv ==
    /\ step = "checkout" => server = "off"
    /\ file = "full" => server \in {"written", "serving", "stopping", "gone"}

\* What holds as long as nothing has gone wrong.
CalmInv ==
    ~disturbed =>
        /\ errors = 0
        /\ \A i \in Requests : threads[i].at # "none" => threads[i].valid
        /\ step \in {"app_token", "verify", "status", "cleanup", "stop"} => file = "full"
        /\ step \in {"cleanup", "stop"} =>
               \A s \in Required \ {"cleanup"} : outcome[s] = "success"
        /\ step = "policy" => Passes
        /\ step # "failed"

IInv ==
    /\ TypeOK /\ BoundInv /\ ThreadInv /\ ActionInv
    /\ OutcomeInv /\ FileInv /\ CalmInv

-----------------------------------------------------------------------------
(* Counting threads *)

\* Sets of requests are no larger than all, and grow with what they contain.
LEMMA CardFacts ==
    ASSUME NEW S \in SUBSET Requests, NEW T \in SUBSET Requests, S \subseteq T
    PROVE  /\ Cardinality(S) \in 0..MaxRequests
           /\ Cardinality(T) \in 0..MaxRequests
           /\ Cardinality(S) <= Cardinality(T)
           /\ \A x \in T \ S : Cardinality(S) + 1 <= Cardinality(T)
<1>1. IsFiniteSet(Requests) /\ Cardinality(Requests) = MaxRequests /\ MaxRequests \in Nat
  BY FS_Interval, SmokeAssumption DEF Requests
<1>2. /\ IsFiniteSet(S) /\ Cardinality(S) <= MaxRequests
      /\ IsFiniteSet(T) /\ Cardinality(T) <= MaxRequests
  BY <1>1, FS_Subset
<1>3. Cardinality(S) \in Nat /\ Cardinality(T) \in Nat
  BY <1>2, FS_CardinalityType
<1>4. Cardinality(S) <= Cardinality(T)
  BY <1>2, FS_Subset
<1>5. ASSUME NEW x \in T \ S
      PROVE  Cardinality(S) + 1 <= Cardinality(T)
  <2>1. Cardinality(S \union {x}) = Cardinality(S) + 1
    BY <1>2, FS_AddElement
  <2>2. S \union {x} \in SUBSET T
    BY <1>5
  <2> QED BY <1>2, <2>1, <2>2, FS_Subset
<1> QED BY <1>1, <1>2, <1>3, <1>4, <1>5

\* The bounds of the counters make their types.
LEMMA BoundTypes ==
    ASSUME counts' \in [Routes -> Nat], errors' \in Nat, BoundInv'
    PROVE  counts' \in [Routes -> 0..MaxRequests] /\ errors' \in 0..MaxRequests
<1>1. \A r \in Routes : Cardinality(Written(r)') \in 0..MaxRequests
  BY CardFacts DEF Written
<1>2. Cardinality(Rejected') \in 0..MaxRequests
  BY CardFacts DEF Rejected
<1>3. \A r \in Routes : counts'[r] \in 0..MaxRequests
  BY <1>1, SmokeAssumption DEF BoundInv
<1> QED BY <1>2, <1>3, SmokeAssumption DEF BoundInv

LEMMA InitIInv == Init => IInv
<1> SUFFICES ASSUME Init PROVE IInv
  OBVIOUS
<1>1. TypeOK
  <2>1. NoThread \in Threads
    BY SmokeAssumption DEF NoThread, Threads
  <2>2. threads \in [Requests -> Threads]
    BY <2>1 DEF Init
  <2>3. outcome \in [Required -> {"none", "success", "failure", "skipped"}]
    BY DEF Init
  <2>4. counts \in [Routes -> 0..MaxRequests]
    BY SmokeAssumption DEF Init
  <2>5. polls \in 0..MaxPolls /\ errors \in 0..MaxRequests /\ awaited \in 0..MaxRequests
    BY SmokeAssumption DEF Init
  <2>6. /\ step = "checkout" /\ server = "off" /\ file = "absent"
        /\ outputs = {} /\ counted = {} /\ obtained = {}
    BY DEF Init
  <2>7. refused \in BOOLEAN /\ disturbed \in BOOLEAN
    BY DEF Init
  <2> QED BY <2>2, <2>3, <2>4, <2>5, <2>6, <2>7 DEF TypeOK
<1>2. BoundInv
  <2>1. Cardinality(Rejected) \in 0..MaxRequests
    BY CardFacts DEF Rejected
  <2>2. \A r \in Routes : Cardinality(Written(r)) \in 0..MaxRequests
    BY CardFacts DEF Written
  <2> QED BY <2>1, <2>2 DEF Init, BoundInv, NoThread
<1>3. ThreadInv
  BY DEF Init, ThreadInv, NoThread
<1>4. OutcomeInv
  BY DEF Init, OutcomeInv, Required
<1> QED BY <1>1, <1>2, <1>3, <1>4 DEF Init, IInv, ActionInv, FileInv, CalmInv, NoThread

-----------------------------------------------------------------------------
(* What a step leaves alone *)

LEMMA FixtureFrame ==
    ASSUME IInv, UNCHANGED <<fixtureVars, obtained>>, Configured => Configured'
    PROVE  BoundInv' /\ ThreadInv'
<1>1. BoundInv'
  BY DEF IInv, BoundInv, Written, Rejected, fixtureVars
<1>2. ThreadInv'
  BY DEF IInv, ThreadInv, fixtureVars
<1> QED BY <1>1, <1>2

LEMMA ActionFrame ==
    ASSUME IInv, UNCHANGED <<fixtureVars, obtained, refused>>, awaited' \in {0, awaited}
    PROVE  ActionInv'
BY DEF IInv, ActionInv, fixtureVars

\* Steps of others than the job leave its outcomes; they touch neither what it
\* has, nor, if it has its token, the refusals.
LEMMA JobFrame ==
    ASSUME IInv, UNCHANGED jobVars, obtained \subseteq obtained',
           "app-token" \in obtained => refused' = refused
    PROVE  OutcomeInv'
BY DEF IInv, OutcomeInv, jobVars, Passes

-----------------------------------------------------------------------------
(* The server *)

LEMMA AdvanceStep ==
    ASSUME IInv, Advance
    PROVE  IInv'
<1>1. UNCHANGED <<jobVars, fixtureVars, actionVars, disturbed>>
  BY DEF Advance
<1>2. BoundInv' /\ ThreadInv'
  BY <1>1, FixtureFrame DEF actionVars, jobVars, Configured
<1>3. ActionInv' /\ OutcomeInv'
  BY <1>1, ActionFrame, JobFrame DEF actionVars
<1>4. TypeOK' /\ FileInv'
  BY DEF IInv, TypeOK, FileInv, Advance, After, jobVars, fixtureVars, actionVars
<1>5. file = "full" => file' = "full"
  BY DEF IInv, FileInv, Advance, After
<1>6. CalmInv'
  BY <1>1, <1>5 DEF IInv, CalmInv, jobVars, fixtureVars, Passes
<1> QED BY <1>2, <1>3, <1>4, <1>6 DEF IInv

LEMMA CloseStep ==
    ASSUME IInv, Close
    PROVE  IInv'
<1>1. /\ UNCHANGED <<jobVars, file, fixtureVars, actionVars, disturbed>>
      /\ server' = "gone" /\ server # "off"
  BY DEF Close
<1>2. BoundInv' /\ ThreadInv'
  BY <1>1, FixtureFrame DEF actionVars, jobVars, Configured
<1>3. ActionInv' /\ OutcomeInv'
  BY <1>1, ActionFrame, JobFrame DEF actionVars
<1>4. TypeOK' /\ FileInv' /\ CalmInv'
  BY <1>1 DEF IInv, TypeOK, FileInv, CalmInv, jobVars, fixtureVars, actionVars, Passes
<1> QED BY <1>2, <1>3, <1>4 DEF IInv

LEMMA DieStep ==
    ASSUME IInv, Die
    PROVE  IInv'
<1>1. /\ UNCHANGED <<jobVars, file, fixtureVars, actionVars>>
      /\ server' = "gone" /\ disturbed' = TRUE /\ server # "off"
  BY DEF Die, After
<1>2. BoundInv' /\ ThreadInv'
  BY <1>1, FixtureFrame DEF actionVars, jobVars, Configured
<1>3. ActionInv' /\ OutcomeInv'
  BY <1>1, ActionFrame, JobFrame DEF actionVars
<1>4. TypeOK' /\ FileInv' /\ CalmInv'
  BY <1>1 DEF IInv, TypeOK, FileInv, CalmInv, jobVars, fixtureVars, actionVars
<1> QED BY <1>2, <1>3, <1>4 DEF IInv

-----------------------------------------------------------------------------
(* The steps of the job *)

\* A step that fails leaves a consistent record.
LEMMA FailFacts ==
    ASSUME IInv, step \in DOMAIN StepOf, Fail(StepOf[step]), UNCHANGED <<obtained, refused>>
    PROVE  /\ OutcomeInv'
           /\ outcome' \in [Required -> {"none", "success", "failure", "skipped"}]
           /\ step' \in {"cleanup", "policy"}
<1> DEFINE s == StepOf[step]
<1>1. s \in Required
  BY DEF StepOf, Required
<1>2. /\ outcome' = [t \in Required |-> IF t = s THEN "failure"
                                        ELSE IF t \in Skipped(s) THEN "skipped" ELSE outcome[t]]
      /\ step' = IF s = "cleanup" THEN "policy" ELSE "cleanup"
  BY DEF Fail
<1>3. outcome \in [Required -> {"none", "success", "failure", "skipped"}]
  BY DEF IInv, TypeOK
<1>4. outcome' \in [Required -> {"none", "success", "failure", "skipped"}]
  BY <1>2, <1>3
<1>5. step' \in {"cleanup", "policy"}
  BY <1>2
<1>6. \A t \in Required : outcome'[t] = "success" => outcome[t] = "success"
  BY <1>2
<1>7. outcome'["verify"] = "success" => outcome'["app_token"] = "success" /\ ~refused'
  <2>1. CASE s \in {"fixture", "app_token", "verify"}
    BY <1>2, <2>1 DEF Skipped, Required
  <2>2. CASE s = "cleanup"
    BY <1>2, <2>2 DEF Skipped, Required, IInv, OutcomeInv
  <2> QED BY <1>1, <2>1, <2>2 DEF Required
<1>8. step' = "cleanup" => outcome'["cleanup"] = "none"
  BY <1>2 DEF StepOf, Skipped, Required, IInv, OutcomeInv
<1> QED BY <1>4, <1>5, <1>6, <1>7, <1>8 DEF OutcomeInv, IInv, Required

\* A step that succeeds leaves one, if it has what later steps rest on.
LEMMA SucceedType ==
    ASSUME IInv, NEW s \in Required, NEW next, Succeed(s, next)
    PROVE  /\ outcome' \in [Required -> {"none", "success", "failure", "skipped"}]
           /\ outcome'[s] = "success"
           /\ \A t \in Required \ {s} : outcome'[t] = outcome[t]
           /\ step' = next
BY DEF IInv, TypeOK, Succeed

LEMMA TroubleStep ==
    ASSUME IInv, NEW s \in DOMAIN StepOf, Trouble(s)
    PROVE  IInv'
<1>1. /\ step = s /\ Fail(StepOf[s]) /\ disturbed' = TRUE /\ awaited' = 0
      /\ UNCHANGED <<polls, outputs, counted, serverVars, fixtureVars, obtained, refused>>
  BY DEF Trouble
<1>2. /\ OutcomeInv' /\ step' \in {"cleanup", "policy"}
      /\ outcome' \in [Required -> {"none", "success", "failure", "skipped"}]
  BY <1>1, FailFacts
<1>3. BoundInv' /\ ThreadInv'
  BY <1>1, FixtureFrame DEF Configured
<1>4. ActionInv'
  BY <1>1, ActionFrame
<1>5. TypeOK'
  BY <1>1, <1>2, SmokeAssumption DEF IInv, TypeOK, serverVars, fixtureVars, StepOf
<1>6. FileInv' /\ CalmInv'
  BY <1>1, <1>2 DEF IInv, FileInv, CalmInv, serverVars
<1> QED BY <1>2, <1>3, <1>4, <1>5, <1>6 DEF IInv

LEMMA CheckoutStep ==
    ASSUME IInv, Checkout
    PROVE  IInv'
<1>1. step = "checkout" /\ UNCHANGED <<polls, outputs, counted, file, fixtureVars, actionVars>>
  BY DEF Checkout
<1>2. BoundInv' /\ ThreadInv' /\ ActionInv'
  BY <1>1, FixtureFrame, ActionFrame DEF actionVars, Configured
<1>3. CASE step' = "poll" /\ server' = "bound" /\ UNCHANGED <<outcome, disturbed>>
  <2>1. TypeOK'
    BY <1>1, <1>3 DEF IInv, TypeOK, fixtureVars, actionVars, StepOf, After
  <2>2. OutcomeInv'
    BY <1>1, <1>3 DEF IInv, OutcomeInv, actionVars
  <2>3. FileInv' /\ CalmInv'
    BY <1>1, <1>3 DEF IInv, FileInv, CalmInv, fixtureVars
  <2> QED BY <1>2, <2>1, <2>2, <2>3 DEF IInv
<1>4. CASE /\ outcome' = [s \in Required |-> IF s = "cleanup" THEN "none" ELSE "skipped"]
           /\ step' = "cleanup" /\ disturbed' = TRUE /\ UNCHANGED server
  <2>1. TypeOK'
    <3>1. outcome' \in [Required -> {"none", "success", "failure", "skipped"}]
      BY <1>4
    <3>2. step' = "cleanup" /\ disturbed' = TRUE /\ UNCHANGED server
      BY <1>4
    <3> QED BY <1>1, <3>1, <3>2 DEF IInv, TypeOK, fixtureVars, actionVars, StepOf
  <2>2. OutcomeInv'
    BY <1>4 DEF OutcomeInv, Required
  <2>3. FileInv' /\ CalmInv'
    BY <1>1, <1>4 DEF IInv, FileInv, CalmInv
  <2> QED BY <1>2, <2>1, <2>2, <2>3 DEF IInv
<1> QED BY <1>3, <1>4 DEF Checkout

\* The steps of the job that change neither the server nor the fixture.
LEMMA LocalStep ==
    ASSUME IInv, UNCHANGED <<serverVars, fixtureVars, actionVars>>, Configured => Configured',
           OutcomeInv', CalmInv',
           step' \in {"policy"} \union DOMAIN StepOf \union Ended,
           outcome' \in [Required -> {"none", "success", "failure", "skipped"}],
           polls' \in 0..MaxPolls, outputs' \subseteq {"config", "key"},
           counted' \subseteq Routes, disturbed' \in BOOLEAN
    PROVE  IInv'
<1>1. BoundInv' /\ ThreadInv' /\ ActionInv'
  BY FixtureFrame, ActionFrame DEF actionVars
<1>2. TypeOK'
  BY DEF IInv, TypeOK, serverVars, fixtureVars, actionVars
<1>3. FileInv'
  BY DEF IInv, FileInv, serverVars, StepOf, Ended
<1> QED BY <1>1, <1>2, <1>3 DEF IInv

LEMMA PollStep ==
    ASSUME IInv, Poll
    PROVE  IInv'
<1>1. step = "poll" /\ UNCHANGED <<outputs, counted, serverVars, fixtureVars, actionVars>>
  BY DEF Poll
<1>2. CASE step' = "outputs" /\ UNCHANGED <<outcome, polls, disturbed>>
  <2>1. OutcomeInv' /\ CalmInv'
    BY <1>1, <1>2 DEF IInv, OutcomeInv, CalmInv, fixtureVars, actionVars
  <2> QED BY <1>1, <1>2, <2>1, LocalStep DEF IInv, TypeOK, Configured, StepOf
<1>3. CASE polls < MaxPolls /\ polls' = polls + 1 /\ UNCHANGED <<step, outcome, disturbed>>
  <2>1. OutcomeInv' /\ CalmInv'
    BY <1>1, <1>3 DEF IInv, OutcomeInv, CalmInv, fixtureVars, actionVars
  <2>2. polls' \in 0..MaxPolls
    BY <1>3, SmokeAssumption DEF IInv, TypeOK
  <2> QED BY <1>1, <1>3, <2>1, <2>2, LocalStep DEF IInv, TypeOK, Configured, StepOf
<1>4. CASE Fail("fixture") /\ disturbed' = TRUE /\ UNCHANGED polls
  <2>1. /\ OutcomeInv' /\ step' \in {"cleanup", "policy"}
        /\ outcome' \in [Required -> {"none", "success", "failure", "skipped"}]
    <3>1. step \in DOMAIN StepOf /\ StepOf[step] = "fixture"
      BY <1>1 DEF StepOf
    <3> QED BY <1>1, <1>4, <3>1, FailFacts DEF actionVars
  <2>2. CalmInv'
    BY <1>4 DEF CalmInv
  <2> QED BY <1>1, <1>4, <2>1, <2>2, LocalStep DEF IInv, TypeOK, Configured, StepOf
<1> QED BY <1>2, <1>3, <1>4 DEF Poll, Late

LEMMA OutputsStep ==
    ASSUME IInv, Outputs
    PROVE  IInv'
<1>1. /\ step = "outputs" /\ step' = "key"
      /\ outputs' = IF file = "full" THEN outputs \union {"config"} ELSE outputs
      /\ disturbed' = (disturbed \/ file # "full")
      /\ UNCHANGED <<outcome, polls, counted, serverVars, fixtureVars, actionVars>>
  BY DEF Outputs
<1>2. OutcomeInv'
  BY <1>1 DEF IInv, OutcomeInv, actionVars
<1>3. CalmInv'
  BY <1>1 DEF IInv, CalmInv, fixtureVars
<1>4. outputs' \subseteq {"config", "key"} /\ (Configured => Configured')
  BY <1>1 DEF IInv, TypeOK, Configured
<1>5. disturbed' \in BOOLEAN
  BY <1>1
<1> QED BY <1>1, <1>2, <1>3, <1>4, <1>5, LocalStep DEF IInv, TypeOK, StepOf

LEMMA KeyStep ==
    ASSUME IInv, Key
    PROVE  IInv'
<1>1. step = "key" /\ UNCHANGED <<polls, counted, serverVars, fixtureVars, actionVars>>
  BY DEF Key
<1>2. CASE /\ file = "full" /\ outputs' = outputs \union {"key"}
           /\ Succeed("fixture", "app_token") /\ UNCHANGED disturbed
  <2>1. /\ outcome' \in [Required -> {"none", "success", "failure", "skipped"}]
        /\ outcome'["fixture"] = "success"
        /\ \A t \in Required \ {"fixture"} : outcome'[t] = outcome[t]
        /\ step' = "app_token"
    BY <1>2, SucceedType DEF Required
  <2>2. OutcomeInv'
    BY <1>1, <2>1 DEF IInv, OutcomeInv, actionVars, Required
  <2>3. CalmInv'
    BY <1>1, <1>2, <2>1 DEF IInv, CalmInv, fixtureVars, serverVars
  <2>4. outputs' \subseteq {"config", "key"} /\ (Configured => Configured')
    BY <1>2 DEF IInv, TypeOK, Configured
  <2> QED BY <1>1, <1>2, <2>1, <2>2, <2>3, <2>4, LocalStep DEF IInv, TypeOK, StepOf
<1>3. CASE Fail("fixture") /\ disturbed' = TRUE /\ UNCHANGED outputs
  <2>1. /\ OutcomeInv' /\ step' \in {"cleanup", "policy"}
        /\ outcome' \in [Required -> {"none", "success", "failure", "skipped"}]
    <3>1. step \in DOMAIN StepOf /\ StepOf[step] = "fixture"
      BY <1>1 DEF StepOf
    <3> QED BY <1>1, <1>3, <3>1, FailFacts DEF actionVars
  <2>2. CalmInv'
    BY <1>3 DEF CalmInv
  <2> QED BY <1>1, <1>3, <2>1, <2>2, LocalStep DEF IInv, TypeOK, Configured, StepOf
<1> QED BY <1>2, <1>3 DEF Key

LEMMA ObtainStep ==
    ASSUME IInv, Obtain
    PROVE  IInv'
<1>1. /\ step = "app_token" /\ "app-token" \in obtained /\ Succeed("app_token", "verify")
      /\ UNCHANGED <<polls, outputs, counted, serverVars, fixtureVars, actionVars, disturbed>>
  BY DEF Obtain
<1>2. /\ outcome' \in [Required -> {"none", "success", "failure", "skipped"}]
      /\ outcome'["app_token"] = "success"
      /\ \A t \in Required \ {"app_token"} : outcome'[t] = outcome[t]
      /\ step' = "verify"
  BY <1>1, SucceedType DEF Required
<1>3. OutcomeInv'
  BY <1>1, <1>2 DEF IInv, OutcomeInv, actionVars, Required
<1>4. CalmInv'
  BY <1>1, <1>2 DEF IInv, CalmInv, fixtureVars, serverVars
<1> QED BY <1>1, <1>2, <1>3, <1>4, LocalStep DEF IInv, TypeOK, Configured, StepOf

\* When verify reads the counters, none of them is zero.
LEMMA VerifyStep ==
    ASSUME IInv, Verify
    PROVE  IInv'
<1>1. /\ step = "verify" /\ file = "full"
      /\ counted' = {r \in Routes : counts[r] >= 1} /\ step' = "status"
      /\ UNCHANGED <<outcome, polls, outputs, serverVars, fixtureVars, actionVars, disturbed>>
  BY DEF Verify
<1>2. obtained = Routes
  BY <1>1 DEF IInv, TypeOK, OutcomeInv, ActionInv, Routes
<1>3. \A r \in Routes : counts[r] >= 1
  BY <1>2 DEF IInv, ActionInv, ThreadInv
<1>4. OutcomeInv'
  BY <1>1, <1>3 DEF IInv, OutcomeInv, actionVars
<1>5. CalmInv'
  BY <1>1 DEF IInv, CalmInv, fixtureVars, serverVars
<1> QED BY <1>1, <1>4, <1>5, LocalStep DEF IInv, TypeOK, Configured, StepOf

LEMMA StatusStep ==
    ASSUME IInv, Status
    PROVE  IInv'
<1>1. /\ step = "status"
      /\ UNCHANGED <<polls, outputs, counted, serverVars, fixtureVars, actionVars, disturbed>>
  BY DEF Status
<1>2. CASE Accepts /\ Succeed("verify", "cleanup")
  <2>1. /\ outcome' \in [Required -> {"none", "success", "failure", "skipped"}]
        /\ outcome'["verify"] = "success"
        /\ \A t \in Required \ {"verify"} : outcome'[t] = outcome[t]
        /\ step' = "cleanup"
    BY <1>2, SucceedType DEF Required
  <2>2. ~refused
    BY <1>2 DEF IInv, ActionInv, Accepts
  <2>3. OutcomeInv'
    BY <1>1, <2>1, <2>2 DEF IInv, OutcomeInv, actionVars, Required
  <2>4. CalmInv'
    BY <1>1, <2>1 DEF IInv, CalmInv, OutcomeInv, fixtureVars, serverVars, Required
  <2> QED BY <1>1, <2>1, <2>3, <2>4, LocalStep DEF IInv, TypeOK, Configured, StepOf
<1>3. CASE ~Accepts /\ Fail("verify")
  <2>1. /\ OutcomeInv' /\ step' \in {"cleanup", "policy"}
        /\ outcome' \in [Required -> {"none", "success", "failure", "skipped"}]
    <3>1. step \in DOMAIN StepOf /\ StepOf[step] = "verify"
      BY <1>1 DEF StepOf
    <3> QED BY <1>1, <1>3, <3>1, FailFacts DEF actionVars
  <2>2. disturbed
    BY <1>1, <1>3 DEF IInv, OutcomeInv, CalmInv, Accepts
  <2>3. CalmInv'
    BY <1>1, <2>2 DEF CalmInv
  <2> QED BY <1>1, <2>1, <2>3, LocalStep DEF IInv, TypeOK, Configured, StepOf
<1> QED BY <1>2, <1>3 DEF Status

LEMMA CleanupStep ==
    ASSUME IInv, Cleanup
    PROVE  IInv'
<1>1. /\ step = "cleanup"
      /\ UNCHANGED <<polls, outputs, counted, serverVars, fixtureVars, actionVars, disturbed>>
  BY DEF Cleanup
<1>2. CASE Succeed("cleanup", "policy")
  <2>1. /\ outcome' \in [Required -> {"none", "success", "failure", "skipped"}]
        /\ outcome'["cleanup"] = "success"
        /\ \A t \in Required \ {"cleanup"} : outcome'[t] = outcome[t]
        /\ step' = "policy"
    BY <1>2, SucceedType DEF Required
  <2>2. OutcomeInv'
    BY <1>1, <2>1 DEF IInv, OutcomeInv, actionVars, Required
  <2>3. CalmInv'
    BY <1>1, <2>1 DEF IInv, CalmInv, fixtureVars, serverVars, Passes
  <2> QED BY <1>1, <2>1, <2>2, <2>3, LocalStep DEF IInv, TypeOK, Configured
<1>3. CASE step' = "stop" /\ UNCHANGED outcome
  <2>1. OutcomeInv' /\ CalmInv'
    BY <1>1, <1>3 DEF IInv, OutcomeInv, CalmInv, fixtureVars, actionVars, serverVars
  <2> QED BY <1>1, <1>3, <2>1, LocalStep DEF IInv, TypeOK, Configured, StepOf
<1>4. CASE file = "empty" /\ Fail("cleanup")
  <2>1. /\ OutcomeInv' /\ step' \in {"cleanup", "policy"}
        /\ outcome' \in [Required -> {"none", "success", "failure", "skipped"}]
    <3>1. step \in DOMAIN StepOf /\ StepOf[step] = "cleanup"
      BY <1>1 DEF StepOf
    <3> QED BY <1>1, <1>4, <3>1, FailFacts DEF actionVars
  <2>2. disturbed
    BY <1>1, <1>4 DEF IInv, CalmInv
  <2>3. CalmInv'
    BY <1>1, <2>2 DEF CalmInv
  <2> QED BY <1>1, <2>1, <2>3, LocalStep DEF IInv, TypeOK, Configured, StepOf
<1> QED BY <1>2, <1>3, <1>4 DEF Cleanup

LEMMA StopStep ==
    ASSUME IInv, Stop
    PROVE  IInv'
<1>1. /\ step = "stop" /\ Serving /\ server' = "stopping" /\ Succeed("cleanup", "policy")
      /\ UNCHANGED <<polls, outputs, counted, file, fixtureVars, actionVars, disturbed>>
  BY DEF Stop
<1>2. /\ outcome' \in [Required -> {"none", "success", "failure", "skipped"}]
      /\ outcome'["cleanup"] = "success"
      /\ \A t \in Required \ {"cleanup"} : outcome'[t] = outcome[t]
      /\ step' = "policy"
  BY <1>1, SucceedType DEF Required
<1>3. BoundInv' /\ ThreadInv' /\ ActionInv'
  BY <1>1, FixtureFrame, ActionFrame DEF actionVars, Configured
<1>4. OutcomeInv'
  BY <1>1, <1>2 DEF IInv, OutcomeInv, actionVars, Required
<1>5. CalmInv'
  BY <1>1, <1>2 DEF IInv, CalmInv, fixtureVars, Passes
<1>6. TypeOK'
  BY <1>1, <1>2 DEF IInv, TypeOK, fixtureVars, actionVars
<1>7. FileInv'
  BY <1>1, <1>2 DEF FileInv
<1> QED BY <1>3, <1>4, <1>5, <1>6, <1>7 DEF IInv

LEMMA PolicyStep ==
    ASSUME IInv, Policy
    PROVE  IInv'
<1>1. /\ step = "policy" /\ step' = IF Passes THEN "passed" ELSE "failed"
      /\ UNCHANGED <<outcome, polls, outputs, counted, serverVars, fixtureVars, actionVars, disturbed>>
  BY DEF Policy
<1>2. OutcomeInv'
  BY <1>1 DEF IInv, OutcomeInv, actionVars, Passes
<1>3. CalmInv'
  BY <1>1 DEF IInv, CalmInv, fixtureVars
<1> QED BY <1>1, <1>2, <1>3, LocalStep DEF IInv, TypeOK, Configured, Ended

-----------------------------------------------------------------------------
(* The handler threads and the action *)

\* A thread goes on: it keeps its route, and what it has written or rejected.
Onward(i, t) ==
    /\ threads' = [threads EXCEPT ![i] = t]
    /\ threads[i].at # "none" => t.route = threads[i].route
    /\ threads[i].at \in {"answering", "answered"} => t.at \in {"answering", "answered"}
    /\ threads[i].at \in {"refusing", "ended"} => t.at \in {"refusing", "ended"}

LEMMA OnwardFacts ==
    ASSUME IInv, NEW i \in Requests, NEW t \in Threads, Onward(i, t)
    PROVE  /\ threads' \in [Requests -> Threads]
           /\ threads'[i] = t
           /\ \A j \in Requests \ {i} : threads'[j] = threads[j]
           /\ \A r \in Routes : /\ Written(r) \subseteq Written(r)'
                                /\ Cardinality(Written(r)) \in Nat
                                /\ Cardinality(Written(r)') \in Nat
                                /\ Cardinality(Written(r)) <= Cardinality(Written(r)')
           /\ Rejected \subseteq Rejected'
           /\ Cardinality(Rejected) \in Nat /\ Cardinality(Rejected') \in Nat
           /\ Cardinality(Rejected) <= Cardinality(Rejected')
<1>1. threads \in [Requests -> Threads]
  BY DEF IInv, TypeOK
<1>2. /\ threads' \in [Requests -> Threads]
      /\ threads'[i] = t
      /\ \A j \in Requests \ {i} : threads'[j] = threads[j]
  BY <1>1 DEF Onward
<1>3. \A r \in Routes : /\ Written(r) \subseteq Written(r)'
                        /\ Written(r) \in SUBSET Requests /\ Written(r)' \in SUBSET Requests
  BY <1>2 DEF Onward, Written
<1>4. Rejected \subseteq Rejected' /\ Rejected \in SUBSET Requests /\ Rejected' \in SUBSET Requests
  BY <1>2 DEF Onward, Rejected
<1>5. \A S, T \in SUBSET Requests : S \subseteq T =>
          /\ Cardinality(S) \in Nat /\ Cardinality(T) \in Nat
          /\ Cardinality(S) <= Cardinality(T)
  BY CardFacts
<1> QED BY <1>2, <1>3, <1>4, <1>5

\* The bounds survive if the counters stay.
LEMMA OnwardBound ==
    ASSUME IInv, NEW i \in Requests, NEW t \in Threads, Onward(i, t), UNCHANGED counts,
           t.at = "writing" =>
               threads[i].at # "none" /\ t.read = counts[threads[i].route],
           \/ UNCHANGED errors
           \/ errors' = errors + 1 /\ i \notin Rejected /\ t.at = "refusing"
    PROVE  BoundInv'
<1>1. /\ threads' \in [Requests -> Threads]
      /\ threads'[i] = t
      /\ \A j \in Requests \ {i} : threads'[j] = threads[j]
      /\ \A r \in Routes : /\ Cardinality(Written(r)) \in Nat
                           /\ Cardinality(Written(r)') \in Nat
                           /\ Cardinality(Written(r)) <= Cardinality(Written(r)')
      /\ Rejected \subseteq Rejected'
      /\ Cardinality(Rejected) \in Nat /\ Cardinality(Rejected') \in Nat
      /\ Cardinality(Rejected) <= Cardinality(Rejected')
  BY OnwardFacts
<1>2. /\ counts \in [Routes -> 0..MaxRequests] /\ errors \in 0..MaxRequests
      /\ threads \in [Requests -> Threads] /\ MaxRequests \in Nat
  BY SmokeAssumption DEF IInv, TypeOK
<1>3. \A r \in Routes : counts'[r] <= Cardinality(Written(r)')
  BY <1>1, <1>2 DEF IInv, BoundInv
<1>4. ASSUME NEW j \in Requests, threads'[j].at = "writing"
      PROVE  threads'[j].read <= Cardinality(Written(threads[j].route)')
  <2>1. CASE j = i
    <3>1. t.route = threads[i].route /\ t.route \in Routes /\ t.read = counts[t.route]
      BY <1>1, <1>4, <2>1 DEF Onward, IInv, ThreadInv
    <3>2. counts[t.route] <= Cardinality(Written(t.route)')
      BY <1>3, <3>1
    <3>3. Written(threads[j].route)' = Written(t.route)'
      BY <1>1, <2>1 DEF Written
    <3> QED BY <1>1, <2>1, <3>1, <3>2, <3>3
  <2>2. CASE j # i
    <3>1. threads'[j] = threads[j] /\ threads[j].route \in Routes
      BY <1>1, <1>4, <2>2 DEF IInv, ThreadInv
    <3>2. PICK r \in Routes : r = threads[j].route
      BY <3>1
    <3>3. threads[j].read <= Cardinality(Written(r)) /\ threads[j].read \in Nat
      <4>1. Written(threads[j].route) = Written(r)
        BY <3>2
      <4>2. threads[j].read \in Nat
        BY <1>2 DEF Threads
      <4> QED BY <1>4, <3>1, <4>1, <4>2 DEF IInv, BoundInv
    <3>4. Written(threads[j].route)' = Written(r)'
      BY <3>1, <3>2 DEF Written
    <3> QED BY <1>1, <3>1, <3>3, <3>4
  <2> QED BY <2>1, <2>2
<1>5. errors' <= Cardinality(Rejected')
  <2>1. CASE UNCHANGED errors
    BY <1>1, <1>2, <2>1 DEF IInv, BoundInv
  <2>2. CASE errors' = errors + 1 /\ i \notin Rejected /\ t.at = "refusing"
    <3>1. i \in Rejected' \ Rejected
      BY <1>1, <2>2 DEF Rejected
    <3>2. Cardinality(Rejected) + 1 <= Cardinality(Rejected')
      BY <1>1, <3>1, CardFacts DEF Rejected
    <3> QED BY <1>1, <1>2, <2>2, <3>2 DEF IInv, BoundInv
  <2> QED BY <2>1, <2>2
<1> QED BY <1>3, <1>4, <1>5 DEF BoundInv

LEMMA CheckStep ==
    ASSUME IInv, NEW i \in Requests, Check(i)
    PROVE  IInv'
<1> DEFINE good == [threads[i] EXCEPT !.at = "counting"]
           bad == [threads[i] EXCEPT !.at = "refusing"]
<1>1. /\ threads[i].at = "queued" /\ threads[i] \in Threads /\ threads \in [Requests -> Threads]
      /\ UNCHANGED <<jobVars, serverVars, counts, actionVars, disturbed>>
      /\ counts \in [Routes -> 0..MaxRequests] /\ errors \in 0..MaxRequests
      /\ MaxRequests \in Nat
  BY SmokeAssumption DEF IInv, TypeOK, Check
<1>2. CASE threads[i].valid /\ Move(i, "counting") /\ UNCHANGED errors
  <2>1. good \in Threads /\ good.at = "counting" /\ good.route = threads[i].route /\ good.valid
    BY <1>1, <1>2 DEF Threads
  <2>2. Onward(i, good)
    BY <1>1, <1>2, <2>1 DEF Onward, Move
  <2> HIDE DEF good
  <2>3. /\ threads' \in [Requests -> Threads] /\ threads'[i] = good
        /\ \A j \in Requests \ {i} : threads'[j] = threads[j]
    BY <2>1, <2>2, OnwardFacts
  <2>4. BoundInv'
    BY <1>1, <1>2, <2>1, <2>2, OnwardBound
  <2>5. ThreadInv'
    BY <1>1, <1>2, <2>1, <2>3 DEF IInv, ThreadInv, Configured, jobVars, actionVars
  <2>6. ActionInv'
    BY <1>1, <1>2, <2>3 DEF IInv, ActionInv, actionVars
  <2>7. OutcomeInv'
    BY <1>1, JobFrame DEF actionVars
  <2>8. TypeOK' /\ FileInv'
    BY <1>1, <1>2, <2>3 DEF IInv, TypeOK, FileInv, jobVars, serverVars, actionVars
  <2>9. CalmInv'
    BY <1>1, <1>2, <2>1, <2>3 DEF IInv, CalmInv, jobVars, serverVars, Passes
  <2> QED BY <2>4, <2>5, <2>6, <2>7, <2>8, <2>9 DEF IInv
<1>3. CASE ~threads[i].valid /\ Move(i, "refusing") /\ errors' = errors + 1
  <2>1. bad \in Threads /\ bad.at = "refusing" /\ bad.route = threads[i].route
    BY <1>1, <1>3 DEF Threads
  <2>2. Onward(i, bad)
    BY <1>1, <1>3, <2>1 DEF Onward, Move
  <2> HIDE DEF bad
  <2>3. /\ threads' \in [Requests -> Threads] /\ threads'[i] = bad
        /\ \A j \in Requests \ {i} : threads'[j] = threads[j]
    BY <2>1, <2>2, OnwardFacts
  <2>4. BoundInv'
    <3>1. i \notin Rejected
      BY <1>1 DEF Rejected
    <3> QED BY <1>1, <1>3, <2>1, <2>2, <3>1, OnwardBound
  <2>5. errors' >= 1 /\ errors' \in Nat
    BY <1>1, <1>3
  <2>6. errors' \in 0..MaxRequests
    BY <1>1, <2>4, <2>5, BoundTypes
  <2>7. ThreadInv'
    BY <1>1, <2>1, <2>3, <2>5 DEF IInv, ThreadInv, Configured, jobVars, actionVars
  <2>8. ActionInv'
    BY <1>1, <2>3, <2>5 DEF IInv, ActionInv, actionVars
  <2>9. OutcomeInv'
    BY <1>1, JobFrame DEF actionVars
  <2>10. TypeOK' /\ FileInv'
    BY <1>1, <2>3, <2>6 DEF IInv, TypeOK, FileInv, jobVars, serverVars, actionVars
  <2>11. disturbed
    BY <1>1, <1>3 DEF IInv, CalmInv
  <2>12. CalmInv'
    BY <1>1, <2>11 DEF CalmInv
  <2> QED BY <2>4, <2>7, <2>8, <2>9, <2>10, <2>12 DEF IInv
<1> QED BY <1>2, <1>3 DEF Check

\* Steps of a thread that change neither the counters nor the errors, and by
\* which the action learns nothing.
LEMMA QuietStep ==
    ASSUME IInv, NEW i \in Requests, NEW t \in Threads, Onward(i, t),
           UNCHANGED <<jobVars, serverVars, counts, errors, actionVars, disturbed>>,
           threads[i].at \in {"queued", "counting"}, t.at \in {"writing", "ended"},
           t.valid = threads[i].valid,
           t.at = "writing" => /\ threads[i].at = "counting"
                               /\ t.read = counts[threads[i].route]
    PROVE  IInv'
<1>1. threads \in [Requests -> Threads] /\ t.route = threads[i].route
  BY DEF IInv, TypeOK, Onward
<1>2. /\ threads' \in [Requests -> Threads] /\ threads'[i] = t
      /\ \A j \in Requests \ {i} : threads'[j] = threads[j]
  BY OnwardFacts
<1>3. BoundInv'
  BY OnwardBound
<1>4. ThreadInv'
  BY <1>1, <1>2 DEF IInv, ThreadInv, Configured, jobVars, actionVars
<1>5. ActionInv'
  BY <1>1, <1>2 DEF IInv, ActionInv, actionVars
<1>6. OutcomeInv'
  BY JobFrame DEF actionVars
<1>7. TypeOK' /\ FileInv'
  BY <1>2 DEF IInv, TypeOK, FileInv, jobVars, serverVars, actionVars
<1>8. CalmInv'
  BY <1>1, <1>2 DEF IInv, CalmInv, jobVars, serverVars, Passes
<1> QED BY <1>3, <1>4, <1>5, <1>6, <1>7, <1>8 DEF IInv

LEMMA ReadCountStep ==
    ASSUME IInv, NEW i \in Requests, ReadCount(i)
    PROVE  IInv'
<1> DEFINE t == [threads[i] EXCEPT !.at = "writing", !.read = counts[threads[i].route]]
<1>1. /\ threads[i].at = "counting" /\ threads[i] \in Threads
      /\ threads' = [threads EXCEPT ![i] = t]
      /\ UNCHANGED <<jobVars, serverVars, counts, errors, actionVars, disturbed>>
  BY DEF IInv, TypeOK, ReadCount
<1>2. threads[i].route \in Routes /\ counts[threads[i].route] \in 0..MaxRequests
  BY <1>1 DEF IInv, TypeOK, ThreadInv
<1>3. /\ t \in Threads /\ t.at = "writing" /\ t.read = counts[threads[i].route]
      /\ t.route = threads[i].route /\ t.valid = threads[i].valid
  BY <1>1, <1>2 DEF Threads
<1>4. Onward(i, t)
  BY <1>1, <1>3 DEF Onward
<1> QED BY <1>1, <1>3, <1>4, QuietStep

LEMMA RaiseStep ==
    ASSUME IInv, NEW i \in Requests, Raise(i)
    PROVE  IInv'
<1> DEFINE t == [threads[i] EXCEPT !.at = "ended"]
<1>1. /\ threads[i].at = "queued" /\ threads[i] \in Threads
      /\ threads' = [threads EXCEPT ![i] = t]
      /\ UNCHANGED <<jobVars, serverVars, counts, errors, actionVars, disturbed>>
  BY DEF IInv, TypeOK, Raise, Move
<1>2. t \in Threads /\ t.at = "ended" /\ t.route = threads[i].route /\ t.valid = threads[i].valid
  BY <1>1 DEF Threads
<1>3. Onward(i, t)
  BY <1>1, <1>2 DEF Onward
<1> QED BY <1>1, <1>2, <1>3, QuietStep

\* A counter is written: it may lose increments, but is not zero.
LEMMA WriteCountStep ==
    ASSUME IInv, NEW i \in Requests, WriteCount(i)
    PROVE  IInv'
<1> DEFINE t == [threads[i] EXCEPT !.at = "answering"]
           n == threads[i].read + 1
<1>1. /\ threads[i].at = "writing" /\ threads[i] \in Threads
      /\ threads' = [threads EXCEPT ![i] = t]
      /\ counts' = [counts EXCEPT ![threads[i].route] = n]
      /\ UNCHANGED <<jobVars, serverVars, errors, actionVars, disturbed>>
  BY DEF IInv, TypeOK, WriteCount, Move, Incremented
<1>2. PICK r \in Routes : r = threads[i].route
  BY <1>1 DEF IInv, ThreadInv
<1>3. /\ t \in Threads /\ t.at = "answering" /\ t.route = r /\ t.valid = threads[i].valid
      /\ threads[i].read \in Nat /\ n \in Nat /\ n >= 1
  BY <1>1, <1>2 DEF Threads
<1>4. Onward(i, t)
  BY <1>1, <1>2, <1>3 DEF Onward
<1> HIDE DEF t
<1>5. /\ threads' \in [Requests -> Threads] /\ threads'[i] = t
      /\ \A j \in Requests \ {i} : threads'[j] = threads[j]
      /\ \A q \in Routes : /\ Cardinality(Written(q)) \in Nat
                           /\ Cardinality(Written(q)') \in Nat
                           /\ Cardinality(Written(q)) <= Cardinality(Written(q)')
      /\ Cardinality(Rejected) \in Nat /\ Cardinality(Rejected') \in Nat
      /\ Cardinality(Rejected) <= Cardinality(Rejected')
  BY <1>3, <1>4, OnwardFacts
<1>6. /\ counts \in [Routes -> 0..MaxRequests] /\ errors \in 0..MaxRequests
      /\ MaxRequests \in Nat /\ threads \in [Requests -> Threads]
  BY SmokeAssumption DEF IInv, TypeOK
<1>7. /\ counts' \in [Routes -> Nat] /\ counts'[r] = n
      /\ \A q \in Routes \ {r} : counts'[q] = counts[q]
  BY <1>1, <1>2, <1>3, <1>6
<1> HIDE DEF n
<1>8. n <= Cardinality(Written(r)')
  <2>1. threads[i].read <= Cardinality(Written(r))
    BY <1>1, <1>2 DEF IInv, BoundInv
  <2>2. i \in Written(r)' \ Written(r)
    BY <1>1, <1>3, <1>5 DEF Written
  <2>3. Written(r) \subseteq Written(r)'
    BY <1>3, <1>4, OnwardFacts
  <2>4. Cardinality(Written(r)) + 1 <= Cardinality(Written(r)')
    BY <2>2, <2>3, CardFacts DEF Written
  <2> QED BY <1>3, <1>5, <2>1, <2>4 DEF n
<1>9. BoundInv'
  <2>1. \A q \in Routes : counts'[q] <= Cardinality(Written(q)')
    <3>1. ASSUME NEW q \in Routes PROVE counts'[q] <= Cardinality(Written(q)')
      <4>1. CASE q = r
        BY <1>7, <1>8, <4>1
      <4>2. CASE q # r
        <5>1. counts[q] <= Cardinality(Written(q)) /\ counts[q] \in Nat
          BY <1>6 DEF IInv, BoundInv
        <5> QED BY <1>5, <1>7, <4>2, <5>1
      <4> QED BY <4>1, <4>2
    <3> QED BY <3>1
  <2>2. ASSUME NEW j \in Requests, threads'[j].at = "writing"
        PROVE  threads'[j].read <= Cardinality(Written(threads[j].route)')
    <3>1. j # i /\ threads'[j] = threads[j] /\ threads[j].route \in Routes
      BY <1>3, <1>5, <2>2 DEF IInv, ThreadInv
    <3>2. PICK q \in Routes : q = threads[j].route
      BY <3>1
    <3>3. threads[j].read <= Cardinality(Written(q)) /\ threads[j].read \in Nat
      <4>1. Written(threads[j].route) = Written(q)
        BY <3>2
      <4>2. threads[j].read \in Nat
        BY <1>6 DEF Threads
      <4> QED BY <2>2, <3>1, <4>1, <4>2 DEF IInv, BoundInv
    <3>4. Written(threads[j].route)' = Written(q)'
      BY <3>1, <3>2 DEF Written
    <3> QED BY <1>5, <3>1, <3>3, <3>4
  <2>3. errors' <= Cardinality(Rejected')
    BY <1>1, <1>5, <1>6 DEF IInv, BoundInv
  <2> QED BY <2>1, <2>2, <2>3 DEF BoundInv
<1>10. counts' \in [Routes -> 0..MaxRequests]
  BY <1>1, <1>6, <1>7, <1>9, BoundTypes
<1>11. \A q \in Routes : counts[q] >= 1 => counts'[q] >= 1
  BY <1>3, <1>7
<1>12. ThreadInv'
  BY <1>1, <1>2, <1>3, <1>5, <1>7, <1>11 DEF IInv, ThreadInv, Configured, jobVars, actionVars
<1>13. ActionInv'
  BY <1>1, <1>5 DEF IInv, ActionInv, actionVars
<1>14. OutcomeInv'
  BY <1>1, JobFrame DEF actionVars
<1>15. TypeOK' /\ FileInv'
  BY <1>1, <1>5, <1>10 DEF IInv, TypeOK, FileInv, jobVars, serverVars, actionVars
<1>16. CalmInv'
  BY <1>1, <1>3, <1>5 DEF IInv, CalmInv, jobVars, serverVars, Passes
<1> QED BY <1>9, <1>12, <1>13, <1>14, <1>15, <1>16 DEF IInv

LEMMA RespondStep ==
    ASSUME IInv, NEW i \in Requests, Respond(i)
    PROVE  IInv'
<1> DEFINE good == threads[i].at = "answering"
           t == [threads[i] EXCEPT !.at = IF good THEN "answered" ELSE "ended"]
<1>1. /\ threads[i].at \in {"answering", "refusing"}
      /\ threads[i] \in Threads /\ threads \in [Requests -> Threads]
      /\ threads' = [threads EXCEPT ![i] = t]
      /\ UNCHANGED <<jobVars, serverVars, counts, errors, disturbed>>
  BY DEF IInv, TypeOK, Respond, Move
<1>2. /\ t \in Threads /\ t.route = threads[i].route /\ t.valid = threads[i].valid
      /\ t.at = IF good THEN "answered" ELSE "ended"
  BY <1>1 DEF Threads
<1>3. Onward(i, t)
  BY <1>1, <1>2 DEF Onward
<1> HIDE DEF t
<1>4. /\ threads' \in [Requests -> Threads] /\ threads'[i] = t
      /\ \A j \in Requests \ {i} : threads'[j] = threads[j]
  BY <1>2, <1>3, OnwardFacts
<1>5. BoundInv'
  BY <1>1, <1>2, <1>3, OnwardBound
<1>6. /\ awaited' \in {0, awaited}
      /\ obtained \subseteq obtained' /\ obtained' \subseteq Routes
      /\ \A r \in obtained' \ obtained : good /\ r = threads[i].route /\ awaited' = 0
      /\ refused' \in BOOLEAN
      /\ refused' => refused \/ ~good
      /\ "app-token" \in obtained => refused' = refused
  <2>1. CASE /\ awaited = i /\ awaited' = 0
             /\ obtained' = IF good THEN obtained \union {threads[i].route} ELSE obtained
             /\ refused' = (refused \/ ~good)
    <3>1. "app-token" \notin obtained
      BY <2>1, SmokeAssumption DEF IInv, ActionInv, Requests
    <3>2. threads[i].route \in Routes
      BY <1>1 DEF IInv, ThreadInv
    <3>3. refused' \in BOOLEAN /\ (refused' => refused \/ ~good)
      BY <2>1
    <3>4. obtained' \subseteq Routes
      BY <2>1, <3>2 DEF IInv, TypeOK
    <3> QED BY <2>1, <3>1, <3>3, <3>4
  <2>2. CASE UNCHANGED actionVars
    BY <2>2 DEF IInv, TypeOK, actionVars
  <2> QED BY <2>1, <2>2 DEF Respond
<1>7. ThreadInv'
  BY <1>1, <1>2, <1>4, <1>6 DEF IInv, ThreadInv, Configured, jobVars
<1>8. ActionInv'
  <2>1. ASSUME NEW r \in obtained'
        PROVE  \E j \in Requests : /\ threads'[j].route = r /\ threads'[j].valid
                                   /\ threads'[j].at = "answered"
    <3>1. CASE r \in obtained
      <4>1. PICK j \in Requests : /\ threads[j].route = r /\ threads[j].valid
                                  /\ threads[j].at = "answered"
        BY <3>1 DEF IInv, ActionInv
      <4>2. j # i
        BY <1>1, <4>1
      <4> QED BY <1>4, <4>1, <4>2
    <3>2. CASE r \notin obtained
      <4>1. good /\ r = threads[i].route
        BY <1>6, <3>2
      <4>2. threads[i].valid
        BY <4>1 DEF IInv, ThreadInv
      <4> QED BY <1>2, <1>4, <4>1, <4>2
    <3> QED BY <3>1, <3>2
  <2>2. "app-token" \in obtained' => awaited' = 0 /\ "installation" \in obtained'
    <3>1. CASE "app-token" \in obtained
      BY <1>6, <3>1 DEF IInv, ActionInv
    <3>2. CASE "app-token" \in obtained' \ obtained
      <4>1. threads[i].route = "app-token" /\ awaited' = 0
        BY <1>6, <3>2
      <4>2. "installation" \in obtained
        BY <4>1 DEF IInv, ThreadInv
      <4> QED BY <1>6, <4>1, <4>2
    <3> QED BY <3>1, <3>2
  <2>3. refused' => errors' >= 1
    BY <1>1, <1>6 DEF IInv, ActionInv, ThreadInv
  <2> QED BY <2>1, <2>2, <2>3 DEF ActionInv
<1>9. OutcomeInv'
  BY <1>1, <1>6, JobFrame
<1>10. awaited' \in 0..MaxRequests
  BY <1>6, SmokeAssumption DEF IInv, TypeOK
<1>11. TypeOK' /\ FileInv'
  BY <1>1, <1>4, <1>6, <1>10 DEF IInv, TypeOK, FileInv, jobVars, serverVars
<1>12. CalmInv'
  BY <1>1, <1>2, <1>4 DEF IInv, CalmInv, jobVars, serverVars, Passes
<1> QED BY <1>5, <1>7, <1>8, <1>9, <1>11, <1>12 DEF IInv

LEMMA SendStep ==
    ASSUME IInv, NEW i \in Requests, NEW valid \in BOOLEAN, Send(i, valid)
    PROVE  IInv'
<1> DEFINE t == [route |-> NextRoute, valid |-> valid, at |-> "queued", read |-> 0]
<1>1. /\ Configured /\ "app-token" \notin obtained
      /\ threads[i] = NoThread
      /\ threads' = [threads EXCEPT ![i] = t]
      /\ awaited' = i
      /\ disturbed' = (disturbed \/ ~valid)
      /\ UNCHANGED <<jobVars, serverVars, counts, errors, obtained, refused>>
  BY DEF Send
<1>2. /\ NextRoute \in Routes /\ (NextRoute = "app-token" => "installation" \in obtained)
  BY DEF NextRoute, Routes
<1>3. /\ t \in Threads /\ t.route = NextRoute /\ t.valid = valid /\ t.at = "queued"
  BY <1>2, SmokeAssumption DEF Threads
<1>4. threads[i].at = "none"
  BY <1>1 DEF NoThread
<1>5. Onward(i, t)
  BY <1>1, <1>4 DEF Onward
<1> HIDE DEF t
<1>6. /\ threads' \in [Requests -> Threads] /\ threads'[i] = t
      /\ \A j \in Requests \ {i} : threads'[j] = threads[j]
  BY <1>3, <1>5, OnwardFacts
<1>7. BoundInv'
  BY <1>1, <1>3, <1>5, OnwardBound
<1>8. ThreadInv'
  BY <1>1, <1>2, <1>3, <1>6 DEF IInv, ThreadInv, Configured, jobVars
<1>9. ActionInv'
  <2>1. ASSUME NEW r \in obtained
        PROVE  \E j \in Requests : /\ threads'[j].route = r /\ threads'[j].valid
                                   /\ threads'[j].at = "answered"
    <3>1. PICK j \in Requests : /\ threads[j].route = r /\ threads[j].valid
                                /\ threads[j].at = "answered"
      BY <2>1 DEF IInv, ActionInv
    <3> QED BY <1>4, <1>6, <3>1
  <2> QED BY <1>1, <2>1 DEF IInv, ActionInv
<1>10. OutcomeInv'
  BY <1>1, JobFrame
<1>11. TypeOK' /\ FileInv'
  <2>1. awaited' \in 0..MaxRequests /\ disturbed' \in BOOLEAN
    BY <1>1, SmokeAssumption DEF Requests
  <2> QED BY <1>1, <1>6, <2>1 DEF IInv, TypeOK, FileInv, jobVars, serverVars
<1>12. CalmInv'
  BY <1>1, <1>3, <1>6 DEF IInv, CalmInv, jobVars, serverVars, Passes
<1> QED BY <1>7, <1>8, <1>9, <1>10, <1>11, <1>12 DEF IInv

LEMMA RetryStep ==
    ASSUME IInv, Retry
    PROVE  IInv'
<1>1. /\ awaited' = 0
      /\ UNCHANGED <<jobVars, serverVars, fixtureVars, obtained, refused, disturbed>>
  BY DEF Retry
<1>2. BoundInv' /\ ThreadInv' /\ ActionInv' /\ OutcomeInv'
  BY <1>1, FixtureFrame, ActionFrame, JobFrame DEF jobVars, Configured
<1>3. TypeOK' /\ FileInv'
  BY <1>1, SmokeAssumption DEF IInv, TypeOK, FileInv, jobVars, serverVars, fixtureVars
<1>4. CalmInv'
  BY <1>1 DEF IInv, CalmInv, jobVars, serverVars, fixtureVars, Passes
<1> QED BY <1>2, <1>3, <1>4 DEF IInv

LEMMA StutterStep ==
    ASSUME IInv, UNCHANGED vars
    PROVE  IInv'
<1>1. UNCHANGED <<jobVars, serverVars, fixtureVars, actionVars, disturbed>>
  BY DEF vars
<1>2. BoundInv' /\ ThreadInv' /\ ActionInv' /\ OutcomeInv'
  BY <1>1, FixtureFrame, ActionFrame, JobFrame DEF jobVars, actionVars, Configured
<1>3. TypeOK' /\ FileInv'
  BY <1>1 DEF IInv, TypeOK, FileInv, jobVars, serverVars, fixtureVars, actionVars
<1>4. CalmInv'
  BY <1>1 DEF IInv, CalmInv, jobVars, serverVars, fixtureVars, Passes
<1> QED BY <1>2, <1>3, <1>4 DEF IInv

LEMMA NextStep ==
    ASSUME IInv, Next
    PROVE  IInv'
<1>1. CASE Job
  <2>1. GiveUp => \E s \in DOMAIN StepOf : Trouble(s)
    BY DEF GiveUp, StepOf
  <2> QED
    BY <1>1, <2>1, CheckoutStep, PollStep, OutputsStep, KeyStep, ObtainStep, VerifyStep,
       StatusStep, CleanupStep, StopStep, PolicyStep, TroubleStep DEF Job
<1>2. CASE \E s \in DOMAIN StepOf : Trouble(s)
  BY <1>2, TroubleStep
<1>3. CASE Advance \/ Close \/ Die \/ Retry
  BY <1>3, AdvanceStep, CloseStep, DieStep, RetryStep
<1>4. CASE \E i \in Requests : Thread(i) \/ Raise(i) \/ Send(i, TRUE) \/ Send(i, FALSE)
  BY <1>4, CheckStep, ReadCountStep, WriteCountStep, RespondStep, RaiseStep, SendStep DEF Thread
<1> QED BY <1>1, <1>2, <1>3, <1>4 DEF Next

\* Every reachable state satisfies the invariant.
THEOREM Invariance == Spec => []IInv
<1>1. Init => IInv
  BY InitIInv
<1>2. IInv /\ [Next]_vars => IInv'
  BY NextStep, StutterStep
<1> QED BY <1>1, <1>2, PTL DEF Spec

-----------------------------------------------------------------------------
(* The properties *)

\* Type correctness: the counters and the errors of the fixture are bounded by
\* the requests that were sent.
THEOREM TypeCorrect == Spec => []TypeOK
<1>1. IInv => TypeOK
  BY DEF IInv
<1> QED BY <1>1, Invariance, PTL

\* The job, ci-action-smoke.yml, passes only on requests that were checked and
\* answered, none refused, and on a complete configuration.
THEOREM PassIsEarned == Spec => []PassedIsEarned
<1>1. IInv => PassedIsEarned
  <2> SUFFICES ASSUME IInv, step = "passed"
               PROVE  /\ \A r \in Routes : \E i \in Requests :
                             /\ threads[i].route = r /\ threads[i].valid
                             /\ threads[i].at = "answered"
                      /\ ~refused
                      /\ Configured
    BY DEF PassedIsEarned
  <2>1. outcome["verify"] = "success"
    BY DEF IInv, OutcomeInv, Passes, Required
  <2>2. ~refused /\ Routes \subseteq obtained
    BY <2>1 DEF IInv, OutcomeInv, ActionInv, Routes
  <2>3. \A r \in Routes : \E i \in Requests :
            threads[i].route = r /\ threads[i].valid /\ threads[i].at = "answered"
    BY <2>2 DEF IInv, ActionInv
  <2>4. Configured
    BY <2>3 DEF IInv, ThreadInv, Routes
  <2> QED BY <2>2, <2>3, <2>4
<1> QED BY <1>1, Invariance, PTL

\* The job does not fail for nothing: a counter that a thread has written is
\* never zero again, so that requests sent again and increments lost between two
\* threads cannot make verify fail.
THEOREM FailureHasReason == Spec => []FailsForReason
<1>1. IInv => FailsForReason
  BY DEF IInv, CalmInv, FailsForReason
<1> QED BY <1>1, Invariance, PTL
=============================================================================
