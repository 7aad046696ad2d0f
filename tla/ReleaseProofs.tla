---------------------------- MODULE ReleaseProofs ----------------------------
(* The safety properties of Release, and that it implements VersionRegistry, *)
(* for every number of runs, attempts, commits and versions, and for every   *)
(* number of runs that the concurrency group lets run at once.               *)
EXTENDS Release, SequenceTheorems, TLAPS

AfterPlan == Steps \ {"plan"}
AfterGate == AfterPlan \ {"preflight", "e2e", "gate"}

\* A version with a tag that is not the run's.
Conflict(r) ==
    version[r] # 0 /\ tag[version[r]] # NoTag /\ ~Verifies(version[r], trigger[r].sha)

\* The event of a run names commits that exist.
TriggerInv(r) ==
    IF pc[r] = "none" THEN version[r] = 0
    ELSE /\ trigger[r] \in Triggers
         /\ trigger[r].sha \in 1..Len(main)
         /\ trigger[r].before \in 0..Len(main)

\* Outputs of release_intent come from a plan that said so, and the results of
\* later jobs from runs that have them.
OutputInv(r) ==
    /\ version[r] = 0 => preflight[r] = "none"
    /\ preflight[r] = "none" => e2e[r] = "none"
    /\ version[r] # 0 =>
          /\ pc[r] # "none"
          /\ ~PlanRejects(trigger[r])
          /\ version[r] = DeclaredAt(trigger[r].sha)
          /\ version[r] # DeclaredAt(Baseline(trigger[r]))
    /\ pc[r] \in AfterPlan \union {"succeeded"} => version[r] # 0
    /\ pc[r] = "plan" => version[r] = 0
    /\ pc[r] = "e2e" => preflight[r] # "none"

\* A result is backed by evidence, and the gate is passed with both results.
ProofInv(r) ==
    /\ preflight[r] = "success" => \E e \in evidence : e.job = "preflight" /\ e.run = r
    /\ e2e[r] = "success" => \E e \in evidence : e.job = "e2e" /\ e.run = r
    /\ pc[r] \in AfterGate \union {"succeeded"} => Proven(r)

\* From the verification in publish on, the tag is the run's.
VerifiedInv(r) ==
    /\ pc[r] \in {"get_release", "post", "succeeded"} => Verifies(version[r], trigger[r].sha)
    /\ pc[r] = "succeeded" => release[version[r]] \in {"foreign", "published"}

KeyInv(r) == r \in key => pc[r] \in {"push", "verify_push"} \union CleanupSteps

\* Where an attempt without failures can be, and why it can fail.
UndisturbedInv(r) ==
    r \notin disturbed =>
        /\ pc[r] = "queued" =>
              preflight[r] \in {"none", "success"} /\ e2e[r] \in {"none", "success"}
        /\ pc[r] = "e2e" => preflight[r] = "success"
        /\ pc[r] = "gate" => Validated(r)
        /\ pc[r] = "push" /\ tries[r] # 1 => Conflict(r)
        /\ pc[r] = "verify_push" => tag[version[r]] # NoTag
        /\ pc[r] = "cleanup_failed" => Conflict(r)
        /\ pc[r] \in {"cleanup_ok", "verify_tag"} => Verifies(version[r], trigger[r].sha)
        /\ pc[r] = "get_release" /\ tries[r] # 1 =>
              release[version[r]] \in {"foreign", "published"}
        /\ pc[r] = "post" => tries[r] = 1
        /\ pc[r] = "failed" => PlanRejects(trigger[r]) \/ Conflict(r)

RunInv(r) ==
    TriggerInv(r) /\ OutputInv(r) /\ ProofInv(r) /\ VerifiedInv(r) /\ KeyInv(r)
    /\ UndisturbedInv(r)

\* Evidence belongs to runs that exist.
EvidenceInv == \A e \in evidence : pc[e.run] # "none"

\* A tag is for a commit of main; one that a run pushed is for its proven commit,
\* and verified if the attempt that pushed it is still undisturbed.
TagInv(v) ==
    tag[v] # NoTag =>
        /\ tag[v].target \in 1..Len(main)
        /\ tag[v].by # 0 =>
              /\ pc[tag[v].by] # "none"
              /\ Proven(tag[v].by)
              /\ tag[v].target = trigger[tag[v].by].sha
              /\ tag[v].made <= attempt[tag[v].by]
              /\ (tag[v].made = attempt[tag[v].by] /\ tag[v].by \notin disturbed) =>
                    tag[v].annotated /\ tag[v].verified

\* A published version has a tag, for the proven commit of a run that declares it.
ReleaseInv(v) ==
    release[v] = "published" =>
        /\ tag[v] # NoTag
        /\ \E r \in Runs : /\ pc[r] # "none"
                           /\ Proven(r)
                           /\ trigger[r].sha = tag[v].target
                           /\ main[trigger[r].sha] = v

\* The queue holds runs that are queued, each once.
QueueInv ==
    /\ \A i \in 1..Len(queue) : pc[queue[i]] = "queued"
    /\ \A i, j \in 1..Len(queue) : i # j => queue[i] # queue[j]

\* The inductive invariant.
IInv ==
    /\ TypeOK
    /\ QueueInv
    /\ \A r \in Runs : RunInv(r)
    /\ EvidenceInv
    /\ \A v \in Versions : TagInv(v) /\ ReleaseInv(v)

-----------------------------------------------------------------------------
(* What no step takes back *)

\* Commits, evidence, tags and published releases stay.
Grows ==
    /\ Len(main) <= Len(main')
    /\ \A c \in 1..Len(main) : main'[c] = main[c]
    /\ evidence \subseteq evidence'
    /\ \A v \in Versions :
          /\ tag[v] # NoTag => tag'[v] = tag[v]
          /\ release[v] \in {"foreign", "published"} => release'[v] = release[v]

\* The step is not one of run q.
Frame(q) ==
    /\ pc'[q] = pc[q] /\ trigger'[q] = trigger[q] /\ attempt'[q] = attempt[q]
    /\ version'[q] = version[q] /\ preflight'[q] = preflight[q] /\ e2e'[q] = e2e[q]
    /\ tries'[q] = tries[q]
    /\ q \in key' <=> q \in key
    /\ q \in disturbed' <=> q \in disturbed

\* A run that exists keeps its event, forgets a failure only in a new attempt and
\* leaves the queue only by its head.
Advances(q) ==
    pc[q] # "none" =>
        /\ pc'[q] # "none"
        /\ trigger'[q] = trigger[q]
        /\ attempt[q] <= attempt'[q]
        /\ attempt'[q] = attempt[q] /\ q \notin disturbed' => q \notin disturbed
        /\ pc[q] = "queued" /\ queue' = queue => pc'[q] = "queued"

\* Commits that exist are declared as before, so plan says of an event what it said.
LEMMA PlanStable ==
    ASSUME TypeOK, TypeOK', Grows, NEW t \in Triggers, t.sha \in 1..Len(main),
           t.before \in 0..Len(main)
    PROVE  /\ DeclaredAt(t.sha)' = DeclaredAt(t.sha)
           /\ DeclaredAt(Baseline(t))' = DeclaredAt(Baseline(t))
           /\ PlanRejects(t)' <=> PlanRejects(t)
<1> DEFINE b == Baseline(t)
<1>1. Len(main) \in Nat /\ Len(main') \in Nat
  BY DEF TypeOK, Commits, Grows
<1>2. DeclaredAt(t.sha)' = DeclaredAt(t.sha)
  BY <1>1 DEF DeclaredAt, Grows
<1>3. b \in 0..Len(main)
  BY <1>1 DEF Baseline, Triggers
<1>4. DeclaredAt(Baseline(t))' = DeclaredAt(Baseline(t))
  <2>1. Baseline(t)' = Baseline(t)
    BY DEF Baseline
  <2> HIDE DEF b
  <2>2. DeclaredAt(b)' = DeclaredAt(b)
    BY <1>1, <1>3, <2>1 DEF DeclaredAt, Grows, b
  <2> QED BY <2>1, <2>2 DEF b
<1> QED BY <1>2, <1>4 DEF PlanRejects
LEMMA EventStable ==
    ASSUME TypeOK, TypeOK', Grows, NEW q \in Runs, pc[q] # "none", TriggerInv(q),
           pc'[q] # "none", trigger'[q] = trigger[q]
    PROVE  /\ TriggerInv(q)'
           /\ DeclaredAt(trigger[q].sha)' = DeclaredAt(trigger[q].sha)
           /\ DeclaredAt(Baseline(trigger[q]))' = DeclaredAt(Baseline(trigger[q]))
           /\ PlanRejects(trigger[q])' <=> PlanRejects(trigger[q])
<1> DEFINE t == trigger[q]
<1>1. t \in Triggers /\ t.sha \in 1..Len(main) /\ t.before \in 0..Len(main)
  BY DEF TriggerInv
<1>2. trigger[q]' = t
  OBVIOUS
<1>3. Len(main) \in Nat /\ Len(main') \in Nat
  BY DEF TypeOK
<1>4. TriggerInv(q)'
  BY <1>1, <1>3 DEF TriggerInv, Grows
<1> HIDE DEF t
<1> QED BY <1>1, <1>2, <1>4, PlanStable

\* A step of others leaves what is known of a run true.
LEMMA RunStable ==
    ASSUME TypeOK, TypeOK', Grows, NEW q \in Runs, RunInv(q), Frame(q)
    PROVE  RunInv(q)'
<1> DEFINE t == trigger[q]
           v == version[q]
<1>1. v \in Versions \union {0}
  BY DEF TypeOK
<1>2. Proven(q) => Proven(q)'
  BY DEF Proven, Grows
<1>3. v # 0 /\ Verifies(v, t.sha) => Verifies(v, t.sha)'
  BY <1>1 DEF Verifies, Grows, Frame
<1>4. Conflict(q) => Conflict(q)'
  BY <1>1 DEF Conflict, Verifies, Grows, Frame
<1>5. pc[q] # "none" =>
          /\ TriggerInv(q)'
          /\ DeclaredAt(trigger[q].sha)' = DeclaredAt(t.sha)
          /\ DeclaredAt(Baseline(trigger[q]))' = DeclaredAt(Baseline(t))
          /\ PlanRejects(trigger[q])' <=> PlanRejects(t)
  BY EventStable DEF RunInv, Frame
<1>6. TriggerInv(q)'
  BY <1>5 DEF RunInv, TriggerInv, Frame
<1>7. OutputInv(q)'
  BY <1>5 DEF RunInv, OutputInv, Frame
<1>8. ProofInv(q)'
  BY <1>2 DEF RunInv, ProofInv, Frame, Grows
<1>9. VerifiedInv(q)'
  <2> SUFFICES ASSUME pc[q] \in {"get_release", "post", "succeeded"} PROVE VerifiedInv(q)'
    BY DEF VerifiedInv, Frame
  <2>1. v # 0 /\ v \in Versions
    BY <1>1 DEF RunInv, OutputInv, AfterPlan, Steps
  <2> QED BY <1>3, <2>1 DEF RunInv, VerifiedInv, Frame, Grows, Verifies
<1>10. KeyInv(q)'
  BY DEF RunInv, KeyInv, Frame
<1>11. UndisturbedInv(q)'
  <2> SUFFICES ASSUME q \notin disturbed PROVE UndisturbedInv(q)'
    BY DEF UndisturbedInv, Frame
  <2> USE DEF RunInv, UndisturbedInv, Frame
  <2>1. (pc[q] = "queued" =>
              preflight[q] \in {"none", "success"} /\ e2e[q] \in {"none", "success"})'
    OBVIOUS
  <2>2. (pc[q] = "e2e" => preflight[q] = "success")'
    OBVIOUS
  <2>3. (pc[q] = "gate" => Validated(q))'
    BY DEF Validated, ValidationPassed
  <2>4. (/\ pc[q] = "push" /\ tries[q] # 1 => Conflict(q)
         /\ pc[q] = "cleanup_failed" => Conflict(q))'
    BY <1>4
  <2>5. (pc[q] = "verify_push" => tag[version[q]] # NoTag)'
    BY <1>1 DEF OutputInv, AfterPlan, Steps, Grows
  <2>6. (pc[q] \in {"cleanup_ok", "verify_tag"} => Verifies(version[q], trigger[q].sha))'
    <3> SUFFICES ASSUME pc[q] \in {"cleanup_ok", "verify_tag"} PROVE Verifies(version[q], trigger[q].sha)'
      OBVIOUS
    <3>1. v # 0 /\ v \in Versions
      BY <1>1 DEF OutputInv, AfterPlan, Steps
    <3> QED BY <1>3, <3>1 DEF Verifies
  <2>7. (pc[q] = "get_release" /\ tries[q] # 1 => release[version[q]] \in {"foreign", "published"})'
    BY <1>1 DEF OutputInv, AfterPlan, Steps, Grows
  <2>8. (pc[q] = "post" => tries[q] = 1)'
    OBVIOUS
  <2>9. (pc[q] = "failed" => PlanRejects(trigger[q]) \/ Conflict(q))'
    BY <1>4, <1>5
  <2> QED BY <2>1, <2>2, <2>3, <2>4, <2>5, <2>6, <2>7, <2>8, <2>9 DEF UndisturbedInv
<1> QED BY <1>6, <1>7, <1>8, <1>9, <1>10, <1>11 DEF RunInv
\* A step that leaves a tag alone leaves what is known of it true.
LEMMA TagStable ==
    ASSUME TypeOK, TypeOK', Grows, \A q \in Runs : Advances(q),
           NEW v \in Versions, TagInv(v), tag'[v] = tag[v]
    PROVE  TagInv(v)'
<1> SUFFICES ASSUME tag[v] # NoTag PROVE TagInv(v)'
  BY DEF TagInv
<1>1. tag[v] \in Tags
  BY DEF TypeOK
<1>2. (tag[v].target \in 1..Len(main))'
  <2>1. Len(main) \in Nat /\ Len(main') \in Nat
    BY DEF TypeOK
  <2> QED BY <2>1 DEF TagInv, Grows
<1> SUFFICES ASSUME tag[v].by # 0
             PROVE  (/\ pc[tag[v].by] # "none"
                     /\ Proven(tag[v].by)
                     /\ tag[v].target = trigger[tag[v].by].sha
                     /\ tag[v].made <= attempt[tag[v].by]
                     /\ (tag[v].made = attempt[tag[v].by] /\ tag[v].by \notin disturbed) =>
                           tag[v].annotated /\ tag[v].verified)'
  BY <1>2 DEF TagInv
<1> DEFINE by == tag[v].by
<1>3. by \in Runs /\ by' = by
  BY <1>1 DEF Tags
<1>4. (pc[by] # "none" /\ tag[v].target = trigger[by].sha)'
  BY <1>3 DEF TagInv, Advances
<1>5. Proven(by)'
  BY <1>3 DEF TagInv, Proven, Grows
<1>6. (/\ tag[v].made <= attempt[by]
       /\ (tag[v].made = attempt[by] /\ by \notin disturbed) =>
             tag[v].annotated /\ tag[v].verified)'
  <2> DEFINE made == tag[v].made
  <2>1. /\ made \in Int /\ attempt[by] \in Int /\ attempt'[by] \in Int
        /\ made' = made
    <3>1. MaxAttempts \in Int
      BY ReleaseAssumption
    <3>2. made \in 0..MaxAttempts
      BY <1>1 DEF Tags
    <3>3. attempt[by] \in 0..MaxAttempts /\ attempt'[by] \in 0..MaxAttempts
      BY <1>3 DEF TypeOK
    <3>4. made' = made
      OBVIOUS
    <3> QED BY <3>1, <3>2, <3>3, <3>4
  <2>2. /\ made <= attempt[by]
        /\ made = attempt[by] /\ by \notin disturbed => tag[v].annotated /\ tag[v].verified
        /\ pc[by] # "none"
    BY DEF TagInv
  <2>3. /\ attempt[by] <= attempt'[by]
        /\ attempt'[by] = attempt[by] /\ by \notin disturbed' => by \notin disturbed
    BY <1>3, <2>2 DEF Advances
  <2> QED BY <1>3, <2>1, <2>2, <2>3
<1> QED BY <1>3, <1>4, <1>5, <1>6

\* Likewise for the release of a version that the step does not publish.
LEMMA ReleaseStable ==
    ASSUME TypeOK, TypeOK', Grows, \A q \in Runs : Advances(q),
           NEW v \in Versions, TagInv(v), ReleaseInv(v),
           release'[v] = "published" => release[v] = "published"
    PROVE  ReleaseInv(v)'
<1> SUFFICES ASSUME release[v] = "published" PROVE ReleaseInv(v)'
  BY DEF ReleaseInv
<1>1. tag[v] # NoTag /\ tag'[v] = tag[v]
  BY DEF ReleaseInv, Grows
<1>2. PICK r \in Runs : /\ pc[r] # "none" /\ Proven(r)
                        /\ trigger[r].sha = tag[v].target
                        /\ main[trigger[r].sha] = v
  BY DEF ReleaseInv
<1>3. pc'[r] # "none" /\ trigger'[r] = trigger[r]
  BY <1>2 DEF Advances
<1>4. Proven(r)'
  BY <1>2 DEF Proven, Grows
<1>5. main'[trigger[r].sha] = v
  BY <1>1, <1>2 DEF TagInv, Grows
<1> QED BY <1>1, <1>2, <1>3, <1>4, <1>5 DEF ReleaseInv

\* What an action has to show: of the runs it moves, of the tags it creates, of the
\* releases it publishes and of the evidence it adds.
LEMMA StepKeepsIInv ==
    ASSUME IInv, TypeOK', Grows, queue' = queue \/ QueueInv',
           \A q \in Runs : Frame(q) \/ (RunInv(q)' /\ Advances(q)),
           \A e \in evidence' : e \in evidence \/ pc'[e.run] # "none",
           \A v \in Versions : tag'[v] = tag[v] \/ TagInv(v)',
           \A v \in Versions :
              (release'[v] = "published" => release[v] = "published") \/ ReleaseInv(v)'
    PROVE  IInv'
<1>1. \A q \in Runs : RunInv(q)'
  BY RunStable DEF IInv
<1>2. \A q \in Runs : Advances(q)
  <2> SUFFICES ASSUME NEW q \in Runs, Frame(q) PROVE Advances(q)
    OBVIOUS
  <2>1. attempt[q] \in Int
    BY ReleaseAssumption DEF IInv, TypeOK
  <2> QED BY <2>1 DEF Frame, Advances
<1>3. EvidenceInv'
  <2> SUFFICES ASSUME NEW e \in evidence' PROVE pc'[e.run] # "none"
    BY DEF EvidenceInv
  <2>1. CASE e \in evidence
    BY <1>2, <2>1 DEF IInv, TypeOK, EvidenceInv, Advances
  <2> QED BY <2>1
<1>4. \A v \in Versions : TagInv(v)'
  BY <1>2, TagStable DEF IInv
<1>5. \A v \in Versions : ReleaseInv(v)'
  BY <1>2, ReleaseStable DEF IInv
<1>6. QueueInv'
  <2> SUFFICES ASSUME queue' = queue PROVE QueueInv'
    OBVIOUS
  <2>1. \A i \in 1..Len(queue) : queue[i] \in Runs
    BY DEF IInv, TypeOK
  <2> QED BY <1>2, <2>1 DEF IInv, QueueInv, Advances
<1> QED BY <1>1, <1>3, <1>4, <1>5, <1>6 DEF IInv

\* What a step of run r keeps when it keeps the run's event, attempt and failures.
KeepsEvent(r) ==
    /\ Advances(r)
    /\ TriggerInv(r)'
    /\ DeclaredAt(trigger[r].sha)' = DeclaredAt(trigger[r].sha)
    /\ DeclaredAt(Baseline(trigger[r]))' = DeclaredAt(Baseline(trigger[r]))
    /\ PlanRejects(trigger[r])' <=> PlanRejects(trigger[r])
    /\ Proven(r) => Proven(r)'
    /\ version'[r] = version[r] =>
          /\ Conflict(r) => Conflict(r)'
          /\ version[r] # 0 /\ Verifies(version[r], trigger[r].sha) =>
                Verifies(version[r], trigger[r].sha)'

LEMMA StepKeepsEvent ==
    ASSUME IInv, TypeOK', Grows, NEW r \in Runs, pc[r] # "none", pc'[r] # "none",
           trigger'[r] = trigger[r], attempt'[r] = attempt[r], disturbed \subseteq disturbed',
           pc[r] # "queued" \/ queue' # queue
    PROVE  KeepsEvent(r)
<1> USE DEF IInv
<1>1. attempt[r] \in Int
  BY ReleaseAssumption DEF TypeOK
<1>2. Advances(r)
  BY <1>1 DEF Advances
<1>3. Proven(r) => Proven(r)'
  BY DEF Proven, Grows
<1>4. version[r] \in Versions \union {0}
  BY DEF TypeOK
<1>5. version'[r] = version[r] =>
          /\ Conflict(r) => Conflict(r)'
          /\ version[r] # 0 /\ Verifies(version[r], trigger[r].sha) =>
                Verifies(version[r], trigger[r].sha)'
  BY <1>4 DEF Conflict, Verifies, Grows
<1> QED BY <1>2, <1>3, <1>5, EventStable DEF KeepsEvent, RunInv

-----------------------------------------------------------------------------
(* The steps of a run *)

\* The gate is passed with both results only.
LEMMA GateKeeps ==
    ASSUME IInv, NEW r \in Runs, Gate(r)
    PROVE  IInv'
<1> USE DEF IInv, Gate, Go, resultVars, githubVars
<1>1. TypeOK'
  BY DEF TypeOK, Steps, Ended
<1>2. Grows
  BY DEF TypeOK, Grows
<1>3. \A q \in Runs \ {r} : Frame(q)
  BY DEF TypeOK, Frame
<1>4. RunInv(r)' /\ Advances(r)
  <2> USE DEF RunInv, TypeOK
  <2>1. KeepsEvent(r)
    BY <1>1, <1>2, StepKeepsEvent
  <2> USE <2>1 DEF KeepsEvent
  <2>2. OutputInv(r)'
    BY DEF OutputInv, AfterPlan, Steps
  <2>3. ProofInv(r)'
    BY DEF ProofInv, AfterGate, AfterPlan, Steps, Validated, ValidationPassed, Proven
  <2>4. VerifiedInv(r)'
    BY DEF VerifiedInv
  <2>5. KeyInv(r)'
    BY DEF KeyInv, CleanupSteps
  <2>6. UndisturbedInv(r)'
    BY DEF UndisturbedInv, Validated, ValidationPassed
  <2> QED BY <2>2, <2>3, <2>4, <2>5, <2>6
<1> QED BY <1>1, <1>2, <1>3, <1>4, StepKeepsIInv

\* The selected graph changes nothing that the model keeps.
LEMMA GraphKeeps ==
    ASSUME IInv, NEW r \in Runs, Graph(r)
    PROVE  IInv'
<1> USE DEF IInv, Graph, Go, resultVars, githubVars
<1>1. TypeOK'
  BY DEF TypeOK, Steps, Ended
<1>2. Grows
  BY DEF TypeOK, Grows
<1>3. \A q \in Runs \ {r} : Frame(q)
  BY DEF TypeOK, Frame
<1>4. RunInv(r)' /\ Advances(r)
  <2> USE DEF RunInv, TypeOK
  <2>1. KeepsEvent(r)
    BY <1>1, <1>2, StepKeepsEvent
  <2> USE <2>1 DEF KeepsEvent
  <2>2. OutputInv(r)'
    BY DEF OutputInv, AfterPlan, Steps
  <2>3. ProofInv(r)'
    BY DEF ProofInv, AfterGate, AfterPlan, Steps
  <2>4. VerifiedInv(r)'
    BY DEF VerifiedInv
  <2>5. KeyInv(r)'
    BY DEF KeyInv, CleanupSteps
  <2>6. UndisturbedInv(r)'
    BY DEF UndisturbedInv
  <2> QED BY <2>2, <2>3, <2>4, <2>5, <2>6
<1> QED BY <1>1, <1>2, <1>3, <1>4, StepKeepsIInv

\* A tag that is there either matches or is in the way.
LEMMA TagStateKeeps ==
    ASSUME IInv, NEW r \in Runs, TagState(r)
    PROVE  IInv'
<1> USE DEF IInv, TagState, Go, resultVars, githubVars
<1>1. TypeOK'
  BY DEF TypeOK, Steps, Ended
<1>2. Grows
  BY DEF TypeOK, Grows
<1>3. \A q \in Runs \ {r} : Frame(q)
  BY DEF TypeOK, Frame
<1>4. RunInv(r)' /\ Advances(r)
  <2> USE DEF RunInv, TypeOK
  <2>1. KeepsEvent(r)
    BY <1>1, <1>2, StepKeepsEvent
  <2> USE <2>1 DEF KeepsEvent
  <2>2. OutputInv(r)'
    BY DEF OutputInv, AfterPlan, Steps
  <2>3. ProofInv(r)'
    BY DEF ProofInv, AfterGate, AfterPlan, Steps
  <2>4. VerifiedInv(r)'
    BY DEF VerifiedInv
  <2>5. KeyInv(r)'
    BY DEF KeyInv, CleanupSteps
  <2>6. UndisturbedInv(r)'
    BY DEF UndisturbedInv, Conflict, OutputInv, AfterPlan, Steps
  <2> QED BY <2>2, <2>3, <2>4, <2>5, <2>6
<1> QED BY <1>1, <1>2, <1>3, <1>4, StepKeepsIInv

\* The verification in publish is the one that counts.
LEMMA VerifyTagKeeps ==
    ASSUME IInv, NEW r \in Runs, VerifyTag(r)
    PROVE  IInv'
<1> USE DEF IInv, VerifyTag, Go, resultVars, githubVars
<1>1. TypeOK'
  BY DEF TypeOK, Steps, Ended, MaxTries
<1>2. Grows
  BY DEF TypeOK, Grows
<1>3. \A q \in Runs \ {r} : Frame(q)
  BY DEF TypeOK, Frame
<1>4. RunInv(r)' /\ Advances(r)
  <2> USE DEF RunInv, TypeOK
  <2>1. KeepsEvent(r)
    BY <1>1, <1>2, StepKeepsEvent
  <2> USE <2>1 DEF KeepsEvent
  <2>2. OutputInv(r)'
    BY DEF OutputInv, AfterPlan, Steps
  <2>3. ProofInv(r)'
    BY DEF ProofInv, AfterGate, AfterPlan, Steps
  <2>4. VerifiedInv(r)'
    BY DEF VerifiedInv, Verifies
  <2>5. KeyInv(r)'
    BY DEF KeyInv, CleanupSteps
  <2>6. UndisturbedInv(r)'
    BY DEF UndisturbedInv
  <2> QED BY <2>2, <2>3, <2>4, <2>5, <2>6
<1> QED BY <1>1, <1>2, <1>3, <1>4, StepKeepsIInv

\* The key comes with the signing step.
LEMMA SignKeeps ==
    ASSUME IInv, NEW r \in Runs, Sign(r)
    PROVE  IInv'
<1> USE DEF IInv, Sign, Go, resultVars, githubVars
<1>1. TypeOK'
  <2>1. pc' \in [Runs -> {"none", "queued"} \union Ended \union Steps]
    BY DEF TypeOK, Steps, Ended
  <2>2. tries' \in [Runs -> 0..MaxTries]
    <3>1. tries \in [Runs -> 0..3]
      BY DEF TypeOK, MaxTries
    <3>2. tries' = tries \/ tries' = [tries EXCEPT ![r] = 1]
      BY DEF MaxTries
    <3> HIDE DEF Sign
    <3> QED BY <3>1, <3>2 DEF MaxTries
  <2>3. disturbed' \subseteq Runs
    BY DEF TypeOK
  <2> QED BY <2>1, <2>2, <2>3 DEF TypeOK
<1>2. Grows
  BY DEF TypeOK, Grows
<1>3. \A q \in Runs \ {r} : Frame(q)
  BY DEF TypeOK, Frame
<1>4. RunInv(r)' /\ Advances(r)
  <2> USE DEF RunInv, TypeOK
  <2>1. KeepsEvent(r)
    BY <1>1, <1>2, StepKeepsEvent
  <2> USE <2>1 DEF KeepsEvent
  <2>2. OutputInv(r)'
    BY DEF OutputInv, AfterPlan, Steps
  <2>3. ProofInv(r)'
    BY DEF ProofInv, AfterGate, AfterPlan, Steps
  <2>4. VerifiedInv(r)'
    BY DEF VerifiedInv
  <2>5. KeyInv(r)'
    BY DEF KeyInv, CleanupSteps
  <2>6. UndisturbedInv(r)'
    BY DEF UndisturbedInv
  <2> QED BY <2>2, <2>3, <2>4, <2>5, <2>6
<1> QED BY <1>1, <1>2, <1>3, <1>4, StepKeepsIInv

\* And goes with its removal.
LEMMA CleanupKeeps ==
    ASSUME IInv, NEW r \in Runs, Cleanup(r)
    PROVE  IInv'
<1> USE DEF IInv, Cleanup, Go, resultVars, githubVars
<1>1. TypeOK'
  BY DEF TypeOK, Steps, Ended
<1>2. Grows
  BY DEF TypeOK, Grows
<1>3. \A q \in Runs \ {r} : Frame(q)
  BY DEF TypeOK, Frame
<1>4. RunInv(r)' /\ Advances(r)
  <2> USE DEF RunInv, TypeOK
  <2>1. KeepsEvent(r)
    BY <1>1, <1>2, StepKeepsEvent DEF CleanupSteps
  <2> USE <2>1 DEF KeepsEvent
  <2>2. OutputInv(r)'
    BY DEF OutputInv, AfterPlan, Steps
  <2>3. ProofInv(r)'
    BY DEF ProofInv, AfterGate, AfterPlan, Steps
  <2>4. VerifiedInv(r)'
    BY DEF VerifiedInv
  <2>5. KeyInv(r)'
    BY DEF KeyInv, CleanupSteps
  <2>6. UndisturbedInv(r)'
    BY DEF UndisturbedInv, OutputInv, AfterPlan, Steps, CleanupSteps
  <2> QED BY <2>2, <2>3, <2>4, <2>5, <2>6
<1> QED BY <1>1, <1>2, <1>3, <1>4, StepKeepsIInv

\* A push that did not seem to succeed is looked up.
LEMMA VerifyPushKeeps ==
    ASSUME IInv, NEW r \in Runs, VerifyPush(r)
    PROVE  IInv'
<1> USE DEF IInv, VerifyPush, Go, resultVars, githubVars, Again
<1>1. TypeOK'
  <2>1. pc' \in [Runs -> {"none", "queued"} \union Ended \union Steps]
    BY DEF TypeOK, Steps, Ended
  <2>2. tries' \in [Runs -> 0..MaxTries]
    <3>1. tries \in [Runs -> 0..3]
      BY DEF TypeOK, MaxTries
    <3>2. tries' = [tries EXCEPT ![r] = 0] \/ tries' = [tries EXCEPT ![r] = IF @ < 3 THEN @ + 1 ELSE 0]
      BY DEF MaxTries
    <3> HIDE DEF VerifyPush, Again
    <3> QED BY <3>1, <3>2 DEF MaxTries
  <2>3. disturbed' \subseteq Runs
    BY DEF TypeOK
  <2> QED BY <2>1, <2>2, <2>3 DEF TypeOK
<1>2. Grows
  BY DEF TypeOK, Grows
<1>3. \A q \in Runs \ {r} : Frame(q)
  BY DEF TypeOK, Frame
<1>4. RunInv(r)' /\ Advances(r)
  <2> USE DEF RunInv, TypeOK
  <2>1. KeepsEvent(r)
    BY <1>1, <1>2, StepKeepsEvent
  <2> USE <2>1 DEF KeepsEvent
  <2>2. OutputInv(r)'
    BY DEF OutputInv, AfterPlan, Steps
  <2>3. ProofInv(r)'
    BY DEF ProofInv, AfterGate, AfterPlan, Steps
  <2>4. VerifiedInv(r)'
    BY DEF VerifiedInv
  <2>5. KeyInv(r)'
    BY DEF KeyInv, CleanupSteps
  <2>6. UndisturbedInv(r)'
    BY DEF UndisturbedInv, Conflict, OutputInv, AfterPlan, Steps, MaxTries
  <2> QED BY <2>2, <2>3, <2>4, <2>5, <2>6
<1> QED BY <1>1, <1>2, <1>3, <1>4, StepKeepsIInv

\* A release that is there is the result.
LEMMA GetReleaseKeeps ==
    ASSUME IInv, NEW r \in Runs, GetRelease(r)
    PROVE  IInv'
<1> USE DEF IInv, GetRelease, Go, resultVars, githubVars
<1>1. TypeOK'
  <2>1. pc' \in [Runs -> {"none", "queued"} \union Ended \union Steps]
    BY DEF TypeOK, Steps, Ended
  <2>2. tries' \in [Runs -> 0..MaxTries]
    BY DEF TypeOK, MaxTries
  <2>3. disturbed' \subseteq Runs
    BY DEF TypeOK
  <2> QED BY <2>1, <2>2, <2>3 DEF TypeOK
<1>2. Grows
  BY DEF TypeOK, Grows
<1>3. \A q \in Runs \ {r} : Frame(q)
  BY DEF TypeOK, Frame
<1>4. RunInv(r)' /\ Advances(r)
  <2> USE DEF RunInv, TypeOK
  <2>1. KeepsEvent(r)
    BY <1>1, <1>2, StepKeepsEvent
  <2> USE <2>1 DEF KeepsEvent
  <2>2. OutputInv(r)'
    BY DEF OutputInv, AfterPlan, Steps
  <2>3. ProofInv(r)'
    BY DEF ProofInv, AfterGate, AfterPlan, Steps
  <2>4. VerifiedInv(r)'
    BY DEF VerifiedInv, OutputInv, AfterPlan, Steps
  <2>5. KeyInv(r)'
    BY DEF KeyInv, CleanupSteps
  <2>6. UndisturbedInv(r)'
    BY DEF UndisturbedInv
  <2> QED BY <2>2, <2>3, <2>4, <2>5, <2>6
<1> QED BY <1>1, <1>2, <1>3, <1>4, StepKeepsIInv

\* A run that is cut off takes its key with it.
LEMMA AbortKeeps ==
    ASSUME IInv, NEW r \in Runs, Abort(r)
    PROVE  IInv'
<1> USE DEF IInv, Abort, Go, resultVars, githubVars
<1>1. TypeOK'
  BY DEF TypeOK, Steps, Ended, MaxTries
<1>2. Grows
  BY DEF TypeOK, Grows
<1>3. \A q \in Runs \ {r} : Frame(q)
  BY DEF TypeOK, Frame
<1>4. RunInv(r)' /\ Advances(r)
  <2> USE DEF RunInv, TypeOK
  <2>1. KeepsEvent(r)
    BY <1>1, <1>2, StepKeepsEvent DEF Steps
  <2> USE <2>1 DEF KeepsEvent
  <2>2. OutputInv(r)'
    BY DEF OutputInv, AfterPlan, Steps
  <2>3. ProofInv(r)'
    BY DEF ProofInv, AfterGate, AfterPlan, Steps
  <2>4. VerifiedInv(r)'
    BY DEF VerifiedInv
  <2>5. KeyInv(r)'
    BY DEF KeyInv, CleanupSteps
  <2>6. UndisturbedInv(r)'
    BY DEF UndisturbedInv
  <2> QED BY <2>2, <2>3, <2>4, <2>5, <2>6
<1> QED BY <1>1, <1>2, <1>3, <1>4, StepKeepsIInv

\* plan decides once.
LEMMA PlanKeeps ==
    ASSUME IInv, NEW r \in Runs, Plan(r)
    PROVE  IInv'
<1> USE DEF IInv, Plan, Go, resultVars, githubVars
<1> DEFINE t == trigger[r]
<1>p. /\ DeclaredAt(t.sha) \in Versions \union {0}
      /\ ~PlanRejects(t) => DeclaredAt(t.sha) # 0
  BY DEF TypeOK, DeclaredAt, PlanRejects
<1>1. TypeOK'
  BY <1>p DEF TypeOK, Steps, Ended
<1>2. Grows
  BY DEF TypeOK, Grows
<1>3. \A q \in Runs \ {r} : Frame(q)
  BY DEF TypeOK, Frame
<1>4. RunInv(r)' /\ Advances(r)
  <2> USE DEF RunInv, TypeOK
  <2>1. KeepsEvent(r)
    BY <1>1, <1>2, StepKeepsEvent
  <2> USE <2>1 DEF KeepsEvent
  <2>2. OutputInv(r)'
    BY <1>p DEF OutputInv, AfterPlan, Steps
  <2>3. ProofInv(r)'
    BY DEF ProofInv, AfterGate, AfterPlan, Steps
  <2>4. VerifiedInv(r)'
    BY DEF VerifiedInv
  <2>5. KeyInv(r)'
    BY DEF KeyInv, CleanupSteps
  <2>6. UndisturbedInv(r)'
    BY DEF UndisturbedInv
  <2> QED BY <2>2, <2>3, <2>4, <2>5, <2>6
<1> QED BY <1>1, <1>2, <1>3, <1>4, StepKeepsIInv

\* Evidence comes before its result.
LEMMA PreflightKeeps ==
    ASSUME IInv, NEW r \in Runs, Preflight(r)
    PROVE  IInv'
<1> USE DEF IInv, Preflight, Go, resultVars, githubVars, Record
<1>1. TypeOK'
  <2>1. [job |-> "preflight", run |-> r, made |-> attempt[r]]
           \in [job : {"preflight", "e2e"}, run : Runs, made : 0..MaxAttempts]
    BY DEF TypeOK
  <2>2. evidence' \subseteq [job : {"preflight", "e2e"}, run : Runs, made : 0..MaxAttempts]
    BY <2>1 DEF TypeOK
  <2> QED BY <2>2 DEF TypeOK, Steps, Ended
<1>2. Grows
  BY DEF TypeOK, Grows
<1>3. \A q \in Runs \ {r} : Frame(q)
  BY DEF TypeOK, Frame
<1>4. RunInv(r)' /\ Advances(r)
  <2> USE DEF RunInv, TypeOK
  <2>1. KeepsEvent(r)
    BY <1>1, <1>2, StepKeepsEvent
  <2> USE <2>1 DEF KeepsEvent
  <2>2. OutputInv(r)'
    BY DEF OutputInv, AfterPlan, Steps
  <2>3. ProofInv(r)'
    <3>1. PICK e \in [job : {"preflight", "e2e"}, run : Runs, made : 0..MaxAttempts] :
             e = [job |-> "preflight", run |-> r, made |-> attempt[r]]
      OBVIOUS
    <3>2. preflight'[r] = "success" => \E f \in evidence' : f.job = "preflight" /\ f.run = r
      BY <3>1
    <3> QED BY <3>2 DEF ProofInv, AfterGate, AfterPlan, Steps
  <2>4. VerifiedInv(r)'
    BY DEF VerifiedInv
  <2>5. KeyInv(r)'
    BY DEF KeyInv, CleanupSteps
  <2>6. UndisturbedInv(r)'
    BY DEF UndisturbedInv
  <2> QED BY <2>2, <2>3, <2>4, <2>5, <2>6
<1> QED BY <1>1, <1>2, <1>3, <1>4, StepKeepsIInv

\* Evidence comes before its result.
LEMMA E2EKeeps ==
    ASSUME IInv, NEW r \in Runs, E2E(r)
    PROVE  IInv'
<1> USE DEF IInv, E2E, Go, resultVars, githubVars, Record
<1>1. TypeOK'
  <2>1. [job |-> "e2e", run |-> r, made |-> attempt[r]]
           \in [job : {"preflight", "e2e"}, run : Runs, made : 0..MaxAttempts]
    BY DEF TypeOK
  <2>2. evidence' \subseteq [job : {"preflight", "e2e"}, run : Runs, made : 0..MaxAttempts]
    BY <2>1 DEF TypeOK
  <2> QED BY <2>2 DEF TypeOK, Steps, Ended
<1>2. Grows
  BY DEF TypeOK, Grows
<1>3. \A q \in Runs \ {r} : Frame(q)
  BY DEF TypeOK, Frame
<1>4. RunInv(r)' /\ Advances(r)
  <2> USE DEF RunInv, TypeOK
  <2>1. KeepsEvent(r)
    BY <1>1, <1>2, StepKeepsEvent
  <2> USE <2>1 DEF KeepsEvent
  <2>2. OutputInv(r)'
    BY DEF OutputInv, AfterPlan, Steps
  <2>3. ProofInv(r)'
    <3>1. PICK e \in [job : {"preflight", "e2e"}, run : Runs, made : 0..MaxAttempts] :
             e = [job |-> "e2e", run |-> r, made |-> attempt[r]]
      OBVIOUS
    <3>2. e2e'[r] = "success" => \E f \in evidence' : f.job = "e2e" /\ f.run = r
      BY <3>1
    <3> QED BY <3>2 DEF ProofInv, AfterGate, AfterPlan, Steps
  <2>4. VerifiedInv(r)'
    BY DEF VerifiedInv
  <2>5. KeyInv(r)'
    BY DEF KeyInv, CleanupSteps
  <2>6. UndisturbedInv(r)'
    BY DEF UndisturbedInv, Validated, ValidationPassed
  <2> QED BY <2>2, <2>3, <2>4, <2>5, <2>6
<1> QED BY <1>1, <1>2, <1>3, <1>4, StepKeepsIInv

-----------------------------------------------------------------------------
(* Runs that are created, started and rerun *)

\* A run starts where its results let it.
LEMMA StartKeeps ==
    ASSUME IInv, NEW r \in Runs, Start(r)
    PROVE  IInv'
<1>q. /\ Len(queue) \in Nat \ {0} /\ Len(queue') = Len(queue) - 1
      /\ r = queue[1]
      /\ \A i \in 1..Len(queue') : queue'[i] = queue[i + 1]
  BY DEF IInv, TypeOK, Start
<1>0. pc[r] = "queued" /\ queue' # queue
  <2>1. 1 \in 1..Len(queue)
    BY <1>q
  <2>2. pc[queue[1]] = "queued"
    BY <2>1 DEF IInv, QueueInv
  <2>3. Len(queue') # Len(queue)
    BY <1>q
  <2> QED BY <1>q, <2>2, <2>3
<1> USE DEF IInv, Start, resultVars, githubVars
<1>1. TypeOK'
  BY DEF TypeOK, Steps, Ended
<1>2. Grows
  BY DEF TypeOK, Grows
<1>3. \A q \in Runs \ {r} : Frame(q)
  BY DEF TypeOK, Frame
<1>4. RunInv(r)' /\ Advances(r)
  <2> USE DEF RunInv, TypeOK
  <2>1. KeepsEvent(r)
    BY <1>0, <1>1, <1>2, StepKeepsEvent
  <2> USE <2>1 DEF KeepsEvent
  <2>2. OutputInv(r)'
    BY <1>0 DEF OutputInv, AfterPlan, Steps
  <2>3. ProofInv(r)'
    BY <1>0 DEF ProofInv, AfterGate, AfterPlan, Steps
  <2>4. VerifiedInv(r)'
    BY <1>0 DEF VerifiedInv
  <2>5. KeyInv(r)'
    BY <1>0 DEF KeyInv, CleanupSteps
  <2>6. UndisturbedInv(r)'
    BY <1>0 DEF UndisturbedInv, Validated, ValidationPassed
  <2> QED BY <2>2, <2>3, <2>4, <2>5, <2>6
<1>5. QueueInv'
  <2>1. \A i \in 1..Len(queue') :
           i + 1 \in 1..Len(queue) /\ i + 1 # 1 /\ queue'[i] = queue[i + 1]
    BY <1>q
  <2>2. \A i \in 1..Len(queue) : i # 1 => queue[i] # r
    BY <1>q DEF QueueInv
  <2>3. \A i \in 1..Len(queue) : queue[i] \in Runs
    BY DEF TypeOK
  <2>4. \A i \in 1..Len(queue') : pc'[queue'[i]] = "queued"
    <3> SUFFICES ASSUME NEW i \in 1..Len(queue') PROVE pc'[queue'[i]] = "queued"
      OBVIOUS
    <3>1. queue'[i] \in Runs /\ queue'[i] # r /\ pc[queue'[i]] = "queued"
      BY <2>1, <2>2, <2>3 DEF QueueInv
    <3> QED BY <3>1 DEF TypeOK
  <2>5. \A i, j \in 1..Len(queue') : i # j => queue'[i] # queue'[j]
    BY <2>1 DEF QueueInv
  <2> QED BY <2>4, <2>5 DEF QueueInv
<1> QED BY <1>1, <1>2, <1>3, <1>4, <1>5, StepKeepsIInv


\* A run joins the queue at its end.
LEMMA JoinsQueue ==
    ASSUME TypeOK, QueueInv, NEW r \in Runs, pc[r] # "queued",
           queue' = Append(queue, r), pc' = [pc EXCEPT ![r] = "queued"]
    PROVE  QueueInv' /\ queue' \in Seq(Runs)
<1>1. /\ Len(queue) \in Nat /\ Len(queue') = Len(queue) + 1
      /\ queue'[Len(queue) + 1] = r
      /\ \A i \in 1..Len(queue) : queue'[i] = queue[i] /\ queue[i] \in Runs
  BY DEF TypeOK
<1>2. \A i \in 1..Len(queue) : queue[i] # r
  BY DEF QueueInv
<1>3. \A i \in 1..Len(queue') : i \in 1..Len(queue) \/ i = Len(queue) + 1
  BY <1>1
<1>4. \A i \in 1..Len(queue') : pc'[queue'[i]] = "queued"
  <2> SUFFICES ASSUME NEW i \in 1..Len(queue') PROVE pc'[queue'[i]] = "queued"
    OBVIOUS
  <2>1. CASE i \in 1..Len(queue)
    BY <1>1, <1>2, <2>1 DEF TypeOK, QueueInv
  <2>2. CASE i = Len(queue) + 1
    BY <1>1, <2>2 DEF TypeOK
  <2> QED BY <1>3, <2>1, <2>2
<1>5. \A i, j \in 1..Len(queue') : i # j => queue'[i] # queue'[j]
  <2> SUFFICES ASSUME NEW i \in 1..Len(queue'), NEW j \in 1..Len(queue'), i # j
               PROVE  queue'[i] # queue'[j]
    OBVIOUS
  <2>1. CASE i \in 1..Len(queue) /\ j \in 1..Len(queue)
    BY <1>1, <2>1 DEF QueueInv
  <2>2. CASE i = Len(queue) + 1
    BY <1>1, <1>2, <1>3, <2>2
  <2>3. CASE j = Len(queue) + 1
    BY <1>1, <1>2, <1>3, <2>3
  <2> QED BY <1>3, <2>1, <2>2, <2>3
<1>6. queue' \in Seq(Runs)
  BY DEF TypeOK
<1> QED BY <1>4, <1>5, <1>6 DEF QueueInv

\* A rerun of all jobs forgets their results.
LEMMA RerunAllKeeps ==
    ASSUME IInv, NEW r \in Runs, RerunAll(r)
    PROVE  IInv'
<1> USE DEF IInv, RerunAll, CanRerun, resultVars, githubVars
<1>1. QueueInv' /\ queue' \in Seq(Runs)
  BY JoinsQueue DEF Ended
<1>2. pc[r] \in Ended /\ pc'[r] = "queued" /\ attempt'[r] = attempt[r] + 1
  BY DEF TypeOK
<1>3. attempt[r] \in Int /\ attempt' \in [Runs -> 0..MaxAttempts]
  <2>1. MaxAttempts \in Nat
    BY ReleaseAssumption
  <2> QED BY <2>1 DEF TypeOK
<1>4. TypeOK'
  BY <1>1, <1>3 DEF TypeOK, Steps, Ended
<1>5. Grows
  BY DEF TypeOK, Grows
<1>6. \A q \in Runs \ {r} : Frame(q)
  BY DEF TypeOK, Frame
<1>7. Advances(r)
  BY <1>2, <1>3 DEF Advances, Ended
<1>8. RunInv(r)'
  <2> USE DEF RunInv, TypeOK
  <2>1. /\ TriggerInv(r)'
        /\ DeclaredAt(trigger[r].sha)' = DeclaredAt(trigger[r].sha)
        /\ DeclaredAt(Baseline(trigger[r]))' = DeclaredAt(Baseline(trigger[r]))
        /\ PlanRejects(trigger[r])' <=> PlanRejects(trigger[r])
    BY <1>2, <1>4, <1>5, EventStable DEF Ended
  <2>2. OutputInv(r)'
    BY <1>2, <2>1 DEF OutputInv, AfterPlan, Steps, Ended
  <2>3. ProofInv(r)'
    BY <1>2 DEF ProofInv, AfterGate, AfterPlan, Steps
  <2>4. VerifiedInv(r)' /\ KeyInv(r)'
    BY <1>2 DEF VerifiedInv, KeyInv, CleanupSteps, Ended
  <2>5. UndisturbedInv(r)'
    BY <1>2 DEF UndisturbedInv
  <2> QED BY <2>1, <2>2, <2>3, <2>4, <2>5
<1> QED BY <1>1, <1>4, <1>5, <1>6, <1>7, <1>8, StepKeepsIInv

\* A rerun of the failed jobs keeps results that evidence backs.
LEMMA RerunFailedKeeps ==
    ASSUME IInv, NEW r \in Runs, RerunFailed(r)
    PROVE  IInv'
<1> USE DEF IInv, RerunFailed, CanRerun, resultVars, githubVars
<1>1. QueueInv' /\ queue' \in Seq(Runs)
  BY JoinsQueue DEF Ended
<1>2. pc[r] \in Ended /\ pc'[r] = "queued" /\ attempt'[r] = attempt[r] + 1
  BY DEF TypeOK
<1>3. attempt[r] \in Int /\ attempt' \in [Runs -> 0..MaxAttempts]
  <2>1. MaxAttempts \in Nat
    BY ReleaseAssumption
  <2> QED BY <2>1 DEF TypeOK
<1>4. TypeOK'
  BY <1>1, <1>3 DEF TypeOK, Steps, Ended
<1>5. Grows
  BY DEF TypeOK, Grows
<1>6. \A q \in Runs \ {r} : Frame(q)
  BY DEF TypeOK, Frame
<1>7. Advances(r)
  BY <1>2, <1>3 DEF Advances, Ended
<1>8. RunInv(r)'
  <2> USE DEF RunInv, TypeOK
  <2>1. /\ TriggerInv(r)'
        /\ DeclaredAt(trigger[r].sha)' = DeclaredAt(trigger[r].sha)
        /\ DeclaredAt(Baseline(trigger[r]))' = DeclaredAt(Baseline(trigger[r]))
        /\ PlanRejects(trigger[r])' <=> PlanRejects(trigger[r])
    BY <1>2, <1>4, <1>5, EventStable DEF Ended
  <2>2. OutputInv(r)'
    BY <1>2, <2>1 DEF OutputInv, AfterPlan, Steps, Ended
  <2>3. ProofInv(r)'
    BY <1>2 DEF ProofInv, AfterGate, AfterPlan, Steps
  <2>4. VerifiedInv(r)' /\ KeyInv(r)'
    BY <1>2 DEF VerifiedInv, KeyInv, CleanupSteps, Ended
  <2>5. UndisturbedInv(r)'
    BY <1>2 DEF UndisturbedInv
  <2> QED BY <2>1, <2>2, <2>3, <2>4, <2>5
<1> QED BY <1>1, <1>4, <1>5, <1>6, <1>7, <1>8, StepKeepsIInv

\* Commits are added at the end of main.
LEMMA ExtendMain ==
    ASSUME TypeOK, NEW vs \in Pushes, Extend(vs)
    PROVE  /\ main' \in Seq(Versions \union {0}) /\ Len(main') \in Commits
           /\ Len(main) < Len(main')
           /\ \A c \in 1..Len(main) : main'[c] = main[c]
<1>1. vs \in Seq(Versions \union {0}) /\ vs # << >>
  BY ReleaseAssumption
<1>2. Len(vs) \in Nat /\ Len(vs) > 0
  BY <1>1, EmptySeq
<1>3. /\ main' \in Seq(Versions \union {0})
      /\ Len(main') = Len(main) + Len(vs)
      /\ \A c \in 1..Len(main') : main'[c] = IF c <= Len(main) THEN main[c] ELSE vs[c - Len(main)]
  BY <1>1, ConcatProperties DEF TypeOK, Extend
<1>4. Len(main) \in Nat /\ Len(main) > 0 /\ MaxCommits \in Nat
  BY ReleaseAssumption DEF TypeOK, Commits
<1>5. Len(main') \in 1..MaxCommits
  BY <1>2, <1>3, <1>4 DEF Extend
<1>6. \A c \in 1..Len(main) : main'[c] = main[c]
  BY <1>2, <1>3, <1>4
<1> QED BY <1>2, <1>3, <1>4, <1>5, <1>6 DEF Commits

\* A run is created for an event that names commits of main.
LEMMA EnqueueKeeps ==
    ASSUME IInv, NEW r \in Runs, NEW t \in Triggers, Enqueue(r, t),
           main' \in Seq(Versions \union {0}), Len(main') \in Commits,
           Len(main) <= Len(main'), \A c \in 1..Len(main) : main'[c] = main[c],
           t.sha \in 1..Len(main'), t.before \in 0..Len(main'),
           UNCHANGED <<resultVars, tries, key, githubVars, evidence, disturbed>>
    PROVE  IInv'
<1> USE DEF IInv, Enqueue, resultVars, githubVars
<1>1. QueueInv' /\ queue' \in Seq(Runs)
  BY JoinsQueue
<1>2. attempt' \in [Runs -> 0..MaxAttempts]
  BY ReleaseAssumption DEF TypeOK
<1>3. trigger' \in [Runs -> Triggers \union {NoTrigger}]
  BY DEF TypeOK
<1>4. TypeOK'
  BY <1>1, <1>2, <1>3 DEF TypeOK
<1>5. Grows
  BY DEF TypeOK, Grows
<1>6. \A q \in Runs \ {r} : Frame(q)
  BY DEF TypeOK, Frame
<1>7. Advances(r)
  BY DEF Advances
<1>8. RunInv(r)'
  <2> USE DEF RunInv, TypeOK
  <2>1. pc'[r] = "queued" /\ trigger'[r] = t
    OBVIOUS
  <2>2. version[r] = 0 /\ preflight[r] = "none" /\ e2e[r] = "none"
    BY DEF TriggerInv, OutputInv
  <2>3. TriggerInv(r)'
    BY <2>1 DEF TriggerInv
  <2>4. OutputInv(r)' /\ ProofInv(r)' /\ VerifiedInv(r)'
    BY <2>1, <2>2 DEF OutputInv, ProofInv, VerifiedInv, AfterPlan, AfterGate, Steps
  <2>5. KeyInv(r)' /\ UndisturbedInv(r)'
    BY <2>1, <2>2 DEF KeyInv, CleanupSteps, UndisturbedInv
  <2> QED BY <2>3, <2>4, <2>5
<1> QED BY <1>1, <1>4, <1>5, <1>6, <1>7, <1>8, StepKeepsIInv

LEMMA PushKeeps ==
    ASSUME IInv, NEW r \in Runs, NEW vs \in Pushes, Push(r, vs)
    PROVE  IInv'
<1>1. PICK before \in {Len(main), 0} :
         Enqueue(r, [event |-> "push", ref |-> "main", sha |-> Len(main'),
                     before |-> before, requested |-> 0])
  BY DEF Push
<1> DEFINE t == [event |-> "push", ref |-> "main", sha |-> Len(main'),
                 before |-> before, requested |-> 0]
<1>2. /\ main' \in Seq(Versions \union {0}) /\ Len(main') \in Commits
      /\ Len(main) < Len(main')
      /\ \A c \in 1..Len(main) : main'[c] = main[c]
  BY ExtendMain DEF IInv, Push
<1>3. MaxCommits \in Nat /\ Len(main) \in 1..MaxCommits /\ Len(main') \in 1..MaxCommits
  BY <1>2, ReleaseAssumption DEF IInv, TypeOK, Commits
<1>4. before \in 0..MaxCommits /\ before \in 0..Len(main')
  BY <1>2, <1>3
<1>5. t \in Triggers
  BY <1>3, <1>4 DEF Triggers, Commits
<1>6. t.sha \in 1..Len(main') /\ t.before \in 0..Len(main')
  BY <1>3, <1>4
<1> HIDE DEF t
<1>7. Enqueue(r, t)
  BY <1>1 DEF t
<1>8. Len(main) <= Len(main')
  BY <1>2, <1>3
<1> QED BY <1>2, <1>5, <1>6, <1>7, <1>8, EnqueueKeeps DEF Push

LEMMA DispatchKeeps ==
    ASSUME IInv, NEW r \in Runs, Dispatch(r)
    PROVE  IInv'
<1>1. PICK ref \in {"main", "other"}, requested \in Versions \union {0} :
         Enqueue(r, [event |-> "workflow_dispatch", ref |-> ref, sha |-> Len(main),
                     before |-> 0, requested |-> requested])
  BY DEF Dispatch
<1> DEFINE t == [event |-> "workflow_dispatch", ref |-> ref, sha |-> Len(main),
                 before |-> 0, requested |-> requested]
<1>2. MaxCommits \in Nat /\ Len(main) \in 1..MaxCommits
  BY ReleaseAssumption DEF IInv, TypeOK, Commits
<1>3. t \in Triggers /\ t.sha \in 1..Len(main) /\ t.before \in 0..Len(main)
  BY <1>2 DEF Triggers, Commits
<1> HIDE DEF t
<1>4. Enqueue(r, t)
  BY <1>1 DEF t
<1>5. main' = main
  BY DEF Dispatch
<1> QED BY <1>2, <1>3, <1>4, <1>5, EnqueueKeeps DEF Dispatch, IInv, TypeOK

LEMMA PushOtherKeeps ==
    ASSUME IInv, NEW vs \in Pushes, PushOther(vs)
    PROVE  IInv'
<1> USE DEF IInv, PushOther, resultVars, githubVars
<1>1. /\ main' \in Seq(Versions \union {0}) /\ Len(main') \in Commits
      /\ Len(main) < Len(main')
      /\ \A c \in 1..Len(main) : main'[c] = main[c]
  BY ExtendMain
<1>2. TypeOK'
  BY <1>1 DEF TypeOK
<1>3. Grows
  <2>1. Len(main) \in Nat /\ Len(main') \in Nat
    BY <1>1 DEF TypeOK
  <2> QED BY <1>1, <2>1 DEF Grows
<1>4. \A q \in Runs : Frame(q)
  BY DEF Frame
<1> QED BY <1>2, <1>3, <1>4, StepKeepsIInv

-----------------------------------------------------------------------------
(* Tags and releases *)

\* A foreign tag is for a commit of main, and takes the place of no other.
LEMMA ForeignTagKeeps ==
    ASSUME IInv, NEW v \in Versions, ForeignTag(v)
    PROVE  IInv'
<1> USE DEF IInv, ForeignTag, resultVars, githubVars
<1>1. PICK target \in 1..Len(main), annotated \in BOOLEAN, verified \in BOOLEAN :
         tag' = [tag EXCEPT ![v] = [target |-> target, annotated |-> annotated,
                                    verified |-> verified, by |-> 0, made |-> 0]]
  OBVIOUS
<1> DEFINE new == [target |-> target, annotated |-> annotated,
                   verified |-> verified, by |-> 0, made |-> 0]
<1>2. MaxCommits \in Nat /\ MaxAttempts \in Nat /\ Len(main) \in 1..MaxCommits
  BY ReleaseAssumption DEF TypeOK, Commits
<1>3. new \in Tags /\ new.target \in 1..Len(main) /\ new.by = 0
  BY <1>2 DEF Tags, Commits
<1> HIDE DEF new
<1>4. tag' = [tag EXCEPT ![v] = new]
  BY <1>1 DEF new
<1>5. TypeOK'
  BY <1>3, <1>4 DEF TypeOK
<1>6. Grows
  BY <1>2, <1>4 DEF TypeOK, Grows
<1>7. \A q \in Runs : Frame(q)
  BY DEF Frame
<1>8. \A u \in Versions : tag'[u] = tag[u] \/ TagInv(u)'
  BY <1>3, <1>4 DEF TypeOK, TagInv
<1> QED BY <1>5, <1>6, <1>7, <1>8, StepKeepsIInv

LEMMA ForeignReleaseKeeps ==
    ASSUME IInv, NEW v \in Versions, ForeignRelease(v)
    PROVE  IInv'
<1> USE DEF IInv, ForeignRelease, resultVars, githubVars
<1>1. TypeOK'
  BY DEF TypeOK, Releases
<1>2. Grows
  BY DEF TypeOK, Grows
<1>3. \A q \in Runs : Frame(q)
  BY DEF Frame
<1>4. \A u \in Versions : release'[u] = "published" => release[u] = "published"
  BY DEF TypeOK
<1> QED BY <1>1, <1>2, <1>3, <1>4, StepKeepsIInv

\* A push binds a version that is free to the run's proven commit, or changes
\* nothing.
LEMMA PushTagKeeps ==
    ASSUME IInv, NEW r \in Runs, PushTag(r)
    PROVE  IInv'
<1>p. pc[r] = "push"
  BY DEF PushTag
<1>v. PICK v \in Versions : v = version[r]
  BY <1>p DEF IInv, TypeOK, RunInv, OutputInv, AfterPlan, Steps
<1> DEFINE new(b) == OwnTag(r, b)
<1>1. /\ pc[r] = "push" /\ v = version[r] /\ Proven(r)
      /\ trigger[r] \in Triggers /\ trigger[r].sha \in 1..Len(main)
  BY <1>p, <1>v DEF IInv, RunInv, ProofInv, TriggerInv, AfterGate, AfterPlan, Steps
<1>2. \A b \in BOOLEAN : new(b) \in Tags /\ new(b) # NoTag
  <2>1. trigger[r].sha \in Commits /\ attempt[r] \in 0..MaxAttempts
    BY <1>1 DEF IInv, TypeOK, Triggers
  <2>2. OwnTag(r, TRUE) \in Tags /\ OwnTag(r, FALSE) \in Tags
    BY <2>1 DEF OwnTag, Tags
  <2> QED BY <2>2, NoTagAssumption
<1>3. \/ UNCHANGED tag
      \/ tag[v] = NoTag /\ tag' = [tag EXCEPT ![v] = new(TRUE)]
      \/ tag[v] = NoTag /\ tag' = [tag EXCEPT ![v] = new(FALSE)] /\ r \in disturbed'
  BY <1>1 DEF PushTag, PushArrives, PushAccepted
<1>4. \A b \in BOOLEAN : /\ new(b).target = trigger[r].sha
                         /\ new(b).by = r /\ new(b).made = attempt[r]
                         /\ new(b).annotated /\ new(b).verified = b
  BY DEF OwnTag
<1>5. tag' \in [Versions -> Tags \union {NoTag}]
  BY <1>1, <1>2, <1>3 DEF IInv, TypeOK
<1>6. /\ UNCHANGED <<main, trigger, queue, attempt, version, preflight, e2e, key, release, evidence>>
      /\ disturbed' = disturbed \/ disturbed' = disturbed \union {r}
      /\ tries' = tries \/ tries' = [tries EXCEPT ![r] = 0]
      /\ pc' = [pc EXCEPT ![r] = "cleanup_ok"] \/ pc' = [pc EXCEPT ![r] = "verify_push"]
  BY DEF PushTag, PushArrives, Go, resultVars
<1>7. TypeOK'
  <2>1. pc' \in [Runs -> {"none", "queued"} \union Ended \union Steps]
    BY <1>6 DEF IInv, TypeOK, Steps
  <2>2. tries' \in [Runs -> 0..MaxTries]
    <3>1. tries \in [Runs -> 0..3]
      BY DEF IInv, TypeOK, MaxTries
    <3> QED BY <1>6, <3>1 DEF MaxTries
  <2> QED BY <1>5, <1>6, <2>1, <2>2 DEF IInv, TypeOK
<1>8. Grows
  <2>1. \A u \in Versions : tag[u] # NoTag => tag'[u] = tag[u]
    <3> HIDE DEF new
    <3> QED BY <1>3 DEF IInv, TypeOK
  <2> QED BY <1>6, <2>1 DEF IInv, TypeOK, Grows
<1>9. \A q \in Runs \ {r} : Frame(q)
  BY <1>6 DEF IInv, TypeOK, Frame
<1>10. KeepsEvent(r)
  BY <1>1, <1>6, <1>7, <1>8, StepKeepsEvent DEF IInv, TypeOK
<1>11. pc'[r] \in {"cleanup_ok", "verify_push"}
  BY <1>6 DEF IInv, TypeOK
<1>12. TagInv(v)' \/ UNCHANGED tag
  <2> SUFFICES ASSUME NEW b \in BOOLEAN, tag' = [tag EXCEPT ![v] = new(b)],
                      b = FALSE => r \in disturbed'
               PROVE  TagInv(v)'
    BY <1>3
  <2> HIDE DEF new
  <2>1. tag'[v] = new(b)
    BY <1>1 DEF IInv, TypeOK
  <2>2. attempt[r] \in Int
    BY ReleaseAssumption DEF IInv, TypeOK
  <2>3. Proven(r)'
    BY <1>1, <1>10 DEF KeepsEvent
  <2> QED BY <1>1, <1>4, <1>6, <1>11, <2>1, <2>2, <2>3 DEF TagInv
<1>13. UndisturbedInv(r)'
  <2> SUFFICES ASSUME r \notin disturbed' PROVE UndisturbedInv(r)'
    BY DEF UndisturbedInv
  <2>1. r \notin disturbed
    BY <1>6
  <2>2. Pushed(r, v) => Verifies(v, trigger[r].sha)
    BY <1>1, <2>1, ReleaseAssumption DEF IInv, TagInv, Pushed, Verifies
  <2>3. CASE pc'[r] = "cleanup_ok"
    <3>1. PushArrives(r)
      BY <1>1, <1>6, <2>3 DEF PushTag, Go, IInv, TypeOK
    <3>2. \/ tag' = tag /\ Pushed(r, v)
          \/ tag' = [tag EXCEPT ![v] = new(TRUE)]
      BY <1>1, <1>3, <2>1, <3>1 DEF PushArrives
    <3>3. Verifies(v, trigger[r].sha)'
      <4>1. CASE tag' = tag /\ Pushed(r, v)
        BY <1>6, <2>2, <4>1 DEF Verifies
      <4>2. CASE tag' = [tag EXCEPT ![v] = new(TRUE)]
        <5> HIDE DEF new
        <5>1. tag'[v] = new(TRUE)
          BY <1>1, <4>2 DEF IInv, TypeOK
        <5> QED BY <1>2, <1>4, <1>6, <5>1 DEF Verifies
      <4> QED BY <3>2, <4>1, <4>2
    <3> QED BY <1>1, <1>6, <2>3, <3>3 DEF UndisturbedInv, Verifies
  <2>4. CASE pc'[r] = "verify_push"
    <3>1. tag'[v] # NoTag
      <4>1. PushArrives(r) \/ (~PushAccepted(r, v) /\ UNCHANGED tag)
        BY <1>1, <2>1, <2>4 DEF PushTag, Go, IInv, TypeOK
      <4>2. CASE PushArrives(r)
        <5>1. \/ tag' = tag /\ Pushed(r, v)
              \/ \E b \in BOOLEAN : tag' = [tag EXCEPT ![v] = new(b)]
          BY <1>1, <4>2 DEF PushArrives
        <5>2. \A b \in BOOLEAN : tag' = [tag EXCEPT ![v] = new(b)] => tag'[v] # NoTag
          <6> HIDE DEF new
          <6> QED BY <1>1, <1>2 DEF IInv, TypeOK
        <5> QED BY <5>1, <5>2 DEF Pushed
      <4>3. CASE ~PushAccepted(r, v) /\ UNCHANGED tag
        BY <4>3 DEF PushAccepted
      <4> QED BY <4>1, <4>2, <4>3
    <3> QED BY <1>1, <1>6, <2>4, <3>1 DEF UndisturbedInv
  <2> QED BY <1>11, <2>3, <2>4
<1>14. RunInv(r)'
  <2>1. OutputInv(r)'
    BY <1>1, <1>6, <1>10, <1>11 DEF IInv, RunInv, OutputInv, KeepsEvent, AfterPlan, Steps
  <2>2. ProofInv(r)'
    BY <1>1, <1>6, <1>10, <1>11 DEF IInv, RunInv, ProofInv, KeepsEvent
  <2>3. VerifiedInv(r)' /\ KeyInv(r)'
    BY <1>11 DEF VerifiedInv, KeyInv, CleanupSteps
  <2> QED BY <1>10, <1>13, <2>1, <2>2, <2>3 DEF RunInv, KeepsEvent
<1>15. \A u \in Versions : tag'[u] = tag[u] \/ TagInv(u)'
  <2>1. \A u \in Versions : u # v => tag'[u] = tag[u]
    <3> HIDE DEF new
    <3> QED BY <1>3 DEF IInv, TypeOK
  <2> QED BY <1>12, <2>1
<1> QED BY <1>6, <1>7, <1>8, <1>9, <1>10, <1>14, <1>15, StepKeepsIInv DEF KeepsEvent

\* The release is published for a verified tag of the run's proven commit.
LEMMA PostKeeps ==
    ASSUME IInv, NEW r \in Runs, Post(r)
    PROVE  IInv'
<1>p. pc[r] = "post"
  BY DEF Post
<1>v. PICK v \in Versions : v = version[r]
  BY <1>p DEF IInv, TypeOK, RunInv, OutputInv, AfterPlan, Steps
<1>1. /\ pc[r] = "post" /\ v = version[r] /\ v # 0 /\ Proven(r)
      /\ trigger[r].sha \in 1..Len(main) /\ DeclaredAt(trigger[r].sha) = v
      /\ Verifies(v, trigger[r].sha)
  <2>1. v # 0 /\ DeclaredAt(trigger[r].sha) = v
    BY <1>p, <1>v, ReleaseAssumption DEF IInv, RunInv, OutputInv
  <2>2. Proven(r)
    BY <1>p DEF IInv, RunInv, ProofInv, AfterGate, AfterPlan, Steps
  <2>3. trigger[r].sha \in 1..Len(main) /\ Verifies(v, trigger[r].sha)
    BY <1>p, <1>v DEF IInv, RunInv, TriggerInv, VerifiedInv
  <2> QED BY <1>p, <1>v, <2>1, <2>2, <2>3
<1>2. UNCHANGED tag
  BY <1>1 DEF IInv, TypeOK, Post, ReleaseArrives, Verifies, githubVars
<1>3. release' = release \/ release' = [release EXCEPT ![v] = "published"]
  BY <1>1 DEF Post, ReleaseArrives, githubVars
<1>4. /\ UNCHANGED <<main, trigger, queue, attempt, version, preflight, e2e, key, evidence>>
      /\ disturbed' = disturbed \/ disturbed' = disturbed \union {r}
      /\ \/ tries' = [tries EXCEPT ![r] = 0]
         \/ tries' = [tries EXCEPT ![r] = IF @ < 3 THEN @ + 1 ELSE 0]
      /\ \/ pc' = [pc EXCEPT ![r] = "succeeded"] \/ pc' = [pc EXCEPT ![r] = "get_release"]
         \/ pc' = [pc EXCEPT ![r] = "failed"]
  BY DEF Post, Again, Go, resultVars, MaxTries
<1>5. TypeOK'
  <2>1. pc' \in [Runs -> {"none", "queued"} \union Ended \union Steps]
    BY <1>4 DEF IInv, TypeOK, Steps, Ended
  <2>2. tries' \in [Runs -> 0..MaxTries]
    <3>1. tries \in [Runs -> 0..3]
      BY DEF IInv, TypeOK, MaxTries
    <3> QED BY <1>4, <3>1 DEF MaxTries
  <2>3. release' \in [Versions -> Releases]
    BY <1>3 DEF IInv, TypeOK, Releases
  <2> QED BY <1>2, <1>4, <2>1, <2>2, <2>3 DEF IInv, TypeOK
<1>6. Grows
  <2>1. release[v] \in {"foreign", "published"} => release' = release
    BY <1>1 DEF Post, ReleaseArrives, githubVars
  <2> QED BY <1>2, <1>3, <1>4, <2>1 DEF IInv, TypeOK, Grows
<1>7. \A q \in Runs \ {r} : Frame(q)
  BY <1>4 DEF IInv, TypeOK, Frame
<1>8. pc'[r] \in {"succeeded", "get_release", "failed"}
  BY <1>4 DEF IInv, TypeOK
<1>9. KeepsEvent(r)
  BY <1>1, <1>4, <1>5, <1>6, <1>8, StepKeepsEvent
<1>10. /\ pc'[r] = "succeeded" => release'[v] \in {"foreign", "published"}
       /\ r \notin disturbed' => release'[v] \in {"foreign", "published"}
  <2>1. \/ release' = [release EXCEPT ![v] = "published"]
        \/ release[v] \in {"foreign", "published"} /\ release' = release
        \/ r \in disturbed' /\ pc' # [pc EXCEPT ![r] = "succeeded"]
    <3>1. tries[r] < MaxTries => [pc EXCEPT ![r] = "get_release"] # [pc EXCEPT ![r] = "succeeded"]
      BY DEF IInv, TypeOK
    <3>2. [pc EXCEPT ![r] = "failed"] # [pc EXCEPT ![r] = "succeeded"]
      BY DEF IInv, TypeOK
    <3> QED BY <1>1, <3>1, <3>2 DEF Post, ReleaseArrives, Again, Go, githubVars
  <2> QED BY <1>1, <1>4, <1>8, <2>1 DEF IInv, TypeOK
<1>11. RunInv(r)'
  <2>1. OutputInv(r)'
    BY <1>1, <1>4, <1>8, <1>9 DEF IInv, RunInv, OutputInv, KeepsEvent, AfterPlan, Steps
  <2>2. ProofInv(r)'
    BY <1>1, <1>4, <1>8, <1>9 DEF IInv, RunInv, ProofInv, KeepsEvent
  <2>3. Verifies(version[r], trigger[r].sha)'
    BY <1>1, <1>2, <1>4 DEF Verifies
  <2>4. VerifiedInv(r)' /\ KeyInv(r)'
    BY <1>1, <1>4, <1>8, <1>10, <2>3 DEF IInv, RunInv, VerifiedInv, KeyInv, CleanupSteps
  <2>5. UndisturbedInv(r)'
    <3> SUFFICES ASSUME r \notin disturbed' PROVE UndisturbedInv(r)'
      BY DEF UndisturbedInv
    <3>1. tries[r] = 1
      BY <1>1, <1>4 DEF IInv, RunInv, UndisturbedInv
    <3>2. pc'[r] # "failed"
      BY <3>1, <1>1 DEF Post, Again, Go, MaxTries, IInv, TypeOK
    <3> QED BY <1>1, <1>4, <1>8, <1>10, <3>2 DEF UndisturbedInv
  <2> QED BY <1>9, <2>1, <2>2, <2>4, <2>5 DEF RunInv, KeepsEvent
<1>12. ReleaseInv(v)'
  <2>1. (trigger[r].sha = tag[v].target /\ tag[v] # NoTag)'
    BY <1>1, <1>2, <1>4 DEF Verifies
  <2>2. (main[trigger[r].sha] = v)'
    BY <1>1, <1>4 DEF DeclaredAt
  <2>3. (pc[r] # "none" /\ Proven(r))'
    BY <1>1, <1>8, <1>9 DEF KeepsEvent
  <2> QED BY <1>4, <2>1, <2>2, <2>3 DEF ReleaseInv
<1>13. \A u \in Versions : (release'[u] = "published" => release[u] = "published") \/ ReleaseInv(u)'
  BY <1>3, <1>12 DEF IInv, TypeOK
<1> QED BY <1>2, <1>4, <1>5, <1>6, <1>7, <1>9, <1>11, <1>13, StepKeepsIInv DEF KeepsEvent

-----------------------------------------------------------------------------
(* The invariant and what follows from it *)

LEMMA InitIInv == Init => IInv
<1> SUFFICES ASSUME Init PROVE IInv
  OBVIOUS
<1> USE DEF Init
<1>1. TypeOK
  <2>1. main \in Seq(Versions \union {0}) /\ Len(main) = 1 /\ 1 \in Commits
    BY ReleaseAssumption DEF Commits
  <2>2. attempt \in [Runs -> 0..MaxAttempts] /\ tries \in [Runs -> 0..MaxTries]
    BY ReleaseAssumption DEF MaxTries
  <2> QED BY <2>1, <2>2 DEF TypeOK, Releases
<1>2. QueueInv
  BY DEF QueueInv
<1>3. ASSUME NEW r \in Runs PROVE RunInv(r)
  BY DEF RunInv, TriggerInv, OutputInv, ProofInv, VerifiedInv, KeyInv, UndisturbedInv,
         AfterPlan, AfterGate, Steps
<1>4. EvidenceInv /\ \A v \in Versions : TagInv(v) /\ ReleaseInv(v)
  BY DEF EvidenceInv, TagInv, ReleaseInv
<1> QED BY <1>1, <1>2, <1>3, <1>4 DEF IInv

LEMMA NextIInv == IInv /\ [Next]_vars => IInv'
<1> SUFFICES ASSUME IInv, [Next]_vars PROVE IInv'
  OBVIOUS
<1>1. ASSUME NEW r \in Runs, Step(r) PROVE IInv'
  BY <1>1, PlanKeeps, PreflightKeeps, E2EKeeps, GateKeeps, GraphKeeps, TagStateKeeps, SignKeeps,
     PushTagKeeps, VerifyPushKeeps, CleanupKeeps, VerifyTagKeeps, GetReleaseKeeps, PostKeeps
     DEF Step
<1>2. ASSUME NEW r \in Runs, Start(r) PROVE IInv'
  BY <1>2, StartKeeps
<1>3. ASSUME NEW r \in Runs, Dispatch(r) \/ RerunAll(r) \/ RerunFailed(r) \/ Abort(r) PROVE IInv'
  BY <1>3, DispatchKeeps, RerunAllKeeps, RerunFailedKeeps, AbortKeeps
<1>4. ASSUME NEW vs \in Pushes, (\E r \in Runs : Push(r, vs)) \/ PushOther(vs) PROVE IInv'
  BY <1>4, PushKeeps, PushOtherKeeps
<1>5. ASSUME NEW v \in Touched, ForeignTag(v) \/ ForeignRelease(v) PROVE IInv'
  BY <1>5, ReleaseAssumption, ForeignTagKeeps, ForeignReleaseKeeps
<1>6. ASSUME UNCHANGED vars PROVE IInv'
  <2> USE <1>6 DEF vars, resultVars, githubVars
  <2>1. TypeOK' /\ Grows
    BY DEF IInv, TypeOK, Grows
  <2>2. \A q \in Runs : Frame(q)
    BY DEF Frame
  <2> QED BY <2>1, <2>2, StepKeepsIInv
<1> QED BY <1>1, <1>2, <1>3, <1>4, <1>5, <1>6 DEF Next, Environment

\* IInv holds in every state.
THEOREM Invariance == Spec => []IInv
<1> QED BY InitIInv, NextIInv, PTL DEF Spec

\* Every variable keeps its type, and the two retry loops their three tries.
THEOREM TypeCorrect == Spec => []TypeOK
<1>1. IInv => TypeOK
  BY DEF IInv
<1> QED BY <1>1, Invariance, PTL

\* A run that succeeds leaves its version released under an annotated, verified
\* tag of its own commit.
THEOREM SuccessIsPublished == Spec => []PublishedMatchesTag
<1>1. IInv => PublishedMatchesTag
  BY DEF IInv, RunInv, VerifiedInv, PublishedMatchesTag
<1> QED BY <1>1, Invariance, PTL

\* Tags and publications of the pipeline are of commits that its validations
\* have passed.
THEOREM ProofComesFirst == Spec => []ProvenBeforeRelease
<1>1. IInv => ProvenBeforeRelease
  BY DEF IInv, TagInv, ReleaseInv, ProvenBeforeRelease
<1> QED BY <1>1, Invariance, PTL

\* However runs and reruns interleave, also with more than one at a time, those
\* that succeed for a version released one commit.
THEOREM TagArbitrates == Spec => []OneCommitPerVersion
<1>1. IInv => OneCommitPerVersion
  BY DEF IInv, RunInv, VerifiedInv, Verifies, OneCommitPerVersion
<1> QED BY <1>1, Invariance, PTL

\* A release is of a commit of main that declares a version above its baseline's.
THEOREM AdvancesOnly == Spec => []ReleaseAdvances
<1>1. IInv => ReleaseAdvances
  <2> SUFFICES ASSUME IInv, NEW r \in Runs, pc[r] = "succeeded"
               PROVE  /\ trigger[r].ref = "main"
                      /\ version[r] = main[trigger[r].sha]
                      /\ Baseline(trigger[r]) \in 1..(trigger[r].sha - 1)
                      /\ main[Baseline(trigger[r])] < version[r]
    BY DEF ReleaseAdvances
  <2> DEFINE t == trigger[r]
             b == Baseline(t)
  <2>1. /\ version[r] # 0 /\ ~PlanRejects(t)
        /\ version[r] = DeclaredAt(t.sha) /\ version[r] # DeclaredAt(b)
    BY DEF IInv, RunInv, OutputInv
  <2>2. t \in Triggers /\ t.sha \in 1..Len(main) /\ t.sha \in Nat /\ Len(main) \in Nat
    BY DEF IInv, TypeOK, RunInv, TriggerInv
  <2>3. DeclaredAt(b) # 0 /\ ~(DeclaredAt(t.sha) < DeclaredAt(b)) /\ t.ref = "main"
    BY <2>1 DEF PlanRejects
  <2>4. t.event = "push" => t.before \in 1..(t.sha - 1)
    BY <2>1 DEF PlanRejects
  <2>5. b \in 1..Len(main) /\ DeclaredAt(b) = main[b] /\ DeclaredAt(t.sha) = main[t.sha]
    BY <2>2, <2>3 DEF DeclaredAt
  <2>6. b \in 1..(t.sha - 1)
    BY <2>2, <2>4, <2>5 DEF Baseline
  <2>7. main[b] \in Nat /\ main[t.sha] \in Nat
    <3>1. main[b] \in Versions \union {0} /\ main[t.sha] \in Versions \union {0}
      BY <2>2, <2>5 DEF IInv, TypeOK
    <3>2. Versions \union {0} \subseteq Nat
      BY ReleaseAssumption
    <3> QED BY <3>1, <3>2
  <2> QED BY <2>1, <2>3, <2>5, <2>6, <2>7
<1> QED BY <1>1, Invariance, PTL

\* The signing key is on a runner only between its configuration and its removal.
THEOREM KeyIsRemoved == Spec => []KeyConfined
<1>1. IInv => KeyConfined
  BY DEF IInv, TypeOK, RunInv, KeyInv, KeyConfined
<1> QED BY <1>1, Invariance, PTL

\* An attempt in which nothing failed publishes, whatever earlier attempts left.
THEOREM RecoverySucceeds == Spec => []UndisturbedSucceeds
<1>1. IInv => UndisturbedSucceeds
  BY DEF IInv, RunInv, UndisturbedInv, Conflict, UndisturbedSucceeds
<1> QED BY <1>1, Invariance, PTL

-----------------------------------------------------------------------------
(* Release implements VersionRegistry *)

\* Without new evidence no commit becomes proven: a run that is created has none.
LEMMA ProvenSame ==
    ASSUME IInv, evidence' = evidence,
           \A q \in Runs : trigger'[q] = trigger[q] \/ pc[q] = "none"
    PROVE  ProvenCommits' = ProvenCommits
<1>1. \A q \in Runs : Proven(q)' <=> Proven(q)
  BY DEF Proven
<1>2. \A q \in Runs : Proven(q) => trigger'[q] = trigger[q]
  BY DEF IInv, EvidenceInv, Proven
<1> QED BY <1>1, <1>2 DEF ProvenCommits

\* Evidence of run r proves its commit, or nothing yet.
LEMMA ProvenMore ==
    ASSUME IInv, NEW r \in Runs, pc[r] # "none", trigger' = trigger,
           NEW job \in {"preflight", "e2e"}, Record(job, r)
    PROVE  \/ ProvenCommits' = ProvenCommits
           \/ \E c \in 1..MaxCommits : ProvenCommits' = ProvenCommits \union {c}
<1> DEFINE new == [job |-> job, run |-> r, made |-> attempt[r]]
<1>1. evidence' = evidence \union {new} /\ new.run = r
  BY DEF Record
<1> HIDE DEF new
<1>2. \A q \in Runs \ {r} : Proven(q)' <=> Proven(q)
  BY <1>1 DEF Proven
<1>3. Proven(r) => Proven(r)'
  BY <1>1 DEF Proven
<1>4. CASE Proven(r)' <=> Proven(r)
  BY <1>2, <1>4 DEF ProvenCommits
<1>5. CASE Proven(r)' /\ ~Proven(r)
  <2>1. ProvenCommits' = ProvenCommits \union {trigger[r].sha}
    BY <1>2, <1>5 DEF ProvenCommits
  <2>2. trigger[r].sha \in 1..MaxCommits
    BY DEF IInv, RunInv, TriggerInv, Triggers, Commits
  <2> QED BY <2>1, <2>2
<1> QED BY <1>3, <1>4, <1>5

\* A tag created for version v binds it.
LEMMA BindsTag ==
    ASSUME IInv, NEW v \in Versions, tag[v] = NoTag, NEW new \in Tags,
           tag' = [tag EXCEPT ![v] = new],
           ProvenCommits' = ProvenCommits, PublishedVersions' = PublishedVersions
    PROVE  Registry!Next
<1>1. new # NoTag /\ new.target \in 1..MaxCommits
  BY NoTagAssumption DEF Tags, Commits
<1>2. BoundTo[v] = 0
  BY DEF BoundTo
<1>3. BoundTo' = [BoundTo EXCEPT ![v] = new.target]
  <2>1. \A u \in Versions : (IF tag'[u] = NoTag THEN 0 ELSE tag'[u].target)
                            = IF u = v THEN new.target ELSE BoundTo[u]
    BY <1>1 DEF IInv, TypeOK, BoundTo
  <2> QED BY <2>1 DEF BoundTo
<1>4. Registry!Bind(v, new.target)
  BY <1>2, <1>3 DEF Registry!Bind
<1> QED BY <1>1, <1>4 DEF Registry!Next

LEMMA NextImplements ==
    ASSUME IInv, [Next]_vars
    PROVE  Registry!Next \/ UNCHANGED <<BoundTo, ProvenCommits, PublishedVersions>>
<1> USE DEF resultVars, githubVars
<1>1. ASSUME tag' = tag, release' = release, evidence' = evidence,
             \A q \in Runs : trigger'[q] = trigger[q] \/ pc[q] = "none"
      PROVE  UNCHANGED <<BoundTo, ProvenCommits, PublishedVersions>>
  BY <1>1, ProvenSame DEF BoundTo, PublishedVersions
<1>2. ASSUME NEW r \in Runs,
             \/ Plan(r) \/ Gate(r) \/ Graph(r) \/ TagState(r) \/ Sign(r) \/ VerifyPush(r)
             \/ Cleanup(r) \/ VerifyTag(r) \/ GetRelease(r) \/ Abort(r) \/ Start(r)
             \/ RerunAll(r) \/ RerunFailed(r)
      PROVE  UNCHANGED <<BoundTo, ProvenCommits, PublishedVersions>>
  <2>1. UNCHANGED <<tag, release, evidence, trigger>>
    BY <1>2 DEF Plan, Gate, Graph, TagState, Sign, VerifyPush, Cleanup, VerifyTag, GetRelease,
                Abort, Start, RerunAll, RerunFailed
  <2> QED BY <1>1, <2>1
<1>3. ASSUME NEW r \in Runs, NEW t, Enqueue(r, t), UNCHANGED <<tag, release, evidence>>
      PROVE  UNCHANGED <<BoundTo, ProvenCommits, PublishedVersions>>
  <2>1. \A q \in Runs : trigger'[q] = trigger[q] \/ pc[q] = "none"
    BY <1>3 DEF Enqueue, IInv, TypeOK
  <2> QED BY <1>1, <1>3, <2>1
<1>4. ASSUME NEW r \in Runs, Dispatch(r) \/ \E vs \in Pushes : Push(r, vs)
      PROVE  UNCHANGED <<BoundTo, ProvenCommits, PublishedVersions>>
  BY <1>3, <1>4 DEF Dispatch, Push
<1>5. ASSUME NEW vs \in Pushes, PushOther(vs)
      PROVE  UNCHANGED <<BoundTo, ProvenCommits, PublishedVersions>>
  BY <1>1, <1>5 DEF PushOther
<1>6. ASSUME NEW r \in Runs, Preflight(r) \/ E2E(r)
      PROVE  Registry!Next \/ UNCHANGED <<BoundTo, ProvenCommits, PublishedVersions>>
  <2>1. UNCHANGED <<tag, release, trigger>> /\ pc[r] # "none"
    BY <1>6 DEF Preflight, E2E
  <2>2. UNCHANGED <<BoundTo, PublishedVersions>>
    BY <2>1 DEF BoundTo, PublishedVersions
  <2>3. CASE UNCHANGED evidence
    BY <1>1, <2>1, <2>3
  <2>4. CASE Record("preflight", r) \/ Record("e2e", r)
    <3>1. \/ ProvenCommits' = ProvenCommits
          \/ \E c \in 1..MaxCommits : ProvenCommits' = ProvenCommits \union {c}
      BY <2>1, <2>4, ProvenMore
    <3> QED BY <2>2, <3>1 DEF Registry!Next, Registry!Prove
  <2> QED BY <1>6, <2>3, <2>4 DEF Preflight, E2E
<1>7. ASSUME NEW r \in Runs, PushTag(r)
      PROVE  Registry!Next \/ UNCHANGED <<BoundTo, ProvenCommits, PublishedVersions>>
  <2>1. UNCHANGED <<release, evidence, trigger>>
    BY <1>7 DEF PushTag
  <2>2. PICK v \in Versions : v = version[r]
    BY <1>7 DEF PushTag, IInv, TypeOK, RunInv, OutputInv, AfterPlan, Steps
  <2>3. \/ UNCHANGED tag
        \/ tag[v] = NoTag /\ \E b \in BOOLEAN : tag' = [tag EXCEPT ![v] = OwnTag(r, b)]
    BY <1>7, <2>2 DEF PushTag, PushArrives, PushAccepted
  <2>4. OwnTag(r, TRUE) \in Tags /\ OwnTag(r, FALSE) \in Tags
    <3>1. trigger[r].sha \in Commits /\ attempt[r] \in 0..MaxAttempts
      BY <1>7 DEF PushTag, IInv, TypeOK, RunInv, TriggerInv, Triggers
    <3> QED BY <3>1 DEF OwnTag, Tags
  <2>5. ProvenCommits' = ProvenCommits /\ PublishedVersions' = PublishedVersions
    BY <2>1, ProvenSame DEF PublishedVersions
  <2>6. CASE UNCHANGED tag
    BY <1>1, <2>1, <2>6
  <2>7. CASE tag[v] = NoTag /\ \E b \in BOOLEAN : tag' = [tag EXCEPT ![v] = OwnTag(r, b)]
    BY <2>4, <2>5, <2>7, BindsTag
  <2> QED BY <2>3, <2>6, <2>7
<1>8. ASSUME NEW r \in Runs, Post(r)
      PROVE  Registry!Next \/ UNCHANGED <<BoundTo, ProvenCommits, PublishedVersions>>
  <2>1. PICK v \in Versions : v = version[r]
    BY <1>8 DEF Post, IInv, TypeOK, RunInv, OutputInv, AfterPlan, Steps
  <2>2. tag[v] # NoTag /\ tag[v].target = trigger[r].sha /\ Proven(r)
    BY <1>8, <2>1 DEF Post, IInv, RunInv, VerifiedInv, Verifies, ProofInv, AfterGate, AfterPlan, Steps
  <2>3. UNCHANGED <<tag, evidence, trigger>>
    BY <1>8, <2>1, <2>2 DEF Post, ReleaseArrives, IInv, TypeOK
  <2>4. UNCHANGED <<BoundTo, ProvenCommits>>
    BY <2>3, ProvenSame DEF BoundTo
  <2>5. release' = release \/ release' = [release EXCEPT ![v] = "published"]
    BY <1>8, <2>1 DEF Post, ReleaseArrives
  <2>6. CASE release' = release
    BY <1>1, <2>3, <2>6
  <2>7. CASE release' = [release EXCEPT ![v] = "published"]
    <3>1. PublishedVersions' = PublishedVersions \union {v}
      BY <2>7 DEF PublishedVersions, IInv, TypeOK
    <3>2. BoundTo[v] \in ProvenCommits
      BY <2>2 DEF BoundTo, ProvenCommits
    <3> QED BY <2>4, <3>1, <3>2 DEF Registry!Next, Registry!Publish
  <2> QED BY <2>5, <2>6, <2>7
<1>9. ASSUME NEW v \in Versions, ForeignTag(v)
      PROVE  Registry!Next
  <2>1. PICK new \in Tags : tag' = [tag EXCEPT ![v] = new]
    <3>1. PICK target \in 1..Len(main), annotated \in BOOLEAN, verified \in BOOLEAN :
             tag' = [tag EXCEPT ![v] = [target |-> target, annotated |-> annotated,
                                        verified |-> verified, by |-> 0, made |-> 0]]
      BY <1>9 DEF ForeignTag
    <3>2. target \in Commits /\ 0 \in 0..MaxAttempts
      BY ReleaseAssumption DEF IInv, TypeOK, Commits
    <3> QED BY <3>1, <3>2 DEF Tags
  <2>2. tag[v] = NoTag /\ UNCHANGED <<release, evidence, trigger>>
    BY <1>9 DEF ForeignTag
  <2>3. ProvenCommits' = ProvenCommits /\ PublishedVersions' = PublishedVersions
    BY <2>2, ProvenSame DEF PublishedVersions
  <2> QED BY <2>1, <2>2, <2>3, BindsTag
<1>10. ASSUME NEW v \in Versions, ForeignRelease(v)
       PROVE  UNCHANGED <<BoundTo, ProvenCommits, PublishedVersions>>
  <2>1. UNCHANGED <<tag, evidence, trigger>>
    BY <1>10 DEF ForeignRelease
  <2>2. PublishedVersions' = PublishedVersions
    BY <1>10 DEF ForeignRelease, PublishedVersions, IInv, TypeOK
  <2> QED BY <2>1, <2>2, ProvenSame DEF BoundTo
<1>11. ASSUME UNCHANGED vars
       PROVE  UNCHANGED <<BoundTo, ProvenCommits, PublishedVersions>>
  BY <1>1, <1>11 DEF vars
<1> QED
  BY <1>2, <1>4, <1>5, <1>6, <1>7, <1>8, <1>9, <1>10, <1>11, ReleaseAssumption
     DEF Next, Step, Environment

\* No push, retry or rerun moves a tag or replaces it, and publication follows the
\* tag and the proof of its commit.
THEOREM Refinement == Spec => ImplementsRegistry
<1>1. Init => Registry!Init
  <2> SUFFICES ASSUME Init PROVE Registry!Init
    OBVIOUS
  <2>1. BoundTo = [v \in Versions |-> 0] /\ PublishedVersions = {}
    BY DEF Init, BoundTo, PublishedVersions
  <2>2. ProvenCommits = {}
    BY DEF Init, ProvenCommits, Proven
  <2> QED BY <2>1, <2>2 DEF Registry!Init
<1>2. IInv /\ [Next]_vars => [Registry!Next]_<<BoundTo, ProvenCommits, PublishedVersions>>
  BY NextImplements
<1> QED BY <1>1, <1>2, Invariance, PTL DEF Spec, ImplementsRegistry, Registry!Spec
=============================================================================
