------------------------------- MODULE GoPlan -------------------------------
(***************************************************************************)
(* Which Go release each job of the validation pipeline works with:        *)
(* plan_go_validation.sh with resolve_latest_go.py, the setup-go steps of   *)
(* validation_pipeline.yml, and the policy job of latest-go-canary.yml.    *)
(* Go goes on releasing between the plan and the jobs.  select_version of  *)
(* resolve_go_version.py reads the same list of releases; no workflow calls *)
(* it, its tests do.                                                       *)
(*                                                                         *)
(* The major version is 1 throughout and left out.  A version is the tuple *)
(* of its numeric parts: <<27, 3>> is 1.27.3, <<27>> is 1.27, and << >> is *)
(* a text that is not a plain version, such as 1.28rc1.  A specification   *)
(* for setup-go is one, too: <<27>> is 1.27.x.                             *)
(***************************************************************************)
EXTENDS Integers, FiniteSets, SequencesExt

CONSTANTS
    Names,        \* versions that are released
    Manifests,    \* the go.mod files of root, tools and example in the checkout
    MaxReleases   \* bound: entries of the release list

Modes == {"requirements", "latest", "unsupported"}
Modules == {"root", "tools", "example"}
Texts == {t \in Seq(Nat) : Len(t) <= 2}
Releases == [version : Names, stable : BOOLEAN]

ASSUME PlanAssumption ==
    /\ Names \subseteq Texts
    /\ Manifests \subseteq [Modules -> [go : Seq(Texts), toolchain : Seq(Texts)]]
    /\ MaxReleases \in Nat

\* The setup-go steps.  The tools are built in two jobs, before the release
\* for the module of the job is set up.
Setups == {"floor", "root_tools", "root", "example_tools", "example"}
Earlier(s) == CASE s = "root" -> {"root_tools"}
                [] s = "example" -> {"example_tools"}
                [] OTHER -> {}
Uses == {"floor", "root", "example", "tools"}
UseOf(s) == IF s \in Uses THEN s ELSE "tools"

VARIABLES
    mode,       \* go_validation_mode
    manifest,   \* the go and toolchain lines of each module
    alone,      \* .examples/adapter/go.mod is the one tracked example manifest
    releases,   \* the list of releases that go.dev serves
    status,     \* of the plan
    spec,       \* its outputs
    runtime,    \* the release each step has set up, << >> before
    canary,     \* the result of the canary's policy job
    known,      \* history: the list that was served to the plan
    cut         \* history: the plan did not get the list

vars == <<mode, manifest, alone, releases, status, spec, runtime, canary, known, cut>>

None == << >>

Init ==
    /\ mode \in Modes
    /\ manifest \in Manifests
    /\ alone \in BOOLEAN
    /\ releases = << >>
    /\ status = "planning"
    /\ spec = [u \in Uses |-> None]
    /\ runtime = [s \in Setups |-> None]
    /\ canary = "none"
    /\ known = << >>
    /\ cut = FALSE

-----------------------------------------------------------------------------
(* Versions *)

\* Mutant of Less: the order of the texts, where 1.10 is before 1.9.
Less_Textual(a, b) ==
    LET digits(n) == IF n < 10 THEN 10 * n ELSE n
    IN  \/ digits(a[1]) < digits(b[1])
        \/ a[1] = b[1] /\ Len(a) < Len(b)
        \/ a[1] = b[1] /\ Len(a) = 2 /\ Len(b) = 2 /\ a[2] < b[2]

\* sort -V, and the order of Python's tuples.
Less(a, b) ==
    \/ a[1] < b[1]
    \/ a[1] = b[1] /\ Len(a) < Len(b)
    \/ a[1] = b[1] /\ Len(a) = 2 /\ Len(b) = 2 /\ a[2] < b[2]

Newest(S) == CHOOSE v \in S : \A w \in S : ~Less(v, w)

\* normalize_version
Plain(text) == text # None
Normalize(v) == IF Len(v) = 1 THEN Append(v, 0) ELSE v

\* A whole series, as a specification.
SeriesOf(v) == SubSeq(v, 1, 1)

-----------------------------------------------------------------------------
(* The list of releases *)

\* Go publishes a release, or makes known one that is not stable.  Nothing is
\* said of where the list has it.
Publish(r) ==
    /\ Len(releases) < MaxReleases
    /\ \A e \in ToSet(releases) : e.version # r.version
    /\ \E i \in 1..(Len(releases) + 1) : releases' = InsertAt(releases, i, r)
    /\ UNCHANGED <<mode, manifest, alone, status, spec, runtime, canary, known, cut>>

\* Mutant of FullReleases: a release of two parts counts, too.
FullReleases_Any(list) == {r.version : r \in {e \in ToSet(list) : e.stable /\ Plain(e.version)}}

\* select_latest: the stable releases with all three parts.
FullReleases(list) == {r.version : r \in {e \in ToSet(list) : e.stable /\ Len(e.version) = 2}}

\* Mutant of SelectsLatest: what is required must not be the newest itself.
SelectsLatest_Above(list, minimum) ==
    FullReleases(list) # {} /\ Less(minimum, Newest(FullReleases(list)))

SelectsLatest(list, minimum) ==
    FullReleases(list) # {} /\ ~Less(Newest(FullReleases(list)), minimum)

\* The loop of select_version: the newest release of each series so far
\* (stable_by_major_minor), and of the requested series (latest_patch).
Keep(v, w) == IF v = None \/ Less(v, w) THEN w ELSE v
Visit(requested, found, r) ==
    IF ~r.stable \/ ~Plain(r.version) THEN found
    ELSE [latest |-> IF r.version[1] = requested THEN Keep(found.latest, r.version)
                                                 ELSE found.latest,
          newest |-> [found.newest EXCEPT ![r.version[1]] = Keep(@, r.version)]]

SeriesNamed == {v[1] : v \in Names \ {None}}
NoneFound == [latest |-> None, newest |-> [n \in SeriesNamed |-> None]]

\* What the loop has found after the first n releases.
Found(requested, list) ==
    LET found[n \in 0..Len(list)] ==
            IF n = 0 THEN NoneFound ELSE Visit(requested, found[n - 1], list[n])
    IN  found

\* The answer of select_version that leaves the directive as it is.
Unresolved(directive) == [status |-> "error", version |-> directive, oldstable |-> None]

\* Mutant of SelectVersion: the list is taken to be sorted.
SelectVersion_First(directive, list) ==
    LET mine == SelectSeq(list, LAMBDA r : /\ r.stable /\ Plain(r.version) /\ Plain(directive)
                                           /\ r.version[1] = directive[1])
    IN  IF mine # << >>
        THEN [status |-> "resolved", version |-> mine[1].version, oldstable |-> None]
        ELSE Unresolved(directive)

\* select_version of a go directive.  It reads the list with include=all, the
\* plan the one without; each is a list of releases in any order.
SelectVersion(directive, list) ==
    LET found == Found(directive[1], list)[Len(list)]
        lines == {found.newest[n] : n \in SeriesNamed} \ {None}
        older == lines \ {Newest(lines)}
    IN  CASE ~Plain(directive) -> Unresolved(directive)
          [] Plain(directive) /\ found.latest # None ->
                 [status |-> "resolved", version |-> found.latest, oldstable |-> None]
          [] Plain(directive) /\ found.latest = None /\ lines # {} ->
                 [status |-> "fallback", version |-> Newest(lines),
                  oldstable |-> IF older = {} THEN None ELSE Newest(older)]
          [] OTHER -> Unresolved(directive)

-----------------------------------------------------------------------------
(* The plan *)

\* read_required_directive, normalize_version and preferred_version succeed.
Readable(m) ==
    LET file == manifest[m] IN
    /\ Len(file.go) = 1 /\ Len(file.toolchain) <= 1
    /\ \A text \in ToSet(file.go) \union ToSet(file.toolchain) : Plain(text)

Minimum(m) == Normalize(manifest[m].go[1])

\* Mutant of Preferred: a toolchain line wins, older than the go line or not.
Preferred_Toolchain(m) ==
    IF manifest[m].toolchain # << >> THEN Normalize(manifest[m].toolchain[1]) ELSE Minimum(m)

Preferred(m) == Newest({Minimum(m)} \union {Normalize(t) : t \in ToSet(manifest[m].toolchain)})

\* Mutant of ToolsRequired: the tools follow their own module alone.
ToolsRequired_Own == Preferred("tools")

ToolsRequired == Newest({Preferred(m) : m \in Modules})

Plannable ==
    /\ alone
    /\ \A m \in Modules : Readable(m)
    /\ mode \in {"requirements", "latest"}

\* The outputs: the newest of each series, or in mode latest one exact release
\* for all but the compatibility floor.
Specs(latest) ==
    LET series == mode = "requirements" IN
    [floor |-> SeriesOf(Minimum("root")),
     root |-> IF series THEN SeriesOf(Preferred("root")) ELSE latest,
     example |-> IF series THEN SeriesOf(Preferred("example")) ELSE latest,
     tools |-> IF series THEN SeriesOf(ToolsRequired) ELSE latest]

PlanFails ==
    /\ status' = "failed"
    /\ UNCHANGED spec

PlanValidation ==
    /\ status = "planning"
    /\ known' = releases
    /\ \/ /\ ~Plannable
          /\ PlanFails /\ UNCHANGED cut
       \/ /\ Plannable /\ mode = "requirements"
          /\ status' = "planned" /\ spec' = Specs(None) /\ UNCHANGED cut
       \/ /\ Plannable /\ mode = "latest"
          /\ \/ PlanFails /\ cut' = TRUE
             \/ ~SelectsLatest(releases, ToolsRequired) /\ PlanFails /\ UNCHANGED cut
             \/ /\ SelectsLatest(releases, ToolsRequired)
                /\ status' = "planned" /\ UNCHANGED cut
                /\ spec' = Specs(Newest(FullReleases(releases)))
    /\ UNCHANGED <<mode, manifest, alone, releases, runtime, canary>>

-----------------------------------------------------------------------------
(* The jobs *)

\* setup-go with check-latest: the newest stable release that matches.  The
\* job fails when there is none.
Matching(s) == {v \in FullReleases(releases) : IsPrefix(spec[UseOf(s)], v)}

SetUp(s) ==
    /\ status = "planned"
    /\ runtime[s] = None
    /\ \A t \in Earlier(s) : runtime[t] # None
    /\ Matching(s) # {}
    /\ runtime' = [runtime EXCEPT ![s] = Newest(Matching(s))]
    /\ UNCHANGED <<mode, manifest, alone, releases, status, spec, canary, known, cut>>

\* latest_go_policy: all jobs have succeeded, in mode latest, and on one
\* release.  Anything else, a failed job included, fails the canary.
CanaryPasses ==
    /\ \A s \in Setups : runtime[s] # None
    /\ mode = "latest"
    /\ runtime["root"] = runtime["example"]

Canary ==
    /\ status # "planning" /\ canary = "none"
    /\ \/ CanaryPasses /\ canary' = "success"
       \/ canary' = "failure"
    /\ UNCHANGED <<mode, manifest, alone, releases, status, spec, runtime, known, cut>>

Next ==
    \/ \E r \in Releases : Publish(r)
    \/ PlanValidation
    \/ \E s \in Setups : SetUp(s)
    \/ Canary

Spec == Init /\ [][Next]_vars

-----------------------------------------------------------------------------
(* Properties *)

\* Versions are tuples of at most two parts, outputs are outputs of the plan,
\* and what is set up has both parts.
TypeOK ==
    /\ mode \in Modes /\ manifest \in Manifests /\ alone \in BOOLEAN
    /\ releases \in Seq(Releases) /\ known \in Seq(Releases)
    /\ status \in {"planning", "planned", "failed"}
    /\ spec \in [Uses -> Texts]
    /\ runtime \in [Setups -> {t \in Texts : Len(t) # 1}]
    /\ canary \in {"none", "success", "failure"}
    /\ cut \in BOOLEAN

\* The order of versions, said once more and without the code's comparison.
AtLeast(v, w) == v[1] > w[1] \/ (v[1] = w[1] /\ v[2] >= w[2])
IsNewestOf(v, S) == v \in S /\ \A w \in S : AtLeast(Normalize(v), Normalize(w))

\* The releases that the lines of a module name, and those that bear on a setup:
\* the floor is tested for the go line alone.
NamedBy(lines) == {Normalize(t) : t \in ToSet(lines)}
Wanted(s) ==
    IF s = "floor" THEN NamedBy(manifest["root"].go)
    ELSE LET file == manifest[IF s \in Modules THEN s ELSE "tools"]
         IN  NamedBy(file.go) \union NamedBy(file.toolchain)

\* With GOTOOLCHAIN=local a job cannot work with a release below what its
\* module names.  None is set up if that release was out when the plan was made;
\* in mode latest none in any case, except for the floor, which stays in its
\* series in every mode.
RuntimesFit ==
    \A s \in Setups : runtime[s] # None =>
        /\ \A v \in Wanted(s) :
               v \in FullReleases(known) \/ (mode = "latest" /\ s # "floor")
                   => AtLeast(runtime[s], v)
        /\ s = "floor" => \A v \in Wanted(s) : runtime[s][1] = v[1]

\* golangci-lint and govulncheck refuse modules of a newer language version
\* than the one they were built with: the tools of a job are never of an older
\* series than its module's release, though Go releases between the two setups.
ToolsNotOlder ==
    /\ runtime["root"] # None => runtime["root_tools"][1] >= runtime["root"][1]
    /\ runtime["example"] # None => runtime["example_tools"][1] >= runtime["example"][1]

\* What the canary passes has been built, tools included, with the newest
\* stable release of those the plan was served, and with one that is no older
\* than what any module prefers, whatever is released meanwhile.
CanaryProvesNewest ==
    canary = "success" =>
        \A s \in Setups \ {"floor"} :
            /\ IsNewestOf(runtime[s], FullReleases(known))
            /\ \A t \in Setups : \A v \in Wanted(t) : AtLeast(runtime[s], v)

\* The plan fails only for a manifest, a mode or a list that leaves it nothing
\* to plan.
PlanFailsForReason ==
    status = "failed" =>
        \/ ~alone \/ mode = "unsupported" \/ cut
        \/ \E m \in Modules : ~Readable(m)
        \/ mode = "latest"
              /\ \A v \in FullReleases(known) :
                     \E s \in Setups : \E w \in Wanted(s) : ~AtLeast(v, w)

\* Directives that nobody released, too: a next series, and an unreadable text.
Directives == {None} \union Names \union {<<v[1] + 1>> : v \in Names \ {None}}

\* select_version finds the newest release of the series of a directive, and else
\* the newest of all and the newest of the series before, wherever the list has
\* them and whatever stands between; it leaves a directive that it cannot read.
SelectsNewest ==
    LET stable == {r.version : r \in {e \in ToSet(releases) : e.stable /\ Plain(e.version)}}
        in(S, n) == {v \in S : v[1] = n}
    IN  \A directive \in Directives :
            LET selected == SelectVersion(directive, releases)
                mine == in(stable, directive[1])
                before == {v \in stable : v[1] # selected.version[1]}
            IN  CASE Plain(directive) /\ mine # {} ->
                         /\ selected.status = "resolved"
                         /\ IsNewestOf(selected.version, mine)
                  [] Plain(directive) /\ mine = {} /\ stable # {} ->
                         /\ selected.status = "fallback"
                         /\ IsNewestOf(selected.version, stable)
                         /\ IF before = {} THEN selected.oldstable = None
                                           ELSE IsNewestOf(selected.oldstable, before)
                  [] OTHER -> selected.status = "error" /\ selected.version = directive
=============================================================================
