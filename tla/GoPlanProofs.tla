----------------------------- MODULE GoPlanProofs -----------------------------
(***************************************************************************)
(* Proofs about GoPlan: what the jobs and the canary are given, for every  *)
(* checkout and any releases, published at any time and listed in any      *)
(* order.  What the loop of select_version finds is proved by induction    *)
(* over the list, from the well-foundedness of the naturals.               *)
(***************************************************************************)
EXTENDS GoPlan, SequenceTheorems, WellFoundedInduction, TLAPS

-----------------------------------------------------------------------------
(* Versions *)

\* Versions with both parts.
Full == {t \in Texts : Len(t) = 2}

LEMMA FullFacts ==
    ASSUME NEW v \in Full
    PROVE  v[1] \in Nat /\ v[2] \in Nat /\ Len(v) = 2 /\ v # None /\ v \in Texts
BY DEF Full, Texts, None

\* Less is the strict part of a total order of these versions.
LEMMA LessFacts ==
    ASSUME NEW u \in Full, NEW v \in Full, NEW w \in Full
    PROVE  /\ ~Less(v, v)
           /\ ~Less(u, v) \/ ~Less(v, u)
           /\ ~Less(u, v) /\ ~Less(v, w) => ~Less(u, w)
           /\ AtLeast(u, v) <=> ~Less(u, v)
BY FullFacts DEF Less, AtLeast

LEMMA NormalizeType ==
    ASSUME NEW t \in Texts, Plain(t)
    PROVE  Normalize(t) \in Full
<1>1. t \in Seq(Nat) /\ Len(t) \in Nat /\ Len(t) <= 2
  BY LenProperties DEF Texts
<1>2. CASE Len(t) = 1
  <2>1. Append(t, 0) \in Seq(Nat) /\ Len(Append(t, 0)) = 2
    <3>1. 0 \in Nat
      OBVIOUS
    <3>2. Append(t, 0) \in Seq(Nat) /\ Len(Append(t, 0)) = Len(t) + 1
      BY <1>1, <3>1, AppendProperties
    <3> QED BY <1>2, <3>2
  <2> QED BY <1>2, <2>1 DEF Texts, Full, Normalize
<1>3. CASE Len(t) = 2
  BY <1>3 DEF Full, Normalize
<1>4. Len(t) # 0
  BY <1>1, EmptySeq DEF Plain, None
<1>5. Len(t) = 1 \/ Len(t) = 2
  <2>1. \A n \in Nat : n <= 2 /\ n # 0 => n = 1 \/ n = 2
    OBVIOUS
  <2> QED BY <1>1, <1>4, <2>1
<1> QED BY <1>2, <1>3, <1>5

LEMMA NormalizeFull ==
    ASSUME NEW v \in Full
    PROVE  Normalize(v) = v
BY FullFacts DEF Normalize

\* Versions with one part or both.
PlainTexts == {t \in Texts : Plain(t)}

LEMMA PlainFacts ==
    ASSUME NEW v \in PlainTexts
    PROVE  /\ v \in Seq(Nat) /\ Len(v) \in {1, 2} /\ v # None
           /\ v[1] \in Nat /\ (Len(v) = 2 => v[2] \in Nat)
<1>1. v \in Seq(Nat) /\ Len(v) \in Nat /\ Len(v) <= 2 /\ v # None
  BY LenProperties DEF PlainTexts, Plain, Texts
<1>2. Len(v) # 0
  BY <1>1, EmptySeq DEF None
<1>3. \A n \in Nat : n <= 2 /\ n # 0 => n = 1 \/ n = 2
  OBVIOUS
<1>4. Len(v) \in {1, 2}
  BY <1>1, <1>2, <1>3
<1>5. 1 \in 1..Len(v) /\ (Len(v) = 2 => 2 \in 1..Len(v))
  BY <1>4
<1> QED BY <1>1, <1>4, <1>5, ElementOfSeq

LEMMA FullIsPlain == Full \subseteq PlainTexts
BY FullFacts DEF PlainTexts, Plain

\* Less orders these, too, as the order that the properties name.
LEMMA PlainOrder ==
    ASSUME NEW u \in PlainTexts, NEW v \in PlainTexts, NEW w \in PlainTexts
    PROVE  /\ ~Less(v, v)
           /\ ~Less(u, v) \/ ~Less(v, u)
           /\ ~Less(u, v) /\ ~Less(v, w) => ~Less(u, w)
           /\ ~Less(u, v) => AtLeast(Normalize(u), Normalize(v))
<1>1. /\ u[1] \in Nat /\ Len(u) \in {1, 2} /\ (Len(u) = 2 => u[2] \in Nat)
      /\ v[1] \in Nat /\ Len(v) \in {1, 2} /\ (Len(v) = 2 => v[2] \in Nat)
      /\ w[1] \in Nat /\ Len(w) \in {1, 2} /\ (Len(w) = 2 => w[2] \in Nat)
  BY PlainFacts
<1>2. /\ ~Less(v, v)
      /\ ~Less(u, v) \/ ~Less(v, u)
      /\ ~Less(u, v) /\ ~Less(v, w) => ~Less(u, w)
  BY <1>1 DEF Less
<1>3. ASSUME NEW x \in PlainTexts
      PROVE  /\ Normalize(x)[1] = x[1]
             /\ Normalize(x)[2] = IF Len(x) = 1 THEN 0 ELSE x[2]
  <2>1. x \in Seq(Nat) /\ 0 \in Nat
    BY <1>3, PlainFacts
  <2>2. CASE Len(x) = 1
    <3>1. 1 \in 1..Len(x)
      BY <2>2
    <3>2. /\ \A i \in 1..Len(x) : Append(x, 0)[i] = x[i]
          /\ Append(x, 0)[Len(x) + 1] = 0
      BY <2>1, AppendProperties
    <3>3. Append(x, 0)[1] = x[1] /\ Append(x, 0)[2] = 0
      BY <2>2, <3>1, <3>2
    <3> QED BY <2>2, <3>3 DEF Normalize
  <2>3. CASE Len(x) # 1
    BY <2>3 DEF Normalize
  <2> QED BY <2>2, <2>3
<1>4. ASSUME ~Less(u, v) PROVE AtLeast(Normalize(u), Normalize(v))
  <2>1. /\ Normalize(u)[1] = u[1] /\ Normalize(v)[1] = v[1]
        /\ Normalize(u)[2] = IF Len(u) = 1 THEN 0 ELSE u[2]
        /\ Normalize(v)[2] = IF Len(v) = 1 THEN 0 ELSE v[2]
    BY <1>3
  <2>2. CASE u[1] # v[1]
    <3>1. u[1] > v[1]
      BY <1>1, <1>4, <2>2 DEF Less
    <3> QED BY <2>1, <3>1 DEF AtLeast
  <2>3. CASE u[1] = v[1]
    <3>1. ~(Len(u) < Len(v)) /\ ~(Len(u) = 2 /\ Len(v) = 2 /\ u[2] < v[2])
      BY <1>4, <2>3 DEF Less
    <3>2. CASE Len(v) = 1
      BY <1>1, <2>1, <2>3, <3>2 DEF AtLeast
    <3>3. CASE Len(v) = 2
      <4>1. Len(u) = 2 /\ u[2] >= v[2]
        BY <1>1, <3>1, <3>3
      <4> QED BY <2>1, <2>3, <3>3, <4>1 DEF AtLeast
    <3> QED BY <1>1, <3>2, <3>3
  <2> QED BY <2>2, <2>3
<1> QED BY <1>2, <1>4

\* What a specification of one part, and one of both, has as its prefix.
LEMMA PrefixFacts ==
    ASSUME NEW u \in Full, NEW v \in Full
    PROVE  /\ SeriesOf(u) \in Texts
           /\ IsPrefix(SeriesOf(u), v) <=> u[1] = v[1]
           /\ IsPrefix(u, v) <=> u = v
<1>1. u \in Seq(Nat) /\ v \in Seq(Nat) /\ Len(u) = 2 /\ Len(v) = 2
  BY DEF Full, Texts
<1>2. \A w \in {u, v} : /\ SubSeq(w, 1, 1) \in Seq(Nat)
                                  /\ Len(SubSeq(w, 1, 1)) = 1
                                  /\ SubSeq(w, 1, 1)[1] = w[1]
  <2> SUFFICES ASSUME NEW w \in {u, v}
               PROVE  /\ SubSeq(w, 1, 1) \in Seq(Nat)
                      /\ Len(SubSeq(w, 1, 1)) = 1
                      /\ SubSeq(w, 1, 1)[1] = w[1]
    OBVIOUS
  <2>1. \A i \in 1..1 : w[i] \in Nat
    BY <1>1
  <2>2. /\ SubSeq(w, 1, 1) \in Seq(Nat)
        /\ Len(SubSeq(w, 1, 1)) = 1 - 1 + 1
        /\ \A i \in 1..(1 - 1 + 1) : SubSeq(w, 1, 1)[i] = w[1 + i - 1]
    BY <2>1, SubSeqProperties
  <2> QED BY <2>2
<1>3. \A w, x \in Seq(Nat) : Len(w) = 1 /\ Len(x) = 1 => (w = x <=> w[1] = x[1])
  <2> SUFFICES ASSUME NEW w \in Seq(Nat), NEW x \in Seq(Nat), Len(w) = 1, Len(x) = 1, w[1] = x[1]
               PROVE  w = x
    OBVIOUS
  <2> QED BY SeqEqual
<1>5. SubSeq(u, 1, 2) = u /\ SubSeq(v, 1, 2) = v
  BY <1>1
<1>6. IsPrefix(SeriesOf(u), v) <=> u[1] = v[1]
  <2>1. Len(SeriesOf(u)) = 1 /\ SeriesOf(u) \in Seq(Nat) /\ SeriesOf(u)[1] = u[1]
    BY <1>2 DEF SeriesOf
  <2>2. SubSeq(SeriesOf(u), 1, 1) \in Seq(Nat) /\ Len(SubSeq(SeriesOf(u), 1, 1)) = 1
        /\ SubSeq(SeriesOf(u), 1, 1)[1] = u[1]
    <3>1. \A i \in 1..1 : SeriesOf(u)[i] \in Nat
      BY <2>1, FullFacts
    <3>2. \A i \in 1..(1 - 1 + 1) : SubSeq(SeriesOf(u), 1, 1)[i] = SeriesOf(u)[1 + i - 1]
      BY <3>1, SubSeqProperties
    <3> QED BY <2>1, <3>1, <3>2, SubSeqProperties
  <2> QED BY <1>1, <1>2, <1>3, <2>1, <2>2 DEF IsPrefix
<1>7. IsPrefix(u, v) <=> u = v
  BY <1>1, <1>5 DEF IsPrefix
<1> QED BY <1>1, <1>2, <1>6, <1>7 DEF SeriesOf, Texts

-----------------------------------------------------------------------------
(* The newest of a set *)

HasNewest(S) == \E v \in S : \A w \in S : ~Less(v, w)

LEMMA NewestFacts ==
    ASSUME NEW S, HasNewest(S)
    PROVE  Newest(S) \in S /\ \A w \in S : ~Less(Newest(S), w)
BY DEF Newest, HasNewest

LEMMA NewestOfMore ==
    ASSUME NEW S \in SUBSET PlainTexts, NEW v \in PlainTexts, S = {} \/ HasNewest(S)
    PROVE  HasNewest(S \union {v})
<1>1. CASE S = {}
  BY <1>1, PlainOrder DEF HasNewest
<1>2. CASE HasNewest(S)
  <2>1. PICK n \in S : \A w \in S : ~Less(n, w)
    BY <1>2 DEF HasNewest
  <2>2. CASE ~Less(n, v)
    BY <2>1, <2>2 DEF HasNewest
  <2>3. CASE Less(n, v)
    <3>1. ~Less(v, n)
      BY <2>1, <2>3, PlainOrder
    <3>2. \A w \in S \union {v} : ~Less(v, w)
      BY <2>1, <3>1, PlainOrder
    <3> QED BY <3>2 DEF HasNewest
  <2> QED BY <2>2, <2>3
<1> QED BY <1>1, <1>2

-----------------------------------------------------------------------------
(* What the manifests ask for *)

Lines(m) == NamedBy(manifest[m].go) \union NamedBy(manifest[m].toolchain)

\* A readable go.mod names one release or two; Preferred is the newer one.
LEMMA PreferredFacts ==
    ASSUME manifest \in Manifests, NEW m \in Modules, Readable(m)
    PROVE  /\ Minimum(m) \in Full
           /\ NamedBy(manifest[m].go) = {Minimum(m)}
           /\ Lines(m) \subseteq Full
           /\ Preferred(m) \in Lines(m)
           /\ \A v \in Lines(m) : ~Less(Preferred(m), v)
<1> DEFINE go == manifest[m].go
           tool == manifest[m].toolchain
<1>1. go \in Seq(Texts) /\ tool \in Seq(Texts)
  BY PlanAssumption
<1>2. Len(go) = 1 /\ Len(tool) \in Nat /\ Len(tool) <= 1
  BY <1>1, LenProperties DEF Readable
<1>3. DOMAIN go = 1..1 /\ go[1] \in Texts /\ Plain(go[1])
  BY <1>1, <1>2, LenProperties DEF Readable, ToSet
<1>4. ToSet(go) = {go[1]}
  BY <1>3 DEF ToSet
<1>5. Minimum(m) \in Full
  BY <1>3, NormalizeType DEF Minimum
<1>6. NamedBy(go) = {Minimum(m)}
  BY <1>4 DEF NamedBy, Minimum
<1>7. HasNewest({Minimum(m)})
  BY <1>5, LessFacts DEF HasNewest
<1>8. CASE Len(tool) = 0
  <2>1. DOMAIN tool = {}
    BY <1>1, <1>8, LenProperties
  <2>2. NamedBy(tool) = {}
    BY <2>1 DEF NamedBy, ToSet
  <2>3. Preferred(m) = Newest({Minimum(m)})
    BY <2>2 DEF Preferred, NamedBy
  <2>4. Lines(m) = {Minimum(m)}
    BY <1>6, <2>2 DEF Lines
  <2> QED BY <1>5, <1>6, <1>7, <2>3, <2>4, NewestFacts
<1>9. CASE Len(tool) = 1
  <2>1. DOMAIN tool = 1..1 /\ tool[1] \in Texts /\ Plain(tool[1])
    BY <1>1, <1>9, LenProperties DEF Readable, ToSet
  <2>2. NamedBy(tool) = {Normalize(tool[1])}
    BY <2>1 DEF NamedBy, ToSet
  <2>3. Normalize(tool[1]) \in Full
    BY <2>1, NormalizeType
  <2>4. Preferred(m) = Newest({Minimum(m)} \union {Normalize(tool[1])})
    BY <2>2 DEF Preferred, NamedBy
  <2>5. Lines(m) = {Minimum(m)} \union {Normalize(tool[1])}
    BY <1>6, <2>2 DEF Lines
  <2>6. HasNewest(Lines(m))
    BY <1>5, <1>7, <2>3, <2>5, FullIsPlain, NewestOfMore
  <2> QED BY <1>5, <1>6, <2>3, <2>4, <2>5, <2>6, NewestFacts
<1>10. Len(tool) = 0 \/ Len(tool) = 1
  <2>1. \A n \in Nat : n <= 1 => n = 0 \/ n = 1
    OBVIOUS
  <2> QED BY <1>2, <2>1
<1> QED BY <1>8, <1>9, <1>10

\* The release for the tools is what one module prefers, and no older than what
\* any module does.
LEMMA ToolsFacts ==
    ASSUME manifest \in Manifests, \A m \in Modules : Readable(m)
    PROVE  /\ \E m \in Modules : ToolsRequired = Preferred(m)
           /\ ToolsRequired \in Full
           /\ \A m \in Modules : ~Less(ToolsRequired, Preferred(m))
<1>1. \A m \in Modules : Preferred(m) \in Full
  BY PreferredFacts
<1>2. HasNewest({Preferred("root")})
  BY <1>1, LessFacts DEF HasNewest, Modules
<1>3. HasNewest({Preferred("root")} \union {Preferred("tools")})
  BY <1>1, <1>2, FullIsPlain, NewestOfMore DEF Modules
<1>4. HasNewest({Preferred("root")} \union {Preferred("tools")} \union {Preferred("example")})
  BY <1>1, <1>3, FullIsPlain, NewestOfMore DEF Modules
<1>5. {Preferred("root")} \union {Preferred("tools")} \union {Preferred("example")}
        = {Preferred(m) : m \in Modules}
  BY DEF Modules
<1>6. /\ ToolsRequired \in {Preferred(m) : m \in Modules}
      /\ \A w \in {Preferred(m) : m \in Modules} : ~Less(ToolsRequired, w)
  BY <1>4, <1>5, NewestFacts DEF ToolsRequired
<1> QED BY <1>1, <1>6

-----------------------------------------------------------------------------
(* The list of releases *)

LEMMA FullReleasesType ==
    ASSUME NEW list \in Seq(Releases)
    PROVE  FullReleases(list) \subseteq Full
<1>1. ToSet(list) \subseteq Releases
  BY LenProperties DEF ToSet
<1> QED BY <1>1, PlanAssumption DEF FullReleases, Releases, Full

\* Wherever a release is put in the list, it is added.
LEMMA InsertFacts ==
    ASSUME NEW list \in Seq(Releases), NEW r \in Releases, NEW i \in 1..(Len(list) + 1)
    PROVE  /\ InsertAt(list, i, r) \in Seq(Releases)
           /\ ToSet(InsertAt(list, i, r)) = ToSet(list) \union {r}
<1> DEFINE n == Len(list)
           new == InsertAt(list, i, r)
<1>1. n \in Nat /\ i \in Int /\ i - 1 \in Int /\ DOMAIN list = 1..n
  BY LenProperties
<1>2. /\ SubSeq(list, 1, i - 1) \in Seq(Releases)
      /\ Len(SubSeq(list, 1, i - 1)) = i - 1
      /\ \A j \in 1..(i - 1) : SubSeq(list, 1, i - 1)[j] = list[j]
  <2>1. \A j \in 1..(i - 1) : list[j] \in Releases
    BY <1>1
  <2> QED BY <1>1, <2>1, SubSeqProperties
<1>3. /\ SubSeq(list, i, n) \in Seq(Releases)
      /\ Len(SubSeq(list, i, n)) = n - i + 1
      /\ \A j \in 1..(n - i + 1) : SubSeq(list, i, n)[j] = list[i + j - 1]
  <2>1. \A j \in i..n : list[j] \in Releases
    BY <1>1
  <2> QED BY <1>1, <2>1, SubSeqProperties
<1>4. <<r>> \in Seq(Releases) /\ Len(<<r>>) = 1 /\ <<r>>[1] = r
  OBVIOUS
<1> DEFINE front == SubSeq(list, 1, i - 1) \o <<r>>
<1>5. /\ front \in Seq(Releases) /\ Len(front) = i
      /\ \A j \in 1..i : front[j] = IF j <= i - 1 THEN list[j] ELSE r
  BY <1>1, <1>2, <1>4, ConcatProperties
<1>6. new = front \o SubSeq(list, i, n)
  BY DEF InsertAt
<1>7. /\ new \in Seq(Releases) /\ Len(new) = n + 1
      /\ \A j \in 1..(n + 1) :
             new[j] = IF j < i THEN list[j] ELSE IF j = i THEN r ELSE list[j - 1]
  <2> HIDE DEF front, new
  <2>1. /\ new \in Seq(Releases)
        /\ Len(new) = i + (n - i + 1)
        /\ \A j \in 1..(i + (n - i + 1)) :
               new[j] = IF j <= i THEN front[j] ELSE SubSeq(list, i, n)[j - i]
    BY <1>3, <1>5, <1>6, ConcatProperties
  <2>2. ASSUME NEW j \in 1..(n + 1)
        PROVE  new[j] = IF j < i THEN list[j] ELSE IF j = i THEN r ELSE list[j - 1]
    <3>1. CASE j <= i
      BY <1>1, <1>5, <2>1, <3>1
    <3>2. CASE j > i
      <4>1. j - i \in 1..(n - i + 1)
        BY <1>1, <3>2
      <4>2. SubSeq(list, i, n)[j - i] = list[i + (j - i) - 1]
        BY <1>3, <4>1
      <4> QED BY <1>1, <2>1, <3>2, <4>2
    <3> QED BY <1>1, <3>1, <3>2
  <2> QED BY <1>1, <2>1, <2>2
<1> HIDE DEF new, front
<1>8. DOMAIN new = 1..(n + 1)
  BY <1>7, LenProperties
<1>9. ASSUME NEW j \in 1..(n + 1)
      PROVE  new[j] \in ToSet(list) \union {r}
  <2>1. CASE j < i
    <3>1. j \in 1..n
      BY <1>1, <2>1
    <3> QED BY <1>1, <1>7, <2>1, <3>1 DEF ToSet
  <2>2. CASE j = i
    BY <1>1, <1>7, <2>2
  <2>3. CASE j > i
    <3>1. j - 1 \in 1..n /\ new[j] = list[j - 1]
      BY <1>1, <1>7, <2>3
    <3> QED BY <1>1, <3>1 DEF ToSet
  <2> QED BY <1>1, <2>1, <2>2, <2>3
<1>10. r \in ToSet(new)
  BY <1>1, <1>7, <1>8 DEF ToSet
<1>11. ASSUME NEW j \in 1..n
       PROVE  list[j] \in ToSet(new)
  <2>1. CASE j < i
    BY <1>1, <1>7, <1>8, <2>1 DEF ToSet
  <2>2. CASE j >= i
    <3>1. j + 1 \in 1..(n + 1) /\ new[j + 1] = list[j]
      BY <1>1, <1>7, <2>2
    <3> QED BY <1>8, <3>1 DEF ToSet
  <2> QED BY <1>1, <2>1, <2>2
<1> QED BY <1>1, <1>7, <1>8, <1>9, <1>10, <1>11 DEF ToSet, new

\* An entry adds at most its own version to the full releases.
LEMMA InsertReleases ==
    ASSUME NEW list \in Seq(Releases), NEW r \in Releases, NEW i \in 1..(Len(list) + 1)
    PROVE  /\ FullReleases(list) \subseteq FullReleases(InsertAt(list, i, r))
           /\ FullReleases(InsertAt(list, i, r)) \subseteq FullReleases(list) \union {r.version}
BY InsertFacts DEF FullReleases

-----------------------------------------------------------------------------
(* The inductive invariant *)

\* Whatever selection of the releases is looked at has a newest one.
NewestInv == \A T \in SUBSET FullReleases(releases) : T # {} => HasNewest(T)

\* No release is taken back.
GrowInv == FullReleases(known) \subseteq FullReleases(releases)

\* What the plan has established when it has outputs.
PlanInv ==
    status = "planned" =>
        /\ Plannable
        /\ mode = "requirements" => spec = Specs(None)
        /\ mode = "latest" => /\ SelectsLatest(known, ToolsRequired)
                              /\ spec = Specs(Newest(FullReleases(known)))

\* What is set up is a release that matches, none older than a matching release
\* of the plan's list, and the tools came first.
RuntimeInv ==
    \A s \in Setups : runtime[s] # None =>
        /\ status = "planned"
        /\ runtime[s] \in Full
        /\ IsPrefix(spec[UseOf(s)], runtime[s])
        /\ \A v \in FullReleases(known) :
               IsPrefix(spec[UseOf(s)], v) => ~Less(runtime[s], v)
        /\ \A t \in Earlier(s) : runtime[t] # None

CanaryInv == canary = "success" => mode = "latest" /\ \A s \in Setups : runtime[s] # None

IInv ==
    /\ TypeOK /\ NewestInv /\ GrowInv
    /\ PlanInv /\ PlanFailsForReason /\ RuntimeInv /\ CanaryInv

LEMMA InitIInv == Init => IInv
<1> SUFFICES ASSUME Init PROVE IInv
  OBVIOUS
<1>1. None \in Texts /\ Len(None) = 0
  BY EmptySeq DEF None, Texts
<1>2. << >> \in Seq(Releases) /\ ToSet(<< >>) = {}
  BY DEF ToSet
<1>3. TypeOK
  <2>1. spec \in [Uses -> Texts]
    BY <1>1 DEF Init
  <2>2. runtime \in [Setups -> {t \in Texts : Len(t) # 1}]
    <3>1. None \in {t \in Texts : Len(t) # 1}
      BY <1>1
    <3> QED BY <3>1 DEF Init
  <2> QED BY <1>2, <2>1, <2>2 DEF Init, TypeOK
<1>4. FullReleases(releases) = {} /\ FullReleases(known) = {}
  BY <1>2 DEF Init, FullReleases
<1> QED
  BY <1>3, <1>4 DEF Init, IInv, NewestInv, GrowInv, PlanInv, PlanFailsForReason,
                    RuntimeInv, CanaryInv

LEMMA PublishStep ==
    ASSUME IInv, NEW r \in Releases, Publish(r)
    PROVE  IInv'
<1>1. PICK i \in 1..(Len(releases) + 1) : releases' = InsertAt(releases, i, r)
  BY DEF Publish
<1>2. releases \in Seq(Releases) /\ releases' \in Seq(Releases)
  BY <1>1, InsertFacts DEF IInv, TypeOK
<1> DEFINE old == FullReleases(releases)
           new == FullReleases(releases')
<1>3. old \subseteq new /\ new \subseteq old \union {r.version} /\ new \subseteq Full
  BY <1>1, <1>2, InsertReleases, FullReleasesType
<1>4. TypeOK'
  BY <1>2 DEF IInv, TypeOK, Publish
<1>5. NewestInv'
  <2> SUFFICES ASSUME NEW T \in SUBSET new, T # {}
               PROVE  HasNewest(T)
    BY DEF NewestInv
  <2> HIDE DEF old, new
  <2>1. CASE r.version \notin T
    BY <1>3, <2>1 DEF IInv, NewestInv, old
  <2>2. CASE r.version \in T
    <3>1. T \ {r.version} \in SUBSET old /\ r.version \in Full
      BY <1>3, <2>2
    <3>2. T \ {r.version} = {} \/ HasNewest(T \ {r.version})
      BY <3>1 DEF IInv, NewestInv, old
    <3>3. HasNewest((T \ {r.version}) \union {r.version})
      BY <1>3, <3>1, <3>2, FullIsPlain, NewestOfMore
    <3>4. (T \ {r.version}) \union {r.version} = T
      BY <2>2
    <3> QED BY <3>3, <3>4
  <2> QED BY <2>1, <2>2
<1>6. GrowInv'
  BY <1>3 DEF IInv, GrowInv, Publish
<1>7. PlanInv'
  BY DEF IInv, Publish, PlanInv, Plannable, Readable, Specs, SelectsLatest, ToolsRequired,
         Preferred, Minimum
<1>8. PlanFailsForReason'
  BY DEF IInv, Publish, PlanFailsForReason, Readable, Wanted
<1>9. RuntimeInv'
  BY DEF IInv, Publish, RuntimeInv
<1>10. CanaryInv'
  BY DEF IInv, Publish, CanaryInv
<1> QED BY <1>4, <1>5, <1>6, <1>7, <1>8, <1>9, <1>10 DEF IInv

\* The outputs are versions.
LEMMA SpecsType ==
    ASSUME manifest \in Manifests, \A m \in Modules : Readable(m), NEW latest \in Texts
    PROVE  Specs(latest) \in [Uses -> Texts]
<1>1. \A m \in Modules : Minimum(m) \in Full /\ Preferred(m) \in Full
  BY PreferredFacts
<1>2. ToolsRequired \in Full
  BY ToolsFacts
<1>3. \A v \in Full : SeriesOf(v) \in Texts
  BY PrefixFacts
<1> QED BY <1>1, <1>2, <1>3 DEF Specs, Uses, Modules

LEMMA PlanStep ==
    ASSUME IInv, PlanValidation
    PROVE  IInv'
<1>1. /\ status = "planning" /\ known' = releases
      /\ UNCHANGED <<mode, manifest, alone, releases, runtime, canary>>
  BY DEF PlanValidation
<1>2. \A s \in Setups : runtime[s] = None
  BY <1>1 DEF IInv, RuntimeInv
<1>3. NewestInv' /\ GrowInv' /\ RuntimeInv'
  BY <1>1, <1>2 DEF IInv, NewestInv, GrowInv, RuntimeInv
<1>4. CanaryInv'
  BY <1>1 DEF IInv, CanaryInv
<1>5. Readable("root")' = Readable("root") /\ Plannable' = Plannable
      /\ (\A m \in Modules : Readable(m)' = Readable(m))
  BY <1>1 DEF Readable, Plannable
<1>6. manifest \in Manifests /\ releases \in Seq(Releases)
  BY DEF IInv, TypeOK
<1>7. ASSUME status' = "failed", UNCHANGED spec, cut' \in BOOLEAN,
             ~Plannable \/ cut' \/ (mode = "latest" /\ ~SelectsLatest(releases, ToolsRequired))
      PROVE  IInv'
  <2>1. TypeOK' /\ PlanInv'
    BY <1>1, <1>6, <1>7 DEF IInv, TypeOK, PlanInv
  <2>2. PlanFailsForReason'
    <3>1. CASE ~Plannable \/ cut'
      BY <1>1, <1>5, <1>6, <1>7, <3>1 DEF PlanFailsForReason, Plannable, Modes, IInv, TypeOK
    <3>2. CASE Plannable /\ mode = "latest" /\ ~SelectsLatest(releases, ToolsRequired)
      <4>1. SUFFICES ASSUME NEW v \in FullReleases(releases)
                     PROVE  \E s \in Setups : \E w \in Wanted(s) : ~AtLeast(v, w)
        BY <1>1, <3>2 DEF PlanFailsForReason, Wanted
      <4>2. HasNewest(FullReleases(releases)) /\ FullReleases(releases) # {}
        BY DEF IInv, NewestInv
      <4>3. /\ Newest(FullReleases(releases)) \in FullReleases(releases)
            /\ ~Less(Newest(FullReleases(releases)), v)
        BY <4>2, NewestFacts
      <4>4. Less(Newest(FullReleases(releases)), ToolsRequired)
        BY <3>2, <4>2 DEF SelectsLatest
      <4>5. PICK m \in Modules : ToolsRequired = Preferred(m) /\ ToolsRequired \in Full
        BY <1>6, <3>2, ToolsFacts DEF Plannable
      <4>6. FullReleases(releases) \subseteq Full
        BY <1>6, FullReleasesType
      <4>7. Less(v, Preferred(m))
        BY <4>3, <4>4, <4>5, <4>6, LessFacts
      <4>8. Preferred(m) \in Lines(m) /\ Preferred(m) \in Full
        BY <1>6, <3>2, <4>5, PreferredFacts DEF Plannable
      <4>9. ~AtLeast(v, Preferred(m))
        BY <4>6, <4>7, <4>8, LessFacts
      <4>10. \E s \in Setups : Wanted(s) = Lines(m)
        <5>1. CASE m = "tools"
          BY <5>1 DEF Wanted, Lines, Setups, Modules
        <5>2. CASE m # "tools"
          BY <5>2 DEF Wanted, Lines, Setups, Modules
        <5> QED BY <5>1, <5>2
      <4> QED BY <4>8, <4>9, <4>10
    <3> QED BY <1>7, <3>1, <3>2
  <2> QED BY <1>3, <1>4, <2>1, <2>2 DEF IInv
<1>8. ASSUME NEW latest \in Texts, Plannable, status' = "planned", spec' = Specs(latest), UNCHANGED cut,
             mode = "requirements" => latest = None,
             mode = "latest" => /\ SelectsLatest(releases, ToolsRequired)
                                /\ latest = Newest(FullReleases(releases))
      PROVE  IInv'
  <2>1. TypeOK'
    <3>1. spec' \in [Uses -> Texts]
      BY <1>6, <1>8, SpecsType DEF Plannable
    <3> QED BY <1>1, <1>6, <1>8, <3>1 DEF IInv, TypeOK
  <2>2. PlanFailsForReason'
    BY <1>8 DEF PlanFailsForReason
  <2>3. PlanInv'
    <3>1. ToolsRequired' = ToolsRequired
      BY <1>1 DEF ToolsRequired, Preferred, Minimum
    <3>2. Specs(None)' = Specs(None)
      BY <1>1, <3>1 DEF Specs, Preferred, Minimum
    <3>3. Specs(Newest(FullReleases(known)))' = Specs(Newest(FullReleases(releases)))
      BY <1>1, <3>1 DEF Specs, Preferred, Minimum
    <3>4. SelectsLatest(known, ToolsRequired)' = SelectsLatest(releases, ToolsRequired)
      BY <1>1, <3>1 DEF SelectsLatest
    <3> QED BY <1>1, <1>5, <1>8, <3>2, <3>3, <3>4 DEF PlanInv
  <2> QED BY <1>3, <1>4, <2>1, <2>2, <2>3 DEF IInv
<1>9. None \in Texts
  BY EmptySeq DEF None, Texts
<1>10. CASE PlanFails
  BY <1>7, <1>10 DEF PlanValidation, PlanFails, IInv, TypeOK
<1>11. CASE Plannable /\ mode = "requirements" /\ status' = "planned" /\ spec' = Specs(None)
            /\ UNCHANGED cut
  BY <1>8, <1>9, <1>11
<1>12. CASE /\ Plannable /\ mode = "latest" /\ SelectsLatest(releases, ToolsRequired)
            /\ status' = "planned" /\ UNCHANGED cut
            /\ spec' = Specs(Newest(FullReleases(releases)))
  <2>1. Newest(FullReleases(releases)) \in FullReleases(releases)
    BY <1>12, NewestFacts DEF SelectsLatest, IInv, NewestInv
  <2>2. Newest(FullReleases(releases)) \in Texts
    BY <1>6, <2>1, FullReleasesType DEF Full
  <2> QED BY <1>8, <1>12, <2>2
<1> QED BY <1>10, <1>11, <1>12 DEF PlanValidation

LEMMA SetUpStep ==
    ASSUME IInv, NEW s \in Setups, SetUp(s)
    PROVE  IInv'
<1>1. /\ status = "planned" /\ runtime[s] = None /\ Matching(s) # {}
      /\ \A t \in Earlier(s) : runtime[t] # None
      /\ runtime' = [runtime EXCEPT ![s] = Newest(Matching(s))]
      /\ UNCHANGED <<mode, manifest, alone, releases, status, spec, canary, known, cut>>
  BY DEF SetUp
<1>2. /\ runtime \in [Setups -> {t \in Texts : Len(t) # 1}]
      /\ releases \in Seq(Releases)
  BY DEF IInv, TypeOK
<1>3. Matching(s) \in SUBSET FullReleases(releases)
  BY DEF Matching
<1>4. HasNewest(Matching(s))
  BY <1>1, <1>3 DEF IInv, NewestInv
<1>5. /\ Newest(Matching(s)) \in Matching(s)
      /\ \A v \in Matching(s) : ~Less(Newest(Matching(s)), v)
  BY <1>4, NewestFacts
<1>6. Newest(Matching(s)) \in Full /\ Newest(Matching(s)) # None
  BY <1>2, <1>3, <1>5, FullReleasesType, FullFacts
<1>7. Newest(Matching(s)) \in {t \in Texts : Len(t) # 1}
  BY <1>6 DEF Full
<1>8. runtime' \in [Setups -> {t \in Texts : Len(t) # 1}]
  BY <1>1, <1>2, <1>7
<1>9. /\ runtime'[s] = Newest(Matching(s))
      /\ \A t \in Setups \ {s} : runtime'[t] = runtime[t]
  BY <1>1, <1>2
<1>10. \A t \in Setups : runtime[t] # None => runtime'[t] # None
  BY <1>6, <1>9
<1>11. RuntimeInv'
  <2> SUFFICES ASSUME NEW t \in Setups, runtime'[t] # None
               PROVE  /\ status' = "planned"
                      /\ runtime'[t] \in Full
                      /\ IsPrefix(spec'[UseOf(t)], runtime'[t])
                      /\ \A v \in FullReleases(known') :
                             IsPrefix(spec'[UseOf(t)], v) => ~Less(runtime'[t], v)
                      /\ \A e \in Earlier(t) : runtime'[e] # None
    BY DEF RuntimeInv
  <2>1. \A x \in Setups : Earlier(x) \subseteq Setups
    BY DEF Earlier, Setups
  <2>2. CASE t = s
    <3>1. IsPrefix(spec[UseOf(s)], Newest(Matching(s)))
      BY <1>5 DEF Matching
    <3>2. \A v \in FullReleases(known) : IsPrefix(spec[UseOf(s)], v) => v \in Matching(s)
      BY DEF IInv, GrowInv, Matching
    <3> QED BY <1>1, <1>5, <1>6, <1>9, <1>10, <2>1, <2>2, <3>1, <3>2
  <2>3. CASE t # s
    BY <1>1, <1>9, <1>10, <2>1, <2>3 DEF IInv, RuntimeInv
  <2> QED BY <2>2, <2>3
<1>12. TypeOK'
  BY <1>1, <1>8 DEF IInv, TypeOK
<1>13. NewestInv' /\ GrowInv' /\ CanaryInv'
  BY <1>1, <1>10 DEF IInv, NewestInv, GrowInv, CanaryInv
<1>14. PlanInv' /\ PlanFailsForReason'
  BY <1>1 DEF IInv, PlanInv, PlanFailsForReason, Plannable, Readable, Specs, SelectsLatest,
              ToolsRequired, Preferred, Minimum
<1> QED BY <1>11, <1>12, <1>13, <1>14 DEF IInv

LEMMA CanaryStep ==
    ASSUME IInv, Canary
    PROVE  IInv'
<1>1. UNCHANGED <<mode, manifest, alone, releases, status, spec, runtime, known, cut>>
  BY DEF Canary
<1>2. TypeOK'
  BY <1>1 DEF IInv, TypeOK, Canary
<1>3. NewestInv' /\ GrowInv' /\ RuntimeInv'
  BY <1>1 DEF IInv, NewestInv, GrowInv, RuntimeInv
<1>4. PlanInv' /\ PlanFailsForReason'
  BY <1>1 DEF IInv, PlanInv, PlanFailsForReason, Plannable, Readable, Specs, SelectsLatest,
              ToolsRequired, Preferred, Minimum, Wanted
<1>5. CanaryInv'
  BY DEF Canary, CanaryPasses, CanaryInv
<1> QED BY <1>2, <1>3, <1>4, <1>5 DEF IInv

LEMMA StutterStep ==
    ASSUME IInv, UNCHANGED vars
    PROVE  IInv'
<1>1. TypeOK'
  BY DEF IInv, TypeOK, vars
<1>2. NewestInv' /\ GrowInv' /\ RuntimeInv' /\ CanaryInv'
  BY DEF IInv, NewestInv, GrowInv, RuntimeInv, CanaryInv, vars
<1>3. PlanInv' /\ PlanFailsForReason'
  BY DEF IInv, PlanInv, PlanFailsForReason, Plannable, Readable, Specs, SelectsLatest,
         ToolsRequired, Preferred, Minimum, Wanted, vars
<1> QED BY <1>1, <1>2, <1>3 DEF IInv

\* Every reachable state satisfies the invariant.
THEOREM Invariance == Spec => []IInv
<1>1. Init => IInv
  BY InitIInv
<1>2. IInv /\ [Next]_vars => IInv'
  BY PublishStep, PlanStep, SetUpStep, CanaryStep, StutterStep DEF Next
<1> QED BY <1>1, <1>2, PTL DEF Spec

\* Type correctness.
THEOREM TypeCorrect == Spec => []TypeOK
<1>1. IInv => TypeOK
  BY DEF IInv
<1> QED BY <1>1, Invariance, PTL

\* The plan, plan_go_validation.sh, fails only where it is left nothing to plan.
THEOREM FailsForReason == Spec => []PlanFailsForReason
<1>1. IInv => PlanFailsForReason
  BY DEF IInv
<1> QED BY <1>1, Invariance, PTL

-----------------------------------------------------------------------------
(* What follows in every state *)

\* The release of the plan's list that the jobs get in mode latest.
LEMMA LatestFacts ==
    ASSUME IInv, status = "planned", mode = "latest"
    PROVE  /\ Newest(FullReleases(known)) \in FullReleases(known)
           /\ Newest(FullReleases(known)) \in Full
           /\ \A v \in FullReleases(known) : ~Less(Newest(FullReleases(known)), v)
           /\ ~Less(Newest(FullReleases(known)), ToolsRequired)
<1>1. SelectsLatest(known, ToolsRequired) /\ known \in Seq(Releases)
  BY DEF IInv, PlanInv, TypeOK
<1>2. HasNewest(FullReleases(known))
  BY <1>1 DEF SelectsLatest, IInv, NewestInv, GrowInv
<1>3. FullReleases(known) \subseteq Full
  BY <1>1, FullReleasesType
<1> QED BY <1>1, <1>2, <1>3, NewestFacts DEF SelectsLatest

\* In mode latest all jobs but the floor work with that one release.
LEMMA LatestRuntime ==
    ASSUME IInv, mode = "latest", NEW s \in Setups \ {"floor"}, runtime[s] # None
    PROVE  runtime[s] = Newest(FullReleases(known))
<1>1. status = "planned" /\ runtime[s] \in Full /\ IsPrefix(spec[UseOf(s)], runtime[s])
  BY DEF IInv, RuntimeInv
<1>2. spec = Specs(Newest(FullReleases(known)))
  BY <1>1 DEF IInv, PlanInv
<1>3. spec[UseOf(s)] = Newest(FullReleases(known))
  BY <1>2 DEF Specs, UseOf, Uses, Setups
<1>4. Newest(FullReleases(known)) \in Full
  BY <1>1, LatestFacts
<1> QED BY <1>1, <1>3, <1>4, PrefixFacts

\* What a module asks for is no newer than what it prefers and the tools need.
LEMMA WantedFacts ==
    ASSUME manifest \in Manifests, \A m \in Modules : Readable(m), NEW s \in Setups
    PROVE  /\ Wanted(s) \subseteq Full
           /\ \A v \in Wanted(s) : ~Less(ToolsRequired, v)
           /\ s = "floor" => Wanted(s) = {Minimum("root")}
           /\ s \in Modules => \A v \in Wanted(s) : ~Less(Preferred(s), v)
<1> DEFINE m == IF s = "floor" THEN "root" ELSE IF s \in Modules THEN s ELSE "tools"
<1>1. m \in Modules
  BY DEF Modules
<1>2. Wanted(s) \subseteq Lines(m)
  <2>1. CASE s = "floor"
    BY <2>1 DEF Wanted, Lines
  <2>2. CASE s # "floor"
    BY <2>2 DEF Wanted, Lines
  <2> QED BY <2>1, <2>2
<1>3. s \in Modules => m = s
  BY DEF Modules
<1>4. s = "floor" => Wanted(s) = {Minimum("root")}
  BY PreferredFacts DEF Wanted, Modules
<1> HIDE DEF m
<1>5. Lines(m) \subseteq Full /\ Preferred(m) \in Full /\ \A v \in Lines(m) : ~Less(Preferred(m), v)
  BY <1>1, PreferredFacts
<1>6. ToolsRequired \in Full /\ ~Less(ToolsRequired, Preferred(m))
  BY <1>1, ToolsFacts
<1>7. \A v \in Lines(m) : ~Less(ToolsRequired, v)
  BY <1>5, <1>6, LessFacts
<1> QED BY <1>2, <1>3, <1>4, <1>5, <1>7

\* Outside mode latest a job works in the series of one release that is no older
\* than what is wanted of it.
LEMMA SeriesRuntime ==
    ASSUME IInv, NEW s \in Setups, runtime[s] # None, mode = "requirements" \/ s = "floor"
    PROVE  \E p \in Full :
               /\ runtime[s][1] = p[1]
               /\ \A v \in Wanted(s) : ~Less(p, v)
               /\ \A v \in FullReleases(known) : v[1] = p[1] => ~Less(runtime[s], v)
               /\ p = CASE s = "floor" -> Minimum("root")
                        [] s = "root" -> Preferred("root")
                        [] s = "example" -> Preferred("example")
                        [] OTHER -> ToolsRequired
<1> DEFINE p == CASE s = "floor" -> Minimum("root")
                  [] s = "root" -> Preferred("root")
                  [] s = "example" -> Preferred("example")
                  [] OTHER -> ToolsRequired
<1>1. /\ status = "planned" /\ Plannable
      /\ manifest \in Manifests /\ known \in Seq(Releases)
      /\ runtime[s] \in Full /\ IsPrefix(spec[UseOf(s)], runtime[s])
      /\ \A v \in FullReleases(known) : IsPrefix(spec[UseOf(s)], v) => ~Less(runtime[s], v)
  BY DEF IInv, TypeOK, RuntimeInv, PlanInv
<1>2. \A m \in Modules : Readable(m)
  BY <1>1 DEF Plannable
<1>3. spec[UseOf(s)] = SeriesOf(p)
  <2>1. CASE mode = "requirements"
    <3>1. spec = Specs(None)
      BY <1>1, <2>1 DEF IInv, PlanInv
    <3> QED BY <2>1, <3>1 DEF Specs, UseOf, Uses, Setups
  <2>2. CASE mode = "latest" /\ s = "floor"
    <3>1. spec = Specs(Newest(FullReleases(known)))
      BY <1>1, <2>2 DEF IInv, PlanInv
    <3> QED BY <2>2, <3>1 DEF Specs, UseOf, Uses
  <2> QED BY <1>1, <2>1, <2>2 DEF Plannable
<1>4. p \in Full
  BY <1>1, <1>2, PreferredFacts, ToolsFacts DEF Modules
<1>5. \A v \in Wanted(s) : ~Less(p, v)
  <2>1. CASE s = "floor"
    BY <1>1, <1>2, <1>4, <2>1, WantedFacts, LessFacts
  <2>2. CASE s # "floor"
    BY <1>1, <1>2, <2>2, WantedFacts DEF Modules
  <2> QED BY <2>1, <2>2
<1> HIDE DEF p
<1>6. FullReleases(known) \subseteq Full
  BY <1>1, FullReleasesType
<1>7. \A v \in Full : IsPrefix(spec[UseOf(s)], v) <=> p[1] = v[1]
  BY <1>3, <1>4, PrefixFacts
<1> QED BY <1>1, <1>4, <1>5, <1>6, <1>7 DEF p

-----------------------------------------------------------------------------
(* The properties *)

LEMMA FitsInv == IInv => RuntimesFit
<1> SUFFICES ASSUME IInv, NEW s \in Setups, runtime[s] # None
             PROVE  /\ \A v \in Wanted(s) :
                           v \in FullReleases(known) \/ (mode = "latest" /\ s # "floor")
                               => AtLeast(runtime[s], v)
                    /\ s = "floor" => \A v \in Wanted(s) : runtime[s][1] = v[1]
  BY DEF RuntimesFit
<1>1. /\ status = "planned" /\ Plannable /\ runtime[s] \in Full
      /\ manifest \in Manifests /\ \A m \in Modules : Readable(m)
  BY DEF IInv, TypeOK, RuntimeInv, PlanInv, Plannable
<1>2. Wanted(s) \subseteq Full
  BY <1>1, WantedFacts
<1>3. CASE mode = "latest" /\ s # "floor"
  <2>1. runtime[s] = Newest(FullReleases(known)) /\ ~Less(runtime[s], ToolsRequired)
    BY <1>1, <1>3, LatestFacts, LatestRuntime
  <2>2. ToolsRequired \in Full /\ \A v \in Wanted(s) : ~Less(ToolsRequired, v)
    BY <1>1, ToolsFacts, WantedFacts
  <2>3. \A v \in Wanted(s) : AtLeast(runtime[s], v)
    BY <1>1, <1>2, <2>1, <2>2, LessFacts
  <2> QED BY <1>3, <2>3
<1>4. CASE mode = "requirements" \/ s = "floor"
  <2>1. PICK p \in Full :
            /\ runtime[s][1] = p[1]
            /\ \A v \in Wanted(s) : ~Less(p, v)
            /\ \A v \in FullReleases(known) : v[1] = p[1] => ~Less(runtime[s], v)
            /\ s = "floor" => p = Minimum("root")
    BY <1>4, SeriesRuntime
  <2>2. ASSUME NEW v \in Wanted(s), v \in FullReleases(known)
        PROVE  AtLeast(runtime[s], v)
    <3>1. CASE v[1] = p[1]
      BY <1>1, <1>2, <2>1, <2>2, <3>1, LessFacts
    <3>2. CASE v[1] # p[1]
      <4>1. v[1] < p[1]
        BY <1>2, <2>1, <3>2, FullFacts DEF Less
      <4> QED BY <1>1, <1>2, <2>1, <4>1, FullFacts DEF AtLeast
    <3> QED BY <3>1, <3>2
  <2>3. s = "floor" => \A v \in Wanted(s) : runtime[s][1] = v[1]
    BY <1>1, <2>1, WantedFacts
  <2> QED BY <1>4, <2>2, <2>3
<1> QED BY <1>1, <1>3, <1>4 DEF Plannable

\* setup-go never gives a job a release that its module, with
\* GOTOOLCHAIN=local, cannot be built with.
THEOREM RuntimesSuffice == Spec => []RuntimesFit
BY FitsInv, Invariance, PTL

\* The tools of one job and the release of its module.
LEMMA ToolsOfJob ==
    ASSUME IInv, NEW s \in {"root", "example"}, runtime[s] # None,
           NEW t \in {"root_tools", "example_tools"}, runtime[t] # None
    PROVE  runtime[t][1] >= runtime[s][1]
<1>1. /\ status = "planned" /\ Plannable /\ runtime[s] \in Full /\ s \in Setups /\ t \in Setups
      /\ manifest \in Manifests /\ \A m \in Modules : Readable(m)
  BY DEF IInv, TypeOK, RuntimeInv, PlanInv, Plannable, Setups
<1>2. CASE mode = "latest"
  <2>1. runtime[t] = runtime[s]
    BY <1>1, <1>2, LatestRuntime
  <2> QED BY <1>1, <2>1, FullFacts
<1>3. CASE mode = "requirements"
  <2>1. runtime[s][1] = Preferred(s)[1]
    BY <1>1, <1>3, SeriesRuntime
  <2>2. runtime[t][1] = ToolsRequired[1]
    BY <1>1, <1>3, SeriesRuntime
  <2>3. /\ Preferred(s) \in Full /\ ToolsRequired \in Full
        /\ ~Less(ToolsRequired, Preferred(s))
    BY <1>1, PreferredFacts, ToolsFacts DEF Modules
  <2> QED BY <2>1, <2>2, <2>3, FullFacts DEF Less
<1> QED BY <1>1, <1>2, <1>3 DEF Plannable

LEMMA ToolsInv == IInv => ToolsNotOlder
<1> SUFFICES ASSUME IInv PROVE ToolsNotOlder
  OBVIOUS
<1>1. runtime["root"] # None => runtime["root_tools"] # None
  BY DEF IInv, RuntimeInv, Setups, Earlier
<1>2. runtime["example"] # None => runtime["example_tools"] # None
  BY DEF IInv, RuntimeInv, Setups, Earlier
<1> QED BY <1>1, <1>2, ToolsOfJob DEF ToolsNotOlder

\* golangci-lint and govulncheck are built by a series no older than the one
\* they are run with.
THEOREM ToolsKeepUp == Spec => []ToolsNotOlder
BY ToolsInv, Invariance, PTL

LEMMA CanaryHolds == IInv => CanaryProvesNewest
<1> SUFFICES ASSUME IInv, canary = "success", NEW s \in Setups \ {"floor"}
             PROVE  /\ IsNewestOf(runtime[s], FullReleases(known))
                    /\ \A t \in Setups : \A v \in Wanted(t) : AtLeast(runtime[s], v)
  BY DEF CanaryProvesNewest
<1> DEFINE latest == Newest(FullReleases(known))
<1>1. mode = "latest" /\ runtime[s] # None
  BY DEF IInv, CanaryInv
<1>2. /\ status = "planned" /\ known \in Seq(Releases)
      /\ manifest \in Manifests /\ \A m \in Modules : Readable(m)
  BY <1>1 DEF IInv, TypeOK, RuntimeInv, PlanInv, Plannable
<1>3. runtime[s] = latest
  BY <1>1, LatestRuntime
<1>4. /\ latest \in FullReleases(known) /\ latest \in Full
      /\ \A v \in FullReleases(known) : ~Less(latest, v)
      /\ ~Less(latest, ToolsRequired)
  BY <1>1, <1>2, LatestFacts
<1> HIDE DEF latest
<1>5. IsNewestOf(latest, FullReleases(known))
  <2>1. FullReleases(known) \subseteq Full
    BY <1>2, FullReleasesType
  <2>2. \A w \in FullReleases(known) : AtLeast(Normalize(latest), Normalize(w))
    BY <1>4, <2>1, LessFacts, NormalizeFull
  <2> QED BY <1>4, <2>2 DEF IsNewestOf
<1>6. ASSUME NEW t \in Setups, NEW v \in Wanted(t)
      PROVE  AtLeast(latest, v)
  <2>1. v \in Full /\ ToolsRequired \in Full /\ ~Less(ToolsRequired, v)
    BY <1>2, ToolsFacts, WantedFacts
  <2> QED BY <1>4, <2>1, LessFacts
<1> QED BY <1>3, <1>5, <1>6

\* A green canary, latest-go-canary.yml, has built everything with the newest
\* release there was when it was planned.
THEOREM CanaryIsEarned == Spec => []CanaryProvesNewest
BY CanaryHolds, Invariance, PTL

-----------------------------------------------------------------------------
(* select_version: induction over the list *)

\* A set of numbers that has 0, and with each its successor, has all: there is
\* no least number that it has not.
LEMMA NatSetInduction ==
    ASSUME NEW T \in SUBSET Nat, 0 \in T, \A n \in T : n + 1 \in T
    PROVE  T = Nat
<1> DEFINE R == OpToRel(<, Nat)
           rest == Nat \ T
<1>1. IsWellFoundedOn(R, Nat)
  BY NatLessThanWellFounded
<1>2. \A x, y \in Nat : <<x, y>> \in R <=> x < y
  BY DEF OpToRel
<1> HIDE DEF R
<1>3. ASSUME rest # {} PROVE FALSE
  <2>1. PICK x \in rest : \A y \in rest : ~(<<y, x>> \in R)
    BY <1>1, <1>3, WFMin
  <2>2. x \in Nat /\ x - 1 \in Nat /\ x - 1 < x
    BY <2>1
  <2>3. x - 1 \in T
    BY <1>2, <2>1, <2>2
  <2>4. (x - 1) + 1 \in T
    BY <2>3
  <2> QED BY <2>1, <2>2, <2>4
<1> QED BY <1>3

\* The loop is defined for lists of every length.
LEMMA FoundDef ==
    ASSUME NEW requested, NEW list, Len(list) \in Nat
    PROVE  /\ Found(requested, list)[0] = NoneFound
           /\ \A n \in 1..Len(list) :
                  Found(requested, list)[n] =
                      Visit(requested, Found(requested, list)[n - 1], list[n])
<1> DEFINE Loop(g, m) == [n \in 0..m |->
                             IF n = 0 THEN NoneFound ELSE Visit(requested, g[n - 1], list[n])]
           T == {m \in Nat : \E g : g = Loop(g, m)}
<1>1. 0 \in T
  <2> DEFINE g == [n \in 0..0 |-> NoneFound]
  <2>1. g = Loop(g, 0)
    OBVIOUS
  <2> QED BY <2>1
<1>2. ASSUME NEW m \in T PROVE m + 1 \in T
  <2>1. PICK g : g = Loop(g, m)
    BY <1>2
  <2> DEFINE h == [n \in 0..(m + 1) |->
                      IF n <= m THEN g[n] ELSE Visit(requested, g[m], list[n])]
  <2>2. m \in Nat
    BY <1>2
  <2>3. \A n \in 0..m : h[n] = g[n]
    BY <2>2
  <2>4. \A n \in 0..m : g[n] = IF n = 0 THEN NoneFound ELSE Visit(requested, g[n - 1], list[n])
    BY <2>1
  <2>5. ASSUME NEW n \in 0..(m + 1)
        PROVE  h[n] = IF n = 0 THEN NoneFound ELSE Visit(requested, h[n - 1], list[n])
    <3>1. CASE n <= m
      <4>1. n \in 0..m /\ (n # 0 => n - 1 \in 0..m)
        BY <2>2, <3>1
      <4> HIDE DEF h
      <4> QED BY <2>3, <2>4, <4>1
    <3>2. CASE n = m + 1
      <4>1. h[n] = Visit(requested, g[m], list[n]) /\ n # 0 /\ n - 1 = m /\ m \in 0..m
        BY <2>2, <3>2
      <4> HIDE DEF h
      <4> QED BY <2>3, <4>1
    <3> QED BY <2>2, <3>1, <3>2
  <2>6. h = Loop(h, m + 1)
    <3>1. DOMAIN h = 0..(m + 1) /\ h = [n \in 0..(m + 1) |-> h[n]]
      OBVIOUS
    <3> HIDE DEF h
    <3> QED BY <2>5, <3>1
  <2>7. m + 1 \in Nat
    BY <2>2
  <2> HIDE DEF h
  <2> QED BY <2>6, <2>7
<1>3. T = Nat
  <2> HIDE DEF T
  <2>1. T \in SUBSET Nat
    BY DEF T
  <2> QED BY <1>1, <1>2, <2>1, NatSetInduction
<1>4. Found(requested, list) = CHOOSE g : g = Loop(g, Len(list))
  BY DEF Found
<1>5. \E g : g = Loop(g, Len(list))
  BY <1>3
<1>6. Found(requested, list) = Loop(Found(requested, list), Len(list))
  <2> HIDE DEF Loop
  <2> QED BY <1>4, <1>5
<1> QED BY <1>6

-----------------------------------------------------------------------------
(* select_version: what its loop finds *)

\* The versions that count among the first n releases.
Counted(list, n) ==
    {list[i].version : i \in {j \in 1..n : list[j].stable /\ Plain(list[j].version)}}

\* v is the newest of a series in a set, or None for a series that it has not.
Tracks(v, S, series) ==
    \/ v = None /\ \A w \in S : w[1] # series
    \/ v \in S /\ v[1] = series /\ \A w \in S : w[1] = series => ~Less(v, w)

LoopInv(found, S, requested) ==
    /\ Tracks(found.latest, S, requested)
    /\ DOMAIN found.newest = SeriesNamed
    /\ \A n \in SeriesNamed : Tracks(found.newest[n], S, n)

LEMMA CountedFacts ==
    ASSUME NEW list \in Seq(Releases)
    PROVE  /\ Counted(list, 0) = {}
           /\ \A n \in 0..Len(list) :
                  Counted(list, n) \subseteq PlainTexts /\ Counted(list, n) \subseteq Names
           /\ \A n \in 1..Len(list) :
                  /\ list[n] \in Releases
                  /\ Counted(list, n) =
                         IF list[n].stable /\ Plain(list[n].version)
                         THEN Counted(list, n - 1) \union {list[n].version}
                         ELSE Counted(list, n - 1)
<1>1. Len(list) \in Nat /\ \A i \in 1..Len(list) : list[i] \in Releases
  BY ElementOfSeq
<1>2. \A i \in 1..Len(list) : list[i].version \in Names
  BY <1>1 DEF Releases
<1>3. ASSUME NEW n \in 0..Len(list)
      PROVE  Counted(list, n) \subseteq PlainTexts /\ Counted(list, n) \subseteq Names
  <2> SUFFICES ASSUME NEW i \in 1..n, Plain(list[i].version)
               PROVE  list[i].version \in PlainTexts /\ list[i].version \in Names
    BY DEF Counted
  <2>1. i \in 1..Len(list)
    BY <1>1
  <2> QED BY <1>2, <2>1, PlanAssumption DEF PlainTexts
<1>4. ASSUME NEW n \in 1..Len(list)
      PROVE  Counted(list, n) = IF list[n].stable /\ Plain(list[n].version)
                                THEN Counted(list, n - 1) \union {list[n].version}
                                ELSE Counted(list, n - 1)
  <2>1. \A i : i \in 1..n <=> i \in 1..(n - 1) \/ i = n
    BY <1>1
  <2> QED BY <2>1 DEF Counted
<1> QED BY <1>1, <1>3, <1>4 DEF Counted

\* One more version of a series, and one of another.
LEMMA KeepTracks ==
    ASSUME NEW S \in SUBSET PlainTexts, NEW w \in PlainTexts, NEW v, NEW series,
           Tracks(v, S, series)
    PROVE  Tracks(IF w[1] = series THEN Keep(v, w) ELSE v, S \union {w}, series)
<1>1. CASE w[1] # series
  BY <1>1 DEF Tracks
<1>2. CASE w[1] = series /\ v = None
  <2>1. \A x \in S : x[1] # series
    BY <1>2, PlainFacts DEF Tracks
  <2> QED BY <1>2, <2>1, PlainOrder DEF Tracks, Keep
<1>3. CASE w[1] = series /\ v # None
  <2>1. v \in S /\ v \in PlainTexts /\ v[1] = series
        /\ \A x \in S : x[1] = series => ~Less(v, x)
    BY <1>3 DEF Tracks
  <2>2. CASE Less(v, w)
    <3>1. ~Less(w, v) /\ ~Less(w, w)
      BY <2>1, <2>2, PlainOrder
    <3>2. \A x \in S : x[1] = series => ~Less(w, x)
      BY <2>1, <3>1, PlainOrder
    <3> QED BY <1>3, <2>2, <3>1, <3>2 DEF Tracks, Keep
  <2>3. CASE ~Less(v, w)
    BY <1>3, <2>1, <2>3 DEF Tracks, Keep
  <2> QED BY <2>2, <2>3
<1> QED BY <1>1, <1>2, <1>3

LEMMA VisitStep ==
    ASSUME NEW S \in SUBSET PlainTexts, NEW requested, NEW found, NEW r \in Releases,
           LoopInv(found, S, requested)
    PROVE  LoopInv(Visit(requested, found, r),
                   IF r.stable /\ Plain(r.version) THEN S \union {r.version} ELSE S, requested)
<1>1. CASE ~r.stable \/ ~Plain(r.version)
  BY <1>1 DEF Visit
<1>2. CASE r.stable /\ Plain(r.version)
  <2> DEFINE w == r.version
             new == Visit(requested, found, r)
  <2>1. w \in PlainTexts /\ w[1] \in SeriesNamed
    BY <1>2, PlanAssumption DEF Releases, PlainTexts, Plain, SeriesNamed
  <2>2. /\ new.latest = IF w[1] = requested THEN Keep(found.latest, w) ELSE found.latest
        /\ new.newest = [found.newest EXCEPT ![w[1]] = Keep(found.newest[w[1]], w)]
    BY <1>2 DEF Visit
  <2> HIDE DEF w, new
  <2>3. Tracks(new.latest, S \union {w}, requested)
    BY <2>1, <2>2, KeepTracks DEF LoopInv
  <2>4. DOMAIN new.newest = SeriesNamed
    BY <2>2 DEF LoopInv
  <2>5. ASSUME NEW n \in SeriesNamed PROVE Tracks(new.newest[n], S \union {w}, n)
    <3>1. new.newest[n] = IF w[1] = n THEN Keep(found.newest[n], w) ELSE found.newest[n]
      BY <2>2 DEF LoopInv
    <3> QED BY <2>1, <3>1, KeepTracks DEF LoopInv
  <2> QED BY <1>2, <2>3, <2>4, <2>5 DEF LoopInv, w, new
<1> QED BY <1>1, <1>2

\* The loop finds the newest version of each series among the releases so far.
LEMMA LoopFinds ==
    ASSUME NEW list \in Seq(Releases), NEW requested, NEW n \in 0..Len(list)
    PROVE  LoopInv(Found(requested, list)[n], Counted(list, n), requested)
<1> DEFINE Holds(m) == LoopInv(Found(requested, list)[m], Counted(list, m), requested)
           T == {m \in Nat : m <= Len(list) => Holds(m)}
<1>1. Len(list) \in Nat
  OBVIOUS
<1>2. 0 \in T
  <2>1. LoopInv(NoneFound, {}, requested)
    BY DEF LoopInv, NoneFound, Tracks
  <2> QED BY <1>1, <2>1, FoundDef, CountedFacts
<1>3. ASSUME NEW m \in T PROVE m + 1 \in T
  <2> SUFFICES ASSUME m + 1 <= Len(list) PROVE Holds(m + 1)
    BY <1>3
  <2>1. m \in Nat /\ m \in 0..Len(list) /\ m + 1 \in 1..Len(list) /\ (m + 1) - 1 = m
    BY <1>1, <1>3
  <2>2. Holds(m)
    BY <1>3, <2>1
  <2>3. Counted(list, m) \in SUBSET PlainTexts /\ list[m + 1] \in Releases
    BY <2>1, CountedFacts
  <2>4. Found(requested, list)[m + 1] = Visit(requested, Found(requested, list)[m], list[m + 1])
    BY <1>1, <2>1, FoundDef
  <2>5. Counted(list, m + 1) =
            IF list[m + 1].stable /\ Plain(list[m + 1].version)
            THEN Counted(list, m) \union {list[m + 1].version} ELSE Counted(list, m)
    BY <2>1, CountedFacts
  <2> QED BY <2>2, <2>3, <2>4, <2>5, VisitStep
<1>4. T = Nat
  <2> HIDE DEF T
  <2>1. T \in SUBSET Nat
    BY DEF T
  <2> QED BY <1>2, <1>3, <2>1, NatSetInduction
<1>5. n \in T /\ n <= Len(list)
  BY <1>1, <1>4
<1> QED BY <1>5

\* Any of the versions that count, if there are any, have a newest one.
LEMMA SomeHaveNewest ==
    ASSUME NEW list \in Seq(Releases), NEW Q, NEW n \in 0..Len(list)
    PROVE  Counted(list, n) \intersect Q = {} \/ HasNewest(Counted(list, n) \intersect Q)
<1> DEFINE S(m) == Counted(list, m) \intersect Q
           T == {m \in Nat : m <= Len(list) => S(m) = {} \/ HasNewest(S(m))}
<1>1. Len(list) \in Nat
  OBVIOUS
<1>2. 0 \in T
  BY CountedFacts
<1>3. ASSUME NEW m \in T PROVE m + 1 \in T
  <2> SUFFICES ASSUME m + 1 <= Len(list) PROVE S(m + 1) = {} \/ HasNewest(S(m + 1))
    BY <1>3
  <2>1. m \in Nat /\ m \in 0..Len(list) /\ m + 1 \in 1..Len(list) /\ (m + 1) - 1 = m
    BY <1>1, <1>3
  <2>2. S(m) = {} \/ HasNewest(S(m))
    BY <1>3, <2>1
  <2> DEFINE w == list[m + 1].version
  <2>3. Counted(list, m + 1) = Counted(list, m) \/ Counted(list, m + 1) = Counted(list, m) \union {w}
    BY <2>1, CountedFacts
  <2>4. Counted(list, m) \subseteq PlainTexts /\ Counted(list, m + 1) \subseteq PlainTexts
    <3>1. m + 1 \in 0..Len(list)
      BY <2>1
    <3> QED BY <2>1, <3>1, CountedFacts
  <2>5. CASE S(m + 1) = S(m)
    BY <2>2, <2>5
  <2>6. CASE S(m + 1) = S(m) \union {w} /\ w \in S(m + 1)
    <3>1. w \in PlainTexts /\ S(m) \in SUBSET PlainTexts
      BY <2>4, <2>6
    <3> HIDE DEF S, w
    <3> QED BY <2>2, <2>6, <3>1, NewestOfMore
  <2> QED BY <2>3, <2>5, <2>6
<1>4. T = Nat
  <2> HIDE DEF T
  <2>1. T \in SUBSET Nat
    BY DEF T
  <2> QED BY <1>2, <1>3, <2>1, NatSetInduction
<1>5. n \in T /\ n <= Len(list)
  BY <1>1, <1>4
<1> QED BY <1>5

LEMMA NewestIsNewest ==
    ASSUME NEW S \in SUBSET PlainTexts, NEW v \in S, \A w \in S : ~Less(v, w)
    PROVE  IsNewestOf(v, S)
BY PlainOrder DEF IsNewestOf

\* The answer of select_version, for any list.
LEMMA Selected ==
    ASSUME NEW list \in Seq(Releases), NEW directive, Plain(directive)
    PROVE  LET stable == Counted(list, Len(list))
               mine == {v \in stable : v[1] = directive[1]}
               selected == SelectVersion(directive, list)
               before == {v \in stable : v[1] # selected.version[1]}
           IN  /\ mine # {} => /\ selected.status = "resolved"
                               /\ IsNewestOf(selected.version, mine)
               /\ mine = {} /\ stable # {} =>
                      /\ selected.status = "fallback"
                      /\ IsNewestOf(selected.version, stable)
                      /\ IF before = {} THEN selected.oldstable = None
                                        ELSE IsNewestOf(selected.oldstable, before)
               /\ stable = {} => selected = Unresolved(directive)
<1> DEFINE stable == Counted(list, Len(list))
           requested == directive[1]
           mine == {v \in stable : v[1] = requested}
           selected == SelectVersion(directive, list)
           found == Found(requested, list)[Len(list)]
           lines == {found.newest[n] : n \in SeriesNamed} \ {None}
           older == lines \ {Newest(lines)}
<1>1. Len(list) \in 0..Len(list) /\ stable \subseteq PlainTexts
  BY CountedFacts
<1>2. \A v \in stable : v # None /\ v[1] \in SeriesNamed
  <2>1. stable \subseteq Names /\ \A v \in stable : v # None
    BY <1>1, CountedFacts, PlainFacts
  <2> QED BY <2>1 DEF SeriesNamed
<1>3. LoopInv(found, stable, requested)
  BY <1>1, LoopFinds
<1>4. /\ found.latest # None =>
             selected = [status |-> "resolved", version |-> found.latest, oldstable |-> None]
      /\ found.latest = None /\ lines # {} =>
             selected = [status |-> "fallback", version |-> Newest(lines),
                         oldstable |-> IF older = {} THEN None ELSE Newest(older)]
      /\ found.latest = None /\ lines = {} =>
             selected = Unresolved(directive)
  BY DEF SelectVersion
<1> HIDE DEF selected, found, stable
<1>5. ASSUME mine # {}
      PROVE  selected.status = "resolved" /\ IsNewestOf(selected.version, mine)
  <2>1. found.latest \in mine /\ \A w \in mine : ~Less(found.latest, w)
    BY <1>3, <1>5 DEF LoopInv, Tracks
  <2>2. found.latest # None /\ mine \in SUBSET PlainTexts
    BY <1>1, <1>2, <2>1
  <2> QED BY <1>4, <2>1, <2>2, NewestIsNewest
<1>6. mine = {} => found.latest = None
  BY <1>3 DEF LoopInv, Tracks
<1>7. \A l \in lines : l \in stable /\ l = found.newest[l[1]]
  BY <1>3 DEF LoopInv, Tracks
<1>8. \A v \in stable : /\ found.newest[v[1]] \in lines
                        /\ found.newest[v[1]][1] = v[1]
                        /\ ~Less(found.newest[v[1]], v)
  BY <1>2, <1>3 DEF LoopInv, Tracks
<1> HIDE DEF lines
<1>9. ASSUME NEW Q, stable \intersect Q # {}, Q \subseteq stable,
             \A v \in Q : found.newest[v[1]] \in Q
      PROVE  IsNewestOf(Newest(lines \intersect Q), Q)
  <2>1. stable \intersect Q = Q
    BY <1>9
  <2>2. HasNewest(Q)
    BY <1>1, <1>9, <2>1, SomeHaveNewest DEF stable
  <2>3. PICK t \in Q : \A w \in Q : ~Less(t, w)
    BY <2>2 DEF HasNewest
  <2> DEFINE u == found.newest[t[1]]
             x == Newest(lines \intersect Q)
  <2>4. u \in lines \intersect Q /\ ~Less(u, t)
    BY <1>8, <1>9, <2>3
  <2>5. \A w \in Q : w \in PlainTexts
    BY <1>1, <1>9
  <2>6. \A w \in Q : ~Less(u, w)
    BY <2>3, <2>4, <2>5, PlainOrder
  <2>7. HasNewest(lines \intersect Q)
    BY <2>4, <2>6 DEF HasNewest
  <2>8. x \in lines \intersect Q /\ ~Less(x, u)
    BY <2>4, <2>7, NewestFacts
  <2> HIDE DEF x, u
  <2>9. \A w \in Q : ~Less(x, w)
    BY <2>4, <2>5, <2>6, <2>8, PlainOrder
  <2> QED BY <2>5, <2>8, <2>9, NewestIsNewest DEF x
<1>10. ASSUME mine = {}, stable # {}
       PROVE  /\ selected.status = "fallback"
              /\ IsNewestOf(selected.version, stable)
              /\ LET before == {v \in stable : v[1] # selected.version[1]}
                 IN  IF before = {} THEN selected.oldstable = None
                                    ELSE IsNewestOf(selected.oldstable, before)
  <2>1. lines # {} /\ lines \intersect stable = lines
    BY <1>7, <1>8, <1>10
  <2>2. /\ selected.status = "fallback" /\ selected.version = Newest(lines)
        /\ selected.oldstable = IF older = {} THEN None ELSE Newest(older)
    BY <1>4, <1>6, <1>10, <2>1
  <2>3. IsNewestOf(Newest(lines), stable)
    BY <1>7, <1>8, <1>9, <1>10, <2>1
  <2> DEFINE top == Newest(lines)
             before == {v \in stable : v[1] # top[1]}
  <2>4. top \in lines
    <3>1. HasNewest(stable)
      BY <1>1, <1>10, SomeHaveNewest DEF stable
    <3>2. PICK t \in stable : \A w \in stable : ~Less(t, w)
      BY <3>1 DEF HasNewest
    <3>3. found.newest[t[1]] \in lines /\ ~Less(found.newest[t[1]], t)
      BY <1>8, <3>2
    <3>4. \A w \in lines : ~Less(found.newest[t[1]], w)
      BY <1>1, <1>7, <3>2, <3>3, PlainOrder
    <3> QED BY <3>3, <3>4, NewestFacts DEF HasNewest
  <2> HIDE DEF top
  <2>5. older = lines \intersect before
    <3>1. \A l \in lines : l = top <=> l[1] = top[1]
      BY <1>7, <2>4
    <3> QED BY <1>7, <3>1 DEF top
  <2>6. \A v \in before : found.newest[v[1]] \in before
    BY <1>7, <1>8
  <2>7. before # {} => older # {} /\ IsNewestOf(Newest(older), before)
    <3> SUFFICES ASSUME before # {} PROVE older # {} /\ IsNewestOf(Newest(older), before)
      OBVIOUS
    <3>1. stable \intersect before # {} /\ before \subseteq stable
      OBVIOUS
    <3>2. IsNewestOf(Newest(lines \intersect before), before)
      BY <1>9, <2>6, <3>1
    <3>3. older # {}
      BY <1>8, <2>5, <2>6
    <3> QED BY <2>5, <3>2, <3>3
  <2>8. before = {} => older = {}
    BY <2>5
  <2> QED BY <2>2, <2>3, <2>7, <2>8 DEF top
<1>11. stable = {} => selected = Unresolved(directive)
  <2> SUFFICES ASSUME stable = {} PROVE selected = Unresolved(directive)
    OBVIOUS
  <2>1. lines = {} /\ mine = {}
    BY <1>7
  <2> QED BY <1>4, <1>6, <2>1
<1> QED BY <1>5, <1>10, <1>11 DEF selected, stable

\* The versions that count in the whole list, in the words of the property.
LEMMA CountedAll ==
    ASSUME NEW list \in Seq(Releases)
    PROVE  Counted(list, Len(list)) =
               {r.version : r \in {e \in ToSet(list) : e.stable /\ Plain(e.version)}}
BY DEF Counted, ToSet

\* select_version picks the newest release of a directive's series, and else the
\* newest of all and of the series before, for every list of releases: of any
\* length, in any order, with whatever versions it names.
THEOREM SelectionIsNewest == Spec => []SelectsNewest
<1>1. IInv => SelectsNewest
  <2> SUFFICES ASSUME IInv PROVE SelectsNewest
    OBVIOUS
  <2> DEFINE stable == {r.version : r \in {e \in ToSet(releases) : e.stable /\ Plain(e.version)}}
  <2>1. releases \in Seq(Releases)
    BY DEF IInv, TypeOK
  <2>2. stable = Counted(releases, Len(releases))
    BY <2>1, CountedAll
  <2> HIDE DEF stable
  <2>3. ASSUME NEW directive
        PROVE  LET selected == SelectVersion(directive, releases)
                   mine == {v \in stable : v[1] = directive[1]}
                   before == {v \in stable : v[1] # selected.version[1]}
               IN  CASE Plain(directive) /\ mine # {} ->
                            /\ selected.status = "resolved"
                            /\ IsNewestOf(selected.version, mine)
                     [] Plain(directive) /\ mine = {} /\ stable # {} ->
                            /\ selected.status = "fallback"
                            /\ IsNewestOf(selected.version, stable)
                            /\ IF before = {} THEN selected.oldstable = None
                                              ELSE IsNewestOf(selected.oldstable, before)
                     [] OTHER -> selected.status = "error" /\ selected.version = directive
    <3> DEFINE selected == SelectVersion(directive, releases)
               mine == {v \in stable : v[1] = directive[1]}
               before == {v \in stable : v[1] # selected.version[1]}
    <3>1. Plain(directive) =>
          /\ mine # {} => selected.status = "resolved" /\ IsNewestOf(selected.version, mine)
          /\ mine = {} /\ stable # {} =>
                /\ selected.status = "fallback"
                /\ IsNewestOf(selected.version, stable)
                /\ IF before = {} THEN selected.oldstable = None
                                  ELSE IsNewestOf(selected.oldstable, before)
          /\ stable = {} => selected = Unresolved(directive)
      BY <2>1, <2>2, Selected
    <3>2. ~Plain(directive) => selected = Unresolved(directive)
      BY DEF SelectVersion
    <3>3. /\ Unresolved(directive).status = "error"
          /\ Unresolved(directive).version = directive
      BY DEF Unresolved
    <3>4. mine \subseteq stable
      OBVIOUS
    <3> HIDE DEF selected, mine, before
    <3> QED BY <3>1, <3>2, <3>3, <3>4 DEF selected, mine, before
  <2> QED BY <2>3 DEF SelectsNewest, stable
<1> QED BY <1>1, Invariance, PTL
=============================================================================
