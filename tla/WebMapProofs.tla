----------------------------- MODULE WebMapProofs -----------------------------
(* Proofs about WebMap, for sites of any size, every limit and every bound   *)
(* on the lookups under way.  Lookups end in any order; what keeps the       *)
(* answer in order is that the candidates that have come out are always a    *)
(* prefix of the candidates.                                                 *)
EXTENDS WebMap, SequenceTheorems, FiniteSetTheorems, WellFoundedInduction, TLAPS

(* The candidates are distinct, in scope and no more than the limit.         *)
Kept ==
    /\ Len(candidates) <= Limit
    /\ \A a, b \in DOMAIN candidates : candidates[a] = candidates[b] => a = b
    /\ \A a \in DOMAIN candidates : HostAllowed(candidates[a])

(* Nothing is checked before the last URL has been considered; a candidate   *)
(* costs at most one lookup, and none on the start's own host.               *)
LookedUp ==
    /\ stage \in {"sitemap", "page"} \/ queue # <<>> => verdict = <<>>
    /\ Len(verdict) <= Len(candidates)
    /\ IsFiniteSet(lookups) /\ Cardinality(lookups) <= Len(verdict)
    /\ \A u \in lookups : u.host # "start" /\ args.subdomains

Settled(i) == verdict[i] \in {"listed", "dropped"}

(* What has come out is a prefix of the candidates, and the answer holds     *)
(* those of them that were listed.                                           *)
Emission ==
    /\ \A i, j \in DOMAIN verdict : i < j /\ Settled(j) => Settled(i)
    /\ Len(out) <= Len(verdict)
    /\ \A i \in DOMAIN verdict : ~Settled(i) => Len(out) < i
    /\ \A k \in DOMAIN out : \E a \in DOMAIN verdict :
          verdict[a] = "listed" /\ out[k] = candidates[a]
    /\ \A a \in DOMAIN verdict : verdict[a] = "listed" =>
          \E k \in DOMAIN out : out[k] = candidates[a]
    /\ \A a \in DOMAIN verdict : verdict[a] \in {"valid", "listed"} =>
          candidates[a].host = "start" \/ candidates[a] \in passed

IInv == TypeOK /\ Kept /\ LookedUp /\ Emission /\ OrderKept

-----------------------------------------------------------------------------
(* Induction without an operator for the claim: a set that has 0 and the     *)
(* successor of each of its numbers has all of them, as the least number     *)
(* outside of it would be neither.                                           *)
LEMMA Induction ==
    ASSUME NEW S, 0 \in S, \A n \in Nat : n \in S => n + 1 \in S
    PROVE  \A n \in Nat : n \in S
<1> DEFINE R == OpToRel(<, Nat)
           T == Nat \ S
<1>1. IsWellFoundedOn(R, Nat)
  BY NatLessThanWellFounded
<1>2. \A x, y \in Nat : y < x => <<y, x>> \in R
  BY DEF OpToRel
<1> HIDE DEF R
<1> SUFFICES ASSUME T # {} PROVE FALSE
  OBVIOUS
<1>3. T \subseteq Nat
  OBVIOUS
<1> HIDE DEF T
<1>4. \E x \in T : \A y \in T : <<y, x>> \notin R
  BY <1>1, <1>3, WFMin
<1>5. PICK x \in T : \A y \in T : ~(y < x)
  BY <1>2, <1>3, <1>4
<1>6. x \in Nat /\ x # 0 /\ x \notin S
  BY DEF T
<1>7. x - 1 \in Nat /\ x - 1 < x /\ (x - 1) + 1 = x
  BY <1>6
<1>8. x - 1 \in S
  BY <1>5, <1>7 DEF T
<1> QED
  BY <1>6, <1>7, <1>8

(* A loop of n turns, each of which takes a value of S to a value of S, has  *)
(* a value after each turn.                                                  *)
IsLoop(g, S, c, n, step) ==
    g \in [0..n -> S] /\ g[0] = c /\ \A k \in 1..n : g[k] = step[<<g[k - 1], k>>]

LEMMA Loop ==
    ASSUME NEW S, NEW c \in S, NEW n \in Nat, NEW step \in [S \X (1..n) -> S]
    PROVE  \E g : IsLoop(g, S, c, n, step)
<1> DEFINE T == {m \in Nat : m <= n => \E g : IsLoop(g, S, c, m, step)}
<1>1. 0 \in T
  <2>1. IsLoop([k \in 0..0 |-> c], S, c, 0, step)
    BY DEF IsLoop
  <2> QED
    BY <2>1
<1>2. ASSUME NEW m \in Nat, m \in T PROVE m + 1 \in T
  <2> SUFFICES ASSUME m + 1 <= n PROVE \E g : IsLoop(g, S, c, m + 1, step)
    OBVIOUS
  <2>1. PICK g : IsLoop(g, S, c, m, step)
    BY <1>2
  <2> DEFINE next == step[<<g[m], m + 1>>]
             h == [k \in 0..(m + 1) |-> IF k <= m THEN g[k] ELSE next]
  <2>2. next \in S
    BY <2>1 DEF IsLoop
  <2> HIDE DEF next
  <2>3. h \in [0..(m + 1) -> S] /\ h[0] = c
    BY <2>1, <2>2 DEF IsLoop
  <2>4. ASSUME NEW k \in 1..(m + 1) PROVE h[k] = step[<<h[k - 1], k>>]
    <3>1. CASE k <= m
      BY <2>1, <3>1 DEF IsLoop
    <3>2. CASE k = m + 1
      <4>1. h[k] = next /\ h[k - 1] = g[m]
        BY <3>2
      <4> QED
        BY <3>2, <4>1 DEF next
    <3> QED
      BY <3>1, <3>2
  <2>5. IsLoop(h, S, c, m + 1, step)
    BY <2>3, <2>4 DEF IsLoop
  <2> QED
    BY <2>5
<1> HIDE DEF T
<1>3. n \in T
  BY <1>1, <1>2, Induction
<1> QED
  BY <1>3 DEF T

-----------------------------------------------------------------------------
(* What the two parsers have after each event of a sitemap.                  *)
Reading == [inLoc : BOOLEAN, locs : Seq(Text)]

LEMMA EventFacts ==
    ASSUME NEW e \in Event
    PROVE  /\ e.tag \in {"open", "empty", "close", "text"}
           /\ e.tag = "text" => e \in Text
BY DEF Event, Text

(* Trimming a text changes its form and nothing else.                        *)
LEMMA TrimFacts ==
    ASSUME NEW text \in Text
    PROVE  /\ Trim(text) \in Text
           /\ text.form = "plain" => Trim(text) = text
           /\ text.form \in {"plain", "padded", "blank", "bad"}
BY DEF Text, Trim

LEMMA EventTypes ==
    ASSUME NEW s \in Reading, NEW e \in Event
    PROVE  MapEvent(s, e) \in Reading /\ SitemapEvent(s, e) \in Reading
<1>1. s.locs \in Seq(Text) /\ s.inLoc \in BOOLEAN
  BY DEF Reading
<1>2. ASSUME NEW b \in BOOLEAN PROVE [s EXCEPT !.inLoc = b] \in Reading
  BY DEF Reading
<1>3. ASSUME NEW text \in Text PROVE [s EXCEPT !.locs = Append(s.locs, text)] \in Reading
  <2>1. Append(s.locs, text) \in Seq(Text)
    BY <1>1
  <2> QED
    BY <1>1, <2>1 DEF Reading
<1>4. e.tag = "text" => e \in Text /\ Trim(e) \in Text
  BY EventFacts, TrimFacts
<1>5. MapEvent(s, e) \in Reading
  BY <1>2, <1>3, <1>4 DEF MapEvent, MapText
<1>6. SitemapEvent(s, e) \in Reading
  BY <1>2, <1>3, <1>4 DEF SitemapEvent
<1> QED
  BY <1>5, <1>6

LEMMA OutsideType == Outside \in Reading
BY DEF Outside, Reading

LEMMA MapReadsDef ==
    ASSUME NEW d \in Seq(Event)
    PROVE  /\ MapReads(d)[0] = Outside
           /\ \A n \in 1..Len(d) : MapReads(d)[n] = MapEvent(MapReads(d)[n - 1], d[n])
<1> DEFINE step == [p \in Reading \X (1..Len(d)) |-> MapEvent(p[1], d[p[2]])]
           Def(g) == g = [n \in 0..Len(d) |-> IF n = 0 THEN Outside ELSE MapEvent(g[n - 1], d[n])]
<1>1. Outside \in Reading /\ Len(d) \in Nat
  BY OutsideType
<1>2. step \in [Reading \X (1..Len(d)) -> Reading]
  <2>1. ASSUME NEW p \in Reading \X (1..Len(d)) PROVE MapEvent(p[1], d[p[2]]) \in Reading
    <3>1. p[1] \in Reading /\ d[p[2]] \in Event
      OBVIOUS
    <3> QED
      BY <3>1, EventTypes
  <2> QED
    BY <2>1
<1> HIDE DEF step, Def
<1>3. PICK g : IsLoop(g, Reading, Outside, Len(d), step)
  BY <1>1, <1>2, Loop
<1>4. /\ g \in [0..Len(d) -> Reading] /\ g[0] = Outside
      /\ \A k \in 1..Len(d) : g[k] = step[<<g[k - 1], k>>]
  BY <1>3 DEF IsLoop
<1>5. ASSUME NEW k \in 1..Len(d) PROVE g[k] = MapEvent(g[k - 1], d[k])
  <2>1. k - 1 \in 0..Len(d)
    BY <1>1
  <2>2. <<g[k - 1], k>> \in Reading \X (1..Len(d))
    BY <1>4, <2>1
  <2> QED
    BY <1>4, <2>2 DEF step
<1>6. Def(g)
  <2>1. g = [n \in 0..Len(d) |-> g[n]]
    BY <1>4
  <2>2. \A n \in 0..Len(d) : g[n] = IF n = 0 THEN Outside ELSE MapEvent(g[n - 1], d[n])
    BY <1>1, <1>4, <1>5
  <2> QED
    BY <2>1, <2>2 DEF Def
<1>7. MapReads(d) = CHOOSE s : Def(s)
  BY DEF MapReads, Def
<1>8. Def(MapReads(d))
  BY <1>6, <1>7
<1> QED
  BY <1>1, <1>8 DEF Def

LEMMA SitemapReadsDef ==
    ASSUME NEW d \in Seq(Event)
    PROVE  /\ SitemapReads(d)[0] = Outside
           /\ \A n \in 1..Len(d) : SitemapReads(d)[n] = SitemapEvent(SitemapReads(d)[n - 1], d[n])
<1> DEFINE step == [p \in Reading \X (1..Len(d)) |-> SitemapEvent(p[1], d[p[2]])]
           Def(g) == g = [n \in 0..Len(d) |-> IF n = 0 THEN Outside ELSE SitemapEvent(g[n - 1], d[n])]
<1>1. Outside \in Reading /\ Len(d) \in Nat
  BY OutsideType
<1>2. step \in [Reading \X (1..Len(d)) -> Reading]
  <2>1. ASSUME NEW p \in Reading \X (1..Len(d)) PROVE SitemapEvent(p[1], d[p[2]]) \in Reading
    <3>1. p[1] \in Reading /\ d[p[2]] \in Event
      OBVIOUS
    <3> QED
      BY <3>1, EventTypes
  <2> QED
    BY <2>1
<1> HIDE DEF step, Def
<1>3. PICK g : IsLoop(g, Reading, Outside, Len(d), step)
  BY <1>1, <1>2, Loop
<1>4. /\ g \in [0..Len(d) -> Reading] /\ g[0] = Outside
      /\ \A k \in 1..Len(d) : g[k] = step[<<g[k - 1], k>>]
  BY <1>3 DEF IsLoop
<1>5. ASSUME NEW k \in 1..Len(d) PROVE g[k] = SitemapEvent(g[k - 1], d[k])
  <2>1. k - 1 \in 0..Len(d)
    BY <1>1
  <2>2. <<g[k - 1], k>> \in Reading \X (1..Len(d))
    BY <1>4, <2>1
  <2> QED
    BY <1>4, <2>2 DEF step
<1>6. Def(g)
  <2>1. g = [n \in 0..Len(d) |-> g[n]]
    BY <1>4
  <2>2. \A n \in 0..Len(d) : g[n] = IF n = 0 THEN Outside ELSE SitemapEvent(g[n - 1], d[n])
    BY <1>1, <1>4, <1>5
  <2> QED
    BY <2>1, <2>2 DEF Def
<1>7. SitemapReads(d) = CHOOSE s : Def(s)
  BY DEF SitemapReads, Def
<1>8. Def(SitemapReads(d))
  BY <1>6, <1>7
<1> QED
  BY <1>1, <1>8 DEF Def

(* They are in a location or not, and have read URLs.                        *)
LEMMA ReadsTypes ==
    ASSUME NEW d \in Seq(Event), NEW n \in 0..Len(d)
    PROVE  MapReads(d)[n] \in Reading /\ SitemapReads(d)[n] \in Reading
<1> DEFINE Typed(m) == MapReads(d)[m] \in Reading /\ SitemapReads(d)[m] \in Reading
           T == {m \in Nat : m <= Len(d) => Typed(m)}
<1>1. 0 \in T
  <2>1. Typed(0)
    BY MapReadsDef, SitemapReadsDef, OutsideType
  <2> HIDE DEF Typed
  <2> QED
    BY <2>1
<1>2. ASSUME NEW m \in Nat, m \in T PROVE m + 1 \in T
  <2> SUFFICES ASSUME m + 1 <= Len(d) PROVE Typed(m + 1)
    OBVIOUS
  <2>1. m + 1 \in 1..Len(d) /\ (m + 1) - 1 = m /\ d[m + 1] \in Event
    OBVIOUS
  <2>2. Typed(m)
    BY <1>2
  <2>3. /\ MapReads(d)[m + 1] = MapEvent(MapReads(d)[m], d[m + 1])
        /\ SitemapReads(d)[m + 1] = SitemapEvent(SitemapReads(d)[m], d[m + 1])
    BY <2>1, MapReadsDef, SitemapReadsDef
  <2> QED
    BY <2>1, <2>2, <2>3, EventTypes
<1> HIDE DEF T, Typed
<1>3. n \in T
  BY <1>1, <1>2, Induction
<1>4. Typed(n)
  BY <1>3 DEF T
<1> QED
  BY <1>4 DEF Typed

LEMMA UrlsType ==
    ASSUME NEW d \in Seq(Event)
    PROVE  Urls(MapLocs(d)) \in Seq(Url)
<1>1. Len(d) \in 0..Len(d)
  OBVIOUS
<1>2. MapReads(d)[Len(d)] \in Reading
  BY <1>1, ReadsTypes
<1>3. MapLocs(d) \in Seq(Text)
  BY <1>2 DEF MapLocs, Reading
<1>4. \A text \in Text : text.url \in Url
  BY DEF Text
<1>5. ASSUME NEW texts \in Seq(Text) PROVE Urls(texts) \in Seq(Url)
  <2>1. Len(texts) \in Nat /\ DOMAIN texts = 1..Len(texts)
    OBVIOUS
  <2>2. \A i \in 1..Len(texts) : texts[i] \in Text
    OBVIOUS
  <2>3. Urls(texts) \in [1..Len(texts) -> Url]
    BY <1>4, <2>1, <2>2 DEF Urls
  <2> QED
    BY <2>1, <2>3
<1> QED
  BY <1>3, <1>5

-----------------------------------------------------------------------------
(* A start tag of a location with no end tag since.                          *)
OpenSince(d, n) ==
    \E k \in 1..n : Opens(d[k]) /\ \A m \in (k + 1)..n : d[m].tag # "close"

(* Where locations and texts are plain, both parsers are in the same state   *)
(* after every event, and in a location only behind a start tag of one.      *)
LEMMA SameReads ==
    ASSUME NEW d \in Seq(Event), PlainLocs(d), PlainTexts(d), NEW n \in 0..Len(d)
    PROVE  SitemapReads(d)[n] = MapReads(d)[n]
<1> DEFINE M(m) == MapReads(d)[m]
           S(m) == SitemapReads(d)[m]
           Same(m) == S(m) = M(m) /\ (M(m).inLoc => OpenSince(d, m))
           T == {m \in Nat : m <= Len(d) => Same(m)}
<1>0. Len(d) \in Nat /\ DOMAIN d = 1..Len(d)
  OBVIOUS
<1>1. 0 \in T
  <2>1. S(0) = M(0) /\ M(0) = Outside
    BY MapReadsDef, SitemapReadsDef
  <2>2. ~Outside.inLoc
    BY DEF Outside
  <2> HIDE DEF S, M
  <2>3. Same(0)
    BY <2>1, <2>2
  <2> HIDE DEF Same
  <2> QED
    BY <2>3
<1>2. ASSUME NEW m \in Nat, m \in T PROVE m + 1 \in T
  <2> SUFFICES ASSUME m + 1 <= Len(d) PROVE Same(m + 1)
    OBVIOUS
  <2> DEFINE e == d[m + 1]
  <2>1. m + 1 \in 1..Len(d) /\ m \in 0..Len(d) /\ (m + 1) - 1 = m /\ e \in Event
    BY <1>0
  <2>2. Same(m)
    BY <1>2, <2>1
  <2>3. M(m + 1) = MapEvent(M(m), e) /\ S(m + 1) = SitemapEvent(S(m), e)
    BY <2>1, MapReadsDef, SitemapReadsDef
  <2>4. M(m) \in Reading
    BY <2>1, ReadsTypes
  <2> HIDE DEF M, S, e
  <2>5. CASE e.tag # "close"
    <3>0. e.tag = "text" => e.form \in {"plain", "bad"} /\ (e.form = "plain" => Trim(e) = e)
      BY <1>0, <2>1, EventFacts, TrimFacts DEF PlainTexts, e
    <3>1. S(m + 1) = M(m + 1)
      BY <2>2, <2>3, <2>5, <3>0 DEF MapEvent, MapText, SitemapEvent
    <3>2. CASE Opens(e)
      <4>1. m + 1 \in 1..(m + 1) /\ \A k \in ((m + 1) + 1)..(m + 1) : d[k].tag # "close"
        OBVIOUS
      <4>2. OpenSince(d, m + 1)
        BY <3>2, <4>1 DEF OpenSince, e
      <4> QED
        BY <3>1, <4>2
    <3>3. CASE ~Opens(e)
      <4>1. M(m + 1).inLoc => M(m).inLoc
        BY <2>3, <2>4, <2>5, <3>3 DEF MapEvent, MapText, Reading
      <4>2. OpenSince(d, m) => OpenSince(d, m + 1)
        <5> SUFFICES ASSUME OpenSince(d, m) PROVE OpenSince(d, m + 1)
          OBVIOUS
        <5>1. PICK k \in 1..m : Opens(d[k]) /\ \A j \in (k + 1)..m : d[j].tag # "close"
          BY DEF OpenSince
        <5>2. k \in 1..(m + 1) /\ \A j \in (k + 1)..(m + 1) : j \in (k + 1)..m \/ j = m + 1
          OBVIOUS
        <5>3. \A j \in (k + 1)..(m + 1) : d[j].tag # "close"
          BY <2>5, <5>1, <5>2 DEF e
        <5> QED
          BY <5>1, <5>2, <5>3 DEF OpenSince
      <4> QED
        BY <2>2, <3>1, <4>1, <4>2
    <3> QED
      BY <3>2, <3>3
  <2>6. CASE e.tag = "close"
    <3>0. ~Opens(e) /\ e.tag # "text"
      BY <2>6 DEF Opens
    <3>1. S(m + 1) = [M(m) EXCEPT !.inLoc = FALSE]
      BY <2>2, <2>3, <2>6, <3>0 DEF SitemapEvent
    <3>2. CASE M(m).inLoc
      <4>1. PICK k \in 1..m : Opens(d[k]) /\ \A j \in (k + 1)..m : d[j].tag # "close"
        BY <2>2, <3>2 DEF OpenSince
      <4>2. k \in DOMAIN d /\ m + 1 \in (k + 1)..Len(d) /\ (m + 1) - 1 = m
        BY <1>0, <2>1
      <4>3. e.name = "loc"
        BY <2>6, <4>1, <4>2 DEF PlainLocs, e
      <4>4. M(m + 1) = [M(m) EXCEPT !.inLoc = FALSE]
        BY <2>3, <2>6, <3>0, <4>3 DEF MapEvent
      <4>5. ~M(m + 1).inLoc
        BY <2>4, <4>4 DEF Reading
      <4> QED
        BY <3>1, <4>4, <4>5
    <3>3. CASE ~M(m).inLoc
      <4>1. [M(m) EXCEPT !.inLoc = FALSE] = M(m)
        BY <2>4, <3>3 DEF Reading
      <4>2. M(m + 1) = M(m)
        BY <2>3, <3>0, <4>1 DEF MapEvent, MapText
      <4> QED
        BY <3>1, <3>3, <4>1, <4>2
    <3> QED
      BY <3>2, <3>3
  <2> QED
    BY <2>5, <2>6
<1> HIDE DEF T, Same
<1>3. n \in T
  BY <1>1, <1>2, Induction
<1>4. Same(n)
  BY <1>3 DEF T
<1> QED
  BY <1>4 DEF Same

(* Every text of s that is not blank is in t, trimmed.                       *)
Within(s, t) ==
    \A k \in DOMAIN s : s[k].form # "blank" => \E j \in DOMAIN t : t[j] = Trim(s[k])

LEMMA WithinMore ==
    ASSUME NEW s \in Seq(Text), NEW t \in Seq(Text), NEW text \in Text, Within(s, t)
    PROVE  Within(s, Append(t, text))
<1>1. \A j \in DOMAIN t : j \in DOMAIN Append(t, text) /\ Append(t, text)[j] = t[j]
  OBVIOUS
<1> QED
  BY <1>1 DEF Within

LEMMA WithinOneMore ==
    ASSUME NEW s \in Seq(Text), NEW t \in Seq(Text), NEW text \in Text, Within(s, t),
           text.form # "blank" => \E j \in DOMAIN t : t[j] = Trim(text)
    PROVE  Within(Append(s, text), t)
<1> DEFINE r == Append(s, text)
<1>1. SUFFICES ASSUME NEW k \in DOMAIN r, r[k].form # "blank"
               PROVE  \E j \in DOMAIN t : t[j] = Trim(r[k])
  BY DEF Within
<1>2. CASE k \in DOMAIN s
  <2>1. r[k] = s[k]
    BY <1>2
  <2> HIDE DEF r
  <2> QED
    BY <1>1, <1>2, <2>1 DEF Within
<1>3. CASE k \notin DOMAIN s
  <2>1. r[k] = text
    BY <1>1, <1>3
  <2> HIDE DEF r
  <2> QED
    BY <1>1, <2>1
<1> QED
  BY <1>2, <1>3

(* In any sitemap web_sitemap is in a location only where web_map is, so it  *)
(* reads nothing that web_map does not read, but for blanks.                 *)
LEMMA FewerReads ==
    ASSUME NEW d \in Seq(Event), NEW n \in 0..Len(d)
    PROVE  Within(SitemapReads(d)[n].locs, MapReads(d)[n].locs)
<1> DEFINE M(m) == MapReads(d)[m]
           S(m) == SitemapReads(d)[m]
           Fewer(m) == (S(m).inLoc => M(m).inLoc) /\ Within(S(m).locs, M(m).locs)
           T == {m \in Nat : m <= Len(d) => Fewer(m)}
<1>0. Len(d) \in Nat /\ DOMAIN d = 1..Len(d)
  OBVIOUS
<1>1. 0 \in T
  <2>1. S(0) = Outside /\ M(0) = Outside
    BY MapReadsDef, SitemapReadsDef
  <2>2. DOMAIN Outside.locs = {}
    BY DEF Outside
  <2> HIDE DEF S, M
  <2>3. Fewer(0)
    BY <2>1, <2>2 DEF Within
  <2> HIDE DEF Fewer
  <2> QED
    BY <2>3
<1>2. ASSUME NEW m \in Nat, m \in T PROVE m + 1 \in T
  <2> SUFFICES ASSUME m + 1 <= Len(d) PROVE Fewer(m + 1)
    OBVIOUS
  <2> DEFINE e == d[m + 1]
             s == S(m).locs
             t == M(m).locs
  <2>1. m + 1 \in 1..Len(d) /\ m \in 0..Len(d) /\ (m + 1) - 1 = m /\ e \in Event
    BY <1>0
  <2>2. Fewer(m)
    BY <1>2, <2>1
  <2>3. M(m + 1) = MapEvent(M(m), e) /\ S(m + 1) = SitemapEvent(S(m), e)
    BY <2>1, MapReadsDef, SitemapReadsDef
  <2>4. M(m) \in Reading /\ S(m) \in Reading
    BY <2>1, ReadsTypes
  <2>5. s \in Seq(Text) /\ t \in Seq(Text) /\ Within(s, t)
    BY <2>2, <2>4 DEF Reading
  <2> HIDE DEF M, S, e
  <2>6. CASE Opens(e) \/ e.tag = "close"
    <3>0. Opens(e) => e.tag # "close"
      BY DEF Opens
    <3>1. S(m + 1).locs = s /\ (S(m + 1).inLoc => Opens(e))
      BY <2>3, <2>4, <2>6 DEF SitemapEvent, Reading
    <3>2. M(m + 1).locs = t /\ (Opens(e) => M(m + 1).inLoc)
      BY <2>3, <2>4, <2>6 DEF MapEvent, MapText, Reading
    <3> QED
      BY <2>5, <3>1, <3>2
  <2>7. CASE ~Opens(e) /\ e.tag # "close"
    <3>1. M(m + 1) = MapText(M(m), e)
      BY <2>3, <2>7 DEF MapEvent
    <3>2. /\ M(m + 1).inLoc = M(m).inLoc /\ S(m + 1).inLoc = S(m).inLoc
      BY <2>3, <2>4, <2>7, <3>1 DEF SitemapEvent, MapText, Reading
    <3>3. CASE e.tag = "text" /\ M(m).inLoc
      <4>1. e \in Text /\ Trim(e) \in Text /\ e.form \in {"plain", "padded", "blank", "bad"}
        BY <2>1, <3>3, EventFacts, TrimFacts
      <4>2. M(m + 1).locs = IF e.form \in {"plain", "padded"} THEN Append(t, Trim(e)) ELSE t
        BY <2>4, <3>1, <3>3 DEF MapText, Reading
      <4>3. S(m + 1).locs = IF S(m).inLoc /\ e.form # "bad" THEN Append(s, e) ELSE s
        BY <2>3, <2>4, <2>7, <3>3 DEF SitemapEvent, Reading
      <4> HIDE DEF s, t
      <4>4. M(m + 1).locs \in Seq(Text) /\ Within(s, M(m + 1).locs)
        <5>1. Append(t, Trim(e)) \in Seq(Text) /\ Within(s, Append(t, Trim(e)))
          BY <2>5, <4>1, WithinMore
        <5> QED
          BY <2>5, <4>2, <5>1
      <4>5. e.form \in {"plain", "padded"} =>
              \E j \in DOMAIN M(m + 1).locs : M(m + 1).locs[j] = Trim(e)
        <5>1. Append(t, Trim(e))[Len(t) + 1] = Trim(e) /\ Len(t) + 1 \in DOMAIN Append(t, Trim(e))
          BY <2>5, <4>1
        <5> QED
          BY <4>2, <5>1
      <4>6. Within(S(m + 1).locs, M(m + 1).locs)
        BY <2>5, <4>1, <4>3, <4>4, <4>5, WithinOneMore
      <4> QED
        BY <2>2, <3>2, <4>6
    <3>4. CASE ~(e.tag = "text" /\ M(m).inLoc)
      <4>1. M(m + 1) = M(m) /\ S(m + 1) = S(m)
        BY <2>2, <2>3, <2>7, <3>1, <3>4 DEF MapText, SitemapEvent
      <4> QED
        BY <2>2, <4>1
    <3> QED
      BY <3>3, <3>4
  <2> QED
    BY <2>6, <2>7
<1> HIDE DEF T, Fewer
<1>3. n \in T
  BY <1>1, <1>2, Induction
<1>4. Fewer(n)
  BY <1>3 DEF T
<1> QED
  BY <1>4 DEF Fewer

-----------------------------------------------------------------------------
Verdict == {"pending", "valid", "blocked", "listed", "dropped"}

(* Appending to a sequence, and replacing an element of one.                 *)
LEMMA AppendFacts ==
    ASSUME NEW S, NEW s \in Seq(S), NEW e \in S
    PROVE  /\ Append(s, e) \in Seq(S) /\ Len(s) \in Nat
           /\ Len(Append(s, e)) = Len(s) + 1
           /\ DOMAIN s = 1..Len(s) /\ DOMAIN Append(s, e) = 1..(Len(s) + 1)
           /\ \A k \in 1..Len(s) : Append(s, e)[k] = s[k] /\ s[k] \in S
           /\ Append(s, e)[Len(s) + 1] = e
  OBVIOUS

(* What the replacement leaves alone, and the type of the result.         *)
LEMMA ReplaceFacts ==
    ASSUME NEW S, NEW s \in Seq(S), NEW i \in DOMAIN s, NEW e \in S
    PROVE  /\ [s EXCEPT ![i] = e] \in Seq(S)
           /\ Len([s EXCEPT ![i] = e]) = Len(s)
           /\ DOMAIN [s EXCEPT ![i] = e] = DOMAIN s
           /\ [s EXCEPT ![i] = e][i] = e
           /\ \A k \in DOMAIN s : k # i => [s EXCEPT ![i] = e][k] = s[k]
  BY ExceptSeq

(* Sequences have their domains, and what is under way is finite.            *)
LEMMA Domains ==
    ASSUME TypeOK
    PROVE  /\ Len(candidates) \in Nat /\ DOMAIN candidates = 1..Len(candidates)
           /\ Len(verdict) \in Nat /\ DOMAIN verdict = 1..Len(verdict)
           /\ Len(out) \in Nat /\ DOMAIN out = 1..Len(out)
           /\ Limit \in Nat /\ Concurrency \in Nat
           /\ \A a \in DOMAIN candidates : candidates[a] \in Url
           /\ \A a \in DOMAIN verdict : verdict[a] \in Verdict
           /\ IsFiniteSet(InFlight)
<1>1. candidates \in Seq(Url) /\ out \in Seq(Url) /\ verdict \in Seq(Verdict)
  BY DEF TypeOK, Verdict
<1>2. Limit \in Nat /\ Concurrency \in Nat
  BY WebMapAssumption DEF TypeOK, Limit
<1>3. DOMAIN verdict = 1..Len(verdict) /\ Len(verdict) \in Nat
  BY <1>1
<1>4. IsFiniteSet(1..Len(verdict))
  BY <1>3, FS_Interval
<1>5. IsFiniteSet(InFlight)
  BY <1>3, <1>4, FS_Subset DEF InFlight
<1> QED
  BY <1>1, <1>2, <1>5

(* A set with one more element.                                              *)
LEMMA OneMore ==
    ASSUME NEW S, NEW x, IsFiniteSet(S)
    PROVE  /\ IsFiniteSet(S \cup {x})
           /\ Cardinality(S) \in Nat /\ Cardinality(S \cup {x}) \in Nat
           /\ Cardinality(S \cup {x}) <= Cardinality(S) + 1
<1>1. /\ IsFiniteSet(S \cup {x}) /\ Cardinality(S) \in Nat
      /\ Cardinality(S \cup {x}) = IF x \in S THEN Cardinality(S) ELSE Cardinality(S) + 1
  BY FS_AddElement, FS_CardinalityType
<1> HIDE DEF IsFiniteSet
<1> QED
  BY <1>1

(* Answers of lookups and the answer itself only shrink what is under way.   *)
LEMMA FewerInFlight ==
    ASSUME TypeOK, InFlight' \subseteq InFlight
    PROVE  Cardinality(InFlight') <= Concurrency
<1>1. IsFiniteSet(InFlight) /\ Concurrency \in Nat /\ Cardinality(InFlight) <= Concurrency
  BY Domains DEF TypeOK
<1>2. Cardinality(InFlight') <= Cardinality(InFlight) /\ IsFiniteSet(InFlight')
  BY <1>1, FS_Subset
<1>3. Cardinality(InFlight) \in Nat /\ Cardinality(InFlight') \in Nat
  BY <1>1, <1>2, FS_CardinalityType
<1> QED
  BY <1>1, <1>2, <1>3

-----------------------------------------------------------------------------
(* Considering a URL keeps the candidates distinct, in scope and few.        *)
LEMMA ConsiderStep ==
    ASSUME IInv, Consider
    PROVE  IInv'
<1> DEFINE u == Head(queue)
           fits == Len(candidates) < Limit /\ Wanted(u) /\ u \notin ToSet(candidates)
<1>0. IInv
  OBVIOUS
<1>1. /\ queue # <<>> /\ queue \in Seq(Url)
      /\ candidates' = IF fits THEN Append(candidates, u) ELSE candidates
      /\ queue' = Tail(queue)
      /\ UNCHANGED <<site, stage, verdict, out, lookups, passed>>
  BY DEF IInv, TypeOK, Consider
<1>2. u \in Url /\ queue' \in Seq(Url)
  BY <1>1
<1>3. verdict = <<>> /\ DOMAIN verdict = {}
  BY <1>0, <1>1 DEF IInv, LookedUp
<1>4. out = <<>> /\ DOMAIN out = {}
  BY <1>0, <1>3, Domains DEF IInv, Emission
<1>5. candidates \in Seq(Url) /\ Len(candidates) \in Nat /\ Limit \in Nat
  BY <1>0, Domains DEF IInv, TypeOK
<1>6. TypeOK'
  <2>1. candidates' \in Seq(Url)
    BY <1>1, <1>2, <1>5, AppendFacts
  <2>2. Cardinality(InFlight') <= Concurrency
    BY <1>0, <1>1, FewerInFlight DEF IInv, InFlight
  <2> QED
    BY <1>0, <1>1, <1>2, <2>1, <2>2 DEF IInv, TypeOK, site
<1>7. Limit' = Limit /\ \A v : HostAllowed(v)' <=> HostAllowed(v)
  BY <1>1 DEF Limit, HostAllowed, site
<1>8. Kept' /\ Len(candidates') >= Len(candidates)
  <2>1. CASE fits
    <3>1. /\ candidates' = Append(candidates, u) /\ HostAllowed(u)
          /\ u \notin ToSet(candidates) /\ Len(candidates) < Limit
      BY <1>1, <2>1 DEF Wanted
    <3>2. /\ Len(candidates') = Len(candidates) + 1
          /\ DOMAIN candidates = 1..Len(candidates)
          /\ DOMAIN candidates' = 1..(Len(candidates) + 1)
          /\ \A k \in 1..Len(candidates) : candidates'[k] = candidates[k]
          /\ candidates'[Len(candidates) + 1] = u
      BY <1>2, <1>5, <3>1, AppendFacts
    <3>3. \A a \in DOMAIN candidates : candidates[a] # u
      BY <3>1 DEF ToSet
    <3>4. \A a \in DOMAIN candidates' : a \in DOMAIN candidates \/ a = Len(candidates) + 1
      BY <1>5, <3>2
    <3>5. /\ \A a, b \in DOMAIN candidates : candidates[a] = candidates[b] => a = b
          /\ \A a \in DOMAIN candidates : HostAllowed(candidates[a])
      BY <1>0 DEF IInv, Kept
    <3>6. \A a, b \in DOMAIN candidates' : candidates'[a] = candidates'[b] => a = b
      BY <3>2, <3>3, <3>4, <3>5
    <3>7. \A a \in DOMAIN candidates' : HostAllowed(candidates'[a])
      BY <3>1, <3>2, <3>4, <3>5
    <3>8. Len(candidates') <= Limit
      BY <1>5, <3>1, <3>2
    <3> HIDE DEF u
    <3> QED
      BY <1>5, <1>7, <3>2, <3>6, <3>7, <3>8 DEF Kept
  <2>2. CASE ~fits
    BY <1>0, <1>1, <1>5, <1>7, <2>2 DEF IInv, Kept
  <2> QED
    BY <2>1, <2>2
<1>9. LookedUp'
  BY <1>0, <1>1, <1>3, <1>5, <1>6, <1>8, Domains DEF IInv, LookedUp, site
<1>10. Emission'
  BY <1>1, <1>3, <1>4 DEF Emission
<1>11. OrderKept'
  BY <1>1, <1>3, <1>4 DEF OrderKept, ToSet
<1> QED
  BY <1>6, <1>8, <1>9, <1>10, <1>11 DEF IInv

(* Reading leaves everything as it is but what there is to consider.         *)
LEMMA ReadSteps ==
    ASSUME IInv, ReadSitemap \/ ReadPage
    PROVE  IInv'
<1>0. IInv
  OBVIOUS
<1>1. /\ stage \in {"sitemap", "page"} /\ stage' \in {"page", "check"}
      /\ queue' = Urls(MapLocs(sitemap)) \/ queue' = links \/ queue' = queue
      /\ UNCHANGED <<site, candidates, verdict, out, lookups, passed>>
  BY DEF ReadSitemap, ReadPage
<1>2. verdict = <<>> /\ args' = args /\ sitemap' = sitemap /\ links' = links
  BY <1>0, <1>1 DEF IInv, LookedUp, site
<1>3. queue' \in Seq(Url)
  <2>1. sitemap \in Seq(Event) /\ links \in Seq(Url) /\ queue \in Seq(Url)
    BY <1>0, WebMapAssumption DEF IInv, TypeOK
  <2> QED
    BY <1>1, <2>1, UrlsType
<1>4. TypeOK'
  <2>1. Cardinality(InFlight') <= Concurrency
    BY <1>0, <1>1, FewerInFlight DEF IInv, InFlight
  <2> QED
    BY <1>0, <1>1, <1>2, <1>3, <2>1 DEF IInv, TypeOK
<1>5. Kept'
  BY <1>0, <1>1, <1>2 DEF IInv, Kept, Limit, HostAllowed
<1>6. LookedUp'
  BY <1>0, <1>1, <1>2 DEF IInv, LookedUp
<1>7. Emission'
  BY <1>0, <1>1 DEF IInv, Emission, Settled
<1>8. OrderKept'
  BY <1>0, <1>1 DEF IInv, OrderKept
<1> QED
  BY <1>4, <1>5, <1>6, <1>7, <1>8 DEF IInv

(* A candidate is taken up: at most one more lookup, and for it one more     *)
(* candidate is under way.                                                   *)
LEMMA PullStep ==
    ASSUME IInv, Pull
    PROVE  IInv'
<1> DEFINE n == Len(verdict)
           u == candidates[n + 1]
           v == IF NeedsDns(u) THEN "pending" ELSE "valid"
<1>0. IInv
  OBVIOUS
<1>1. /\ stage = "check" /\ queue = <<>> /\ n < Len(candidates)
      /\ Cardinality(InFlight) < Concurrency
      /\ verdict' = Append(verdict, v)
      /\ lookups' = IF NeedsDns(u) THEN lookups \cup {u} ELSE lookups
      /\ UNCHANGED <<site, stage, queue, candidates, out, passed>>
  BY DEF Pull
<1>2. /\ n \in Nat /\ Len(candidates) \in Nat /\ DOMAIN verdict = 1..n
      /\ Len(out) \in Nat /\ DOMAIN out = 1..Len(out)
      /\ Concurrency \in Nat /\ IsFiniteSet(InFlight)
      /\ n + 1 \in DOMAIN candidates /\ u \in Url
  BY <1>0, <1>1, Domains DEF IInv
<1>3. verdict \in Seq(Verdict) /\ v \in Verdict
  BY <1>0 DEF IInv, TypeOK, Verdict
<1>4. /\ verdict' \in Seq(Verdict) /\ Len(verdict') = n + 1 /\ DOMAIN verdict' = 1..(n + 1)
      /\ \A k \in 1..n : verdict'[k] = verdict[k]
      /\ verdict'[n + 1] = v
  BY <1>1, <1>3, AppendFacts
<1>5. \A k \in 1..(n + 1) : k \in 1..n \/ k = n + 1
  BY <1>2
<1>6. HostAllowed(u)
  BY <1>0, <1>2 DEF IInv, Kept
<1> HIDE DEF u, v, n
<1>7. Cardinality(InFlight') <= Concurrency
  <2>1. InFlight' \subseteq InFlight \cup {n + 1}
    BY <1>2, <1>4, <1>5 DEF InFlight
  <2>2. /\ IsFiniteSet(InFlight \cup {n + 1})
        /\ Cardinality(InFlight \cup {n + 1}) <= Cardinality(InFlight) + 1
    BY <1>2, OneMore
  <2>3. IsFiniteSet(InFlight') /\ Cardinality(InFlight') <= Cardinality(InFlight \cup {n + 1})
    BY <2>1, <2>2, FS_Subset
  <2>4. /\ Cardinality(InFlight) \in Nat /\ Cardinality(InFlight') \in Nat
        /\ Cardinality(InFlight \cup {n + 1}) \in Nat
    BY <1>2, <2>2, <2>3, FS_CardinalityType
  <2> QED
    BY <1>1, <1>2, <2>2, <2>3, <2>4
<1>8. TypeOK'
  BY <1>0, <1>1, <1>2, <1>4, <1>7 DEF IInv, TypeOK, Verdict, site
<1>9. Kept'
  BY <1>0, <1>1 DEF IInv, Kept, Limit, HostAllowed, site
<1>10. LookedUp'
  <2>1. IsFiniteSet(lookups) /\ Cardinality(lookups) <= n /\ Cardinality(lookups) \in Nat
    BY <1>0, FS_CardinalityType DEF IInv, LookedUp, n
  <2>2. IsFiniteSet(lookups') /\ Cardinality(lookups') <= n + 1
    <3>1. CASE NeedsDns(u)
      <4>1. lookups' = lookups \cup {u}
        BY <1>1, <3>1 DEF u, n
      <4>2. IsFiniteSet(lookups') /\ Cardinality(lookups') <= Cardinality(lookups) + 1
            /\ Cardinality(lookups') \in Nat
        BY <2>1, <4>1, OneMore
      <4> QED
        BY <1>2, <2>1, <4>2
    <3>2. CASE ~NeedsDns(u)
      <4>1. lookups' = lookups
        BY <1>1, <3>2 DEF u, n
      <4> QED
        BY <1>2, <2>1, <4>1
    <3> QED
      BY <3>1, <3>2
  <2>3. \A w \in lookups' : w.host # "start" /\ args.subdomains
    <3>1. NeedsDns(u) => u.host # "start" /\ args.subdomains
      BY <1>6 DEF NeedsDns, HostAllowed
    <3> QED
      BY <1>0, <1>1, <3>1 DEF IInv, LookedUp, u, n
  <2>4. Len(verdict') <= Len(candidates')
    BY <1>1, <1>2, <1>4 DEF n
  <2> QED
    BY <1>1, <1>4, <2>2, <2>3, <2>4 DEF LookedUp, site
<1>11. Emission'
  <2>1. \A k \in 1..n : Settled(k)' <=> Settled(k)
    BY <1>4 DEF Settled
  <2>2. verdict'[n + 1] \notin {"listed", "dropped"}
    BY <1>4 DEF v
  <2>3. /\ \A i, j \in 1..n : i < j /\ Settled(j) => Settled(i)
        /\ Len(out) <= n
        /\ \A i \in 1..n : ~Settled(i) => Len(out) < i
        /\ \A k \in DOMAIN out : \E a \in 1..n : verdict[a] = "listed" /\ out[k] = candidates[a]
        /\ \A a \in 1..n : verdict[a] = "listed" => \E k \in DOMAIN out : out[k] = candidates[a]
        /\ \A a \in 1..n : verdict[a] \in {"valid", "listed"} =>
              candidates[a].host = "start" \/ candidates[a] \in passed
    BY <1>0, <1>2 DEF IInv, Emission, n
  <2>4. 1..n \subseteq 1..(n + 1)
    BY <1>2
  <2>5. \A i, j \in 1..(n + 1) : i < j /\ Settled(j)' => Settled(i)'
    <3>1. \A j \in 1..(n + 1) : Settled(j)' => j \in 1..n
      BY <1>5, <2>2 DEF Settled
    <3>2. \A i \in 1..(n + 1), j \in 1..n : i < j => i \in 1..n
      BY <1>2
    <3> QED
      BY <2>1, <2>3, <3>1, <3>2
  <2>6. \A i \in 1..(n + 1) : ~Settled(i)' => Len(out) < i
    BY <1>2, <1>5, <2>1, <2>3
  <2>7. \A k \in DOMAIN out : \E a \in 1..(n + 1) : verdict'[a] = "listed" /\ out[k] = candidates[a]
    BY <1>4, <2>3, <2>4
  <2>8. \A a \in 1..(n + 1) : verdict'[a] = "listed" => \E k \in DOMAIN out : out[k] = candidates[a]
    BY <1>4, <1>5, <2>2, <2>3
  <2>9. \A a \in 1..(n + 1) : verdict'[a] \in {"valid", "listed"} =>
           candidates[a].host = "start" \/ candidates[a] \in passed
    <3>1. verdict'[n + 1] \in {"valid", "listed"} => u.host = "start"
      BY <1>4 DEF v, NeedsDns
    <3> QED
      BY <1>4, <1>5, <2>3, <3>1 DEF u
  <2>10. Len(out) <= n + 1
    BY <1>2, <2>3
  <2> QED
    BY <1>1, <1>4, <2>5, <2>6, <2>7, <2>8, <2>9, <2>10 DEF Emission
<1>12. OrderKept'
  BY <1>0, <1>1 DEF IInv, OrderKept
<1> QED
  BY <1>8, <1>9, <1>10, <1>11, <1>12 DEF IInv

(* A lookup that ends changes the verdict on its candidate only.             *)
LEMMA ValidatedStep ==
    ASSUME IInv, NEW i \in DOMAIN verdict, Validated(i)
    PROVE  IInv'
<1>0. IInv
  OBVIOUS
<1>1. /\ verdict[i] = "pending"
      /\ UNCHANGED <<site, stage, queue, candidates, out, lookups>>
  BY DEF Validated
<1>2. PICK v \in {"valid", "blocked"} :
         /\ verdict' = [verdict EXCEPT ![i] = v]
         /\ passed' = IF v = "valid" THEN passed \cup {candidates[i]} ELSE passed
  BY DEF Validated
<1>3. /\ verdict' \in Seq(Verdict) /\ Len(verdict') = Len(verdict)
      /\ DOMAIN verdict' = DOMAIN verdict /\ verdict'[i] = v
      /\ \A k \in DOMAIN verdict : k # i => verdict'[k] = verdict[k]
  <2>1. verdict \in Seq(Verdict) /\ v \in Verdict
    BY <1>0 DEF IInv, TypeOK, Verdict
  <2> QED
    BY <1>2, <2>1, ReplaceFacts
<1>4. i \in DOMAIN candidates /\ candidates[i] \in Url
  BY <1>0, Domains DEF IInv, LookedUp
<1>5. TypeOK'
  <2>1. InFlight' \subseteq InFlight
    BY <1>1, <1>3 DEF InFlight
  <2>2. Cardinality(InFlight') <= Concurrency
    BY <1>0, <2>1, FewerInFlight DEF IInv
  <2> QED
    BY <1>0, <1>1, <1>2, <1>3, <1>4, <2>2 DEF IInv, TypeOK, Verdict, site
<1>6. Kept'
  BY <1>0, <1>1 DEF IInv, Kept, Limit, HostAllowed, site
<1>7. LookedUp'
  <2>1. verdict # <<>> /\ verdict' # <<>>
    BY <1>0, <1>3, Domains DEF IInv
  <2> QED
    BY <1>0, <1>1, <1>3, <2>1 DEF IInv, LookedUp, site
<1>8. Emission'
  <2>1. \A k \in DOMAIN verdict :
           /\ Settled(k)' <=> Settled(k)
           /\ verdict'[k] = "listed" <=> verdict[k] = "listed"
           /\ verdict'[k] \in {"valid", "listed"} => k = i \/ verdict[k] \in {"valid", "listed"}
    BY <1>1, <1>2, <1>3 DEF Settled
  <2>2. verdict'[i] \in {"valid", "listed"} => candidates[i] \in passed'
    BY <1>2, <1>3
  <2>3. passed \subseteq passed'
    BY <1>2
  <2> QED
    BY <1>0, <1>1, <1>3, <2>1, <2>2, <2>3 DEF IInv, Emission
<1>9. OrderKept'
  <2>1. \A k \in DOMAIN verdict : verdict'[k] = "listed" <=> verdict[k] = "listed"
    BY <1>1, <1>2, <1>3
  <2>2. {k \in DOMAIN verdict' : verdict'[k] = "listed"} = {k \in DOMAIN verdict : verdict[k] = "listed"}
    BY <1>3, <2>1
  <2> QED
    BY <1>0, <1>1, <2>2 DEF IInv, OrderKept
<1> QED
  BY <1>5, <1>6, <1>7, <1>8, <1>9 DEF IInv

(* The answer holds the candidates that are listed.                          *)
LEMMA ListedAreOut ==
    ASSUME Emission
    PROVE  ToSet(out) = {candidates[i] : i \in {k \in DOMAIN verdict : verdict[k] = "listed"}}
  BY DEF Emission, ToSet

(* A candidate comes out: everything before it has, and nothing after it.    *)
LEMMA EmitStep ==
    ASSUME IInv, NEW i \in DOMAIN verdict, Emit(i)
    PROVE  IInv'
<1> DEFINE n == Len(out)
           v == IF verdict[i] = "valid" THEN "listed" ELSE "dropped"
<1>0. IInv
  OBVIOUS
<1>1. /\ verdict[i] \in {"valid", "blocked"}
      /\ \A j \in 1..(i - 1) : Settled(j)
      /\ out' = IF verdict[i] = "valid" THEN Append(out, candidates[i]) ELSE out
      /\ verdict' = [verdict EXCEPT ![i] = v]
      /\ UNCHANGED <<site, stage, queue, candidates, lookups, passed>>
  BY DEF Emit, Settled
<1>2. /\ n \in Nat /\ DOMAIN out = 1..n /\ out \in Seq(Url)
      /\ Len(verdict) \in Nat /\ DOMAIN verdict = 1..Len(verdict) /\ i \in Nat /\ i >= 1
      /\ i <= Len(verdict)
      /\ Len(candidates) \in Nat /\ DOMAIN candidates = 1..Len(candidates)
      /\ DOMAIN verdict \subseteq DOMAIN candidates /\ candidates[i] \in Url
  <2>1. Len(verdict) <= Len(candidates)
    BY <1>0 DEF IInv, LookedUp
  <2> QED
    BY <1>0, <2>1, Domains DEF IInv, TypeOK
<1>3. /\ verdict' \in Seq(Verdict) /\ Len(verdict') = Len(verdict)
      /\ DOMAIN verdict' = DOMAIN verdict /\ verdict'[i] = v
      /\ \A k \in DOMAIN verdict : k # i => verdict'[k] = verdict[k]
  <2>1. verdict \in Seq(Verdict) /\ v \in Verdict
    BY <1>0 DEF IInv, TypeOK, Verdict
  <2> QED
    BY <1>1, <2>1, ReplaceFacts
<1>4. ~Settled(i) /\ Settled(i)'
  BY <1>1, <1>3 DEF Settled
<1>5. /\ n < i /\ n <= Len(verdict)
      /\ \A j \in DOMAIN verdict : j < i => Settled(j)
      /\ \A j \in DOMAIN verdict : i < j => ~Settled(j)
  BY <1>0, <1>1, <1>2, <1>4 DEF IInv, Emission
<1>6. \A j \in DOMAIN verdict : Settled(j)' <=> j = i \/ Settled(j)
  BY <1>3, <1>4 DEF Settled
<1>7. /\ out' \in Seq(Url) /\ Len(out') \in Nat /\ n <= Len(out') /\ Len(out') <= n + 1
      /\ DOMAIN out' = 1..Len(out')
      /\ \A k \in 1..n : out'[k] = out[k]
      /\ verdict[i] = "valid" => Len(out') = n + 1 /\ out'[n + 1] = candidates[i]
      /\ verdict[i] # "valid" => Len(out') = n
  <2>1. CASE verdict[i] = "valid"
    <3>1. out' = Append(out, candidates[i])
      BY <1>1, <2>1
    <3>2. /\ out' \in Seq(Url) /\ Len(out') = n + 1
          /\ \A k \in 1..n : out'[k] = out[k]
          /\ out'[n + 1] = candidates[i] /\ DOMAIN out' = 1..Len(out')
      BY <1>2, <3>1, AppendFacts
    <3> HIDE DEF n
    <3> QED
      BY <1>2, <2>1, <3>2
  <2>2. CASE verdict[i] # "valid"
    <3>1. out' = out
      BY <1>1, <2>2
    <3>2. out' \in Seq(Url) /\ Len(out') = n /\ DOMAIN out' = 1..Len(out')
      BY <1>2, <3>1
    <3> HIDE DEF n
    <3> QED
      BY <1>2, <2>2, <3>1, <3>2
  <2> QED
    BY <2>1, <2>2
<1> HIDE DEF n, v
<1>8. \A k \in 1..Len(out') : k \in 1..n \/ (verdict[i] = "valid" /\ k = n + 1)
  <2>1. n \in Nat /\ (Len(out') = n \/ (verdict[i] = "valid" /\ Len(out') = n + 1))
    BY <1>2, <1>7
  <2> QED
    BY <2>1
<1>9. TypeOK'
  <2>1. InFlight' \subseteq InFlight
    BY <1>1, <1>3, <1>4 DEF InFlight, Settled
  <2>2. Cardinality(InFlight') <= Concurrency
    BY <1>0, <2>1, FewerInFlight DEF IInv
  <2> QED
    BY <1>0, <1>1, <1>3, <1>7, <2>2 DEF IInv, TypeOK, Verdict, site
<1>10. Kept'
  BY <1>0, <1>1 DEF IInv, Kept, Limit, HostAllowed, site
<1>11. LookedUp'
  <2>1. verdict # <<>> /\ verdict' # <<>>
    BY <1>2, <1>3
  <2> QED
    BY <1>0, <1>1, <1>3, <2>1 DEF IInv, LookedUp, site
<1>12. /\ \A k \in 1..n : \E a \in DOMAIN verdict :
             verdict[a] = "listed" /\ out[k] = candidates[a] /\ a < i
  <2>1. \A k \in 1..n : \E a \in DOMAIN verdict : verdict[a] = "listed" /\ out[k] = candidates[a]
    BY <1>0, <1>2 DEF IInv, Emission
  <2>2. \A a \in DOMAIN verdict : verdict[a] = "listed" => a < i
    <3>1. \A a \in DOMAIN verdict : verdict[a] = "listed" => Settled(a)
      BY DEF Settled
    <3> QED
      BY <1>2, <1>4, <1>5, <3>1
  <2> QED
    BY <2>1, <2>2
<1>13. Emission'
  <2>1. \A a, b \in DOMAIN verdict : a < b /\ Settled(b)' => Settled(a)'
    <3>1. \A a, b \in DOMAIN verdict : a < b /\ Settled(b) => Settled(a)
      BY <1>0 DEF IInv, Emission
    <3> QED
      BY <1>2, <1>5, <1>6, <3>1
  <2>2. Len(out') <= Len(verdict)
    <3>1. Len(out') \in Nat /\ Len(out') <= n + 1 /\ n \in Nat /\ n < i
      BY <1>2, <1>5, <1>7
    <3> QED
      BY <1>2, <3>1
  <2>3. \A a \in DOMAIN verdict : ~Settled(a)' => Len(out') < a
    BY <1>2, <1>5, <1>6, <1>7
  <2>4. /\ verdict[i] = "valid" => verdict'[i] = "listed"
        /\ \A a \in DOMAIN verdict : verdict'[a] = "listed" =>
              verdict[a] = "listed" \/ (a = i /\ verdict[i] = "valid")
        /\ \A a \in DOMAIN verdict : verdict[a] = "listed" => verdict'[a] = "listed"
    BY <1>1, <1>3 DEF v
  <2>5. \A k \in DOMAIN out' : \E a \in DOMAIN verdict : verdict'[a] = "listed" /\ out'[k] = candidates[a]
    <3>1. ASSUME NEW k \in DOMAIN out'
          PROVE  \E a \in DOMAIN verdict : verdict'[a] = "listed" /\ out'[k] = candidates[a]
      <4>1. CASE k \in 1..n
        BY <1>7, <1>12, <2>4, <4>1
      <4>2. CASE verdict[i] = "valid" /\ k = n + 1
        BY <1>7, <2>4, <4>2
      <4> QED
        BY <1>7, <1>8, <4>1, <4>2
    <3> QED
      BY <3>1
  <2>6. ASSUME NEW a \in DOMAIN verdict, verdict'[a] = "listed"
        PROVE  \E k \in DOMAIN out' : out'[k] = candidates[a]
    <3>1. CASE verdict[a] = "listed"
      <4>1. PICK k \in DOMAIN out : out[k] = candidates[a]
        BY <1>0, <3>1 DEF IInv, Emission
      <4>2. k \in DOMAIN out' /\ out'[k] = out[k]
        <5>1. k \in 1..n /\ Len(out') \in Nat /\ n \in Nat /\ n <= Len(out')
          BY <1>2, <1>7, <4>1
        <5>2. k \in 1..Len(out')
          BY <5>1
        <5> QED
          BY <1>7, <5>1, <5>2
      <4> QED
        BY <4>1, <4>2
    <3>2. CASE a = i /\ verdict[i] = "valid"
      <4>1. n + 1 \in DOMAIN out' /\ out'[n + 1] = candidates[i]
        BY <1>2, <1>7, <3>2
      <4> QED
        BY <3>2, <4>1
    <3> QED
      BY <2>4, <2>6, <3>1, <3>2
  <2>7. \A a \in DOMAIN verdict : verdict'[a] \in {"valid", "listed"} =>
           candidates[a].host = "start" \/ candidates[a] \in passed
    <3>1. \A a \in DOMAIN verdict : verdict'[a] \in {"valid", "listed"}
             => verdict[a] \in {"valid", "listed"}
      BY <1>1, <1>3 DEF v
    <3> QED
      BY <1>0, <3>1 DEF IInv, Emission
  <2> QED
    BY <1>1, <1>3, <2>1, <2>2, <2>3, <2>5, <2>6, <2>7 DEF Emission
<1>14. OrderKept'
  <2>1. \A a, b \in DOMAIN candidates : candidates[a] = candidates[b] => a = b
    BY <1>0 DEF IInv, Kept
  <2>2. ASSUME NEW k \in DOMAIN out', NEW l \in DOMAIN out',
               NEW a \in DOMAIN candidates, NEW b \in DOMAIN candidates,
               out'[k] = candidates[a], out'[l] = candidates[b]
        PROVE  k < l <=> a < b
    <3>1. ASSUME NEW j \in 1..n, NEW c \in DOMAIN candidates, out'[j] = candidates[c] PROVE c < i
      BY <1>2, <1>7, <1>12, <2>1, <3>1
    <3>2. ASSUME verdict[i] = "valid", NEW c \in DOMAIN candidates, out'[n + 1] = candidates[c]
          PROVE  c = i
      BY <1>2, <1>7, <2>1, <3>2
    <3>3. CASE k \in 1..n /\ l \in 1..n
      <4>1. out[k] = candidates[a] /\ out[l] = candidates[b] /\ k \in DOMAIN out /\ l \in DOMAIN out
        BY <1>2, <1>7, <2>2, <3>3
      <4> QED
        BY <1>0, <4>1 DEF IInv, OrderKept
    <3>4. CASE k \in 1..n /\ l = n + 1 /\ verdict[i] = "valid"
      <4>1. a < i /\ b = i
        BY <2>2, <3>1, <3>2, <3>4
      <4> QED
        BY <1>2, <3>4, <4>1
    <3>5. CASE l \in 1..n /\ k = n + 1 /\ verdict[i] = "valid"
      <4>1. b < i /\ a = i
        BY <2>2, <3>1, <3>2, <3>5
      <4> QED
        BY <1>2, <3>5, <4>1
    <3>6. CASE k = n + 1 /\ l = n + 1 /\ verdict[i] = "valid"
      <4>1. a = i /\ b = i
        BY <2>2, <3>2, <3>6
      <4> QED
        BY <1>2, <3>6, <4>1
    <3> QED
      BY <1>7, <1>8, <3>3, <3>4, <3>5, <3>6
  <2>3. ToSet(out') = {candidates'[k] : k \in {l \in DOMAIN verdict' : verdict'[l] = "listed"}}
    <3>1. /\ \A k \in DOMAIN out' : \E a \in DOMAIN verdict' :
                verdict'[a] = "listed" /\ out'[k] = candidates'[a]
          /\ \A a \in DOMAIN verdict' : verdict'[a] = "listed" =>
                \E k \in DOMAIN out' : out'[k] = candidates'[a]
      BY <1>13 DEF Emission
    <3> QED
      BY <3>1 DEF ToSet
  <2> QED
    BY <1>1, <2>2, <2>3 DEF OrderKept
<1> QED
  BY <1>9, <1>10, <1>11, <1>13, <1>14 DEF IInv

-----------------------------------------------------------------------------
(* The invariant holds before the request.                                   *)
LEMMA InitIInv == Init => IInv
<1> SUFFICES ASSUME Init PROVE IInv
  OBVIOUS
<1>1. /\ candidates = <<>> /\ verdict = <<>> /\ out = <<>> /\ queue = <<>>
      /\ lookups = {} /\ passed = {} /\ stage = "sitemap"
  BY DEF Init
<1>2. DOMAIN candidates = {} /\ DOMAIN verdict = {} /\ DOMAIN out = {}
  BY <1>1
<1>3. Limit \in Nat /\ Concurrency \in Nat
  BY WebMapAssumption DEF Init, Limit
<1>4. InFlight = {} /\ IsFiniteSet({}) /\ Cardinality({}) = 0
  BY <1>2, FS_EmptySet DEF InFlight
<1>5. TypeOK
  BY <1>1, <1>3, <1>4 DEF Init, TypeOK
<1>6. Kept
  BY <1>1, <1>2, <1>3 DEF Kept
<1>7. LookedUp
  BY <1>1, <1>4 DEF LookedUp
<1>8. Emission
  BY <1>1, <1>2 DEF Emission
<1>9. OrderKept
  BY <1>1, <1>2 DEF OrderKept
<1> QED
  BY <1>5, <1>6, <1>7, <1>8, <1>9 DEF IInv

(* The inductive invariant holds in every reachable state.                   *)
THEOREM Invariance == Spec => []IInv
<1>1. IInv /\ [Next]_vars => IInv'
  <2> SUFFICES ASSUME IInv, [Next]_vars PROVE IInv'
    OBVIOUS
  <2>1. CASE ReadSitemap \/ ReadPage
    BY <2>1, ReadSteps
  <2>2. CASE Consider
    BY <2>2, ConsiderStep
  <2>3. CASE Pull
    BY <2>3, PullStep
  <2>4. ASSUME NEW i \in DOMAIN verdict, Validated(i) PROVE IInv'
    BY <2>4, ValidatedStep
  <2>5. ASSUME NEW i \in DOMAIN verdict, Emit(i) PROVE IInv'
    BY <2>5, EmitStep
  <2>6. CASE Answer
    <3>1. /\ UNCHANGED <<site, queue, candidates, verdict, out, lookups, passed>>
          /\ stage' = "done" /\ stage = "check" /\ queue = <<>>
      BY <2>6 DEF Answer
    <3>2. InFlight' = InFlight
      BY <3>1 DEF InFlight
    <3>3. TypeOK'
      BY <3>1, <3>2 DEF IInv, TypeOK, site
    <3>4. Kept'
      BY <3>1 DEF IInv, Kept, Limit, HostAllowed, site
    <3>5. LookedUp'
      BY <3>1 DEF IInv, LookedUp, site
    <3>6. Emission'
      BY <3>1 DEF IInv, Emission, Settled
    <3>7. OrderKept'
      BY <3>1, ListedAreOut DEF IInv, OrderKept
    <3> QED
      BY <3>3, <3>4, <3>5, <3>6, <3>7 DEF IInv
  <2>7. CASE UNCHANGED vars
    <3>1. InFlight' = InFlight
      BY <2>7 DEF vars, InFlight
    <3> QED
      BY <2>7, <3>1 DEF vars, IInv, TypeOK, Kept, Limit, HostAllowed, LookedUp, Emission,
                        Settled, OrderKept
  <2> QED
    BY <2>1, <2>2, <2>3, <2>4, <2>5, <2>6, <2>7 DEF Next
<1> QED
  BY InitIInv, <1>1, PTL DEF Spec

(* The variables keep their types, and no more than Concurrency candidates   *)
(* are ever under way.                                                       *)
THEOREM TypeCorrect == Spec => []TypeOK
<1>1. IInv => TypeOK
  BY DEF IInv
<1> QED
  BY <1>1, Invariance, PTL

(* Whatever order lookups end in, the answer is in the order of the          *)
(* candidates and holds all that were listed.                                *)
THEOREM InOrder == Spec => []OrderKept
<1>1. IInv => OrderKept
  BY DEF IInv
<1> QED
  BY <1>1, Invariance, PTL

(* What is listed is on the start's host, or a subdomain that was asked for  *)
(* and whose lookup found no fault; and the limit holds for the answer.      *)
THEOREM ListedInScope == Spec => []InScope
<1>1. IInv => InScope
  <2> SUFFICES ASSUME IInv PROVE InScope
    OBVIOUS
  <2>0. IInv
    OBVIOUS
  <2>1. /\ Len(out) \in Nat /\ Len(verdict) \in Nat /\ Len(candidates) \in Nat /\ Limit \in Nat
        /\ DOMAIN verdict = 1..Len(verdict) /\ DOMAIN candidates = 1..Len(candidates)
    BY <2>0, Domains DEF IInv
  <2>2. Len(out) <= Len(verdict) /\ Len(verdict) <= Len(candidates) /\ Len(candidates) <= Limit
    BY <2>0 DEF IInv, Emission, LookedUp, Kept
  <2>3. Len(out) <= Limit /\ DOMAIN verdict \subseteq DOMAIN candidates
    BY <2>1, <2>2
  <2>4. ASSUME NEW k \in DOMAIN out
        PROVE  out[k].host = "start" \/ (args.subdomains /\ out[k].host = "sub" /\ out[k] \in passed)
    <3>1. PICK a \in DOMAIN verdict : verdict[a] = "listed" /\ out[k] = candidates[a]
      BY <2>0 DEF IInv, Emission
    <3>2. HostAllowed(candidates[a])
      BY <2>0, <2>3 DEF IInv, Kept
    <3>3. candidates[a].host = "start" \/ candidates[a] \in passed
      BY <2>0, <3>1 DEF IInv, Emission
    <3> QED
      BY <3>1, <3>2, <3>3 DEF HostAllowed
  <2> QED
    BY <2>3, <2>4 DEF InScope
<1> QED
  BY <1>1, Invariance, PTL

(* However long a sitemap is, it costs at most `limit` lookups, and none of  *)
(* the start's own host.                                                     *)
THEOREM LookupsAreFew == Spec => []FewLookups
<1>1. IInv => FewLookups
  <2> SUFFICES ASSUME IInv PROVE FewLookups
    OBVIOUS
  <2>0. IInv
    OBVIOUS
  <2>1. Len(verdict) \in Nat /\ Len(candidates) \in Nat /\ Limit \in Nat
    BY <2>0, Domains DEF IInv
  <2>2. Cardinality(lookups) \in Nat
    BY <2>0, FS_CardinalityType DEF IInv, LookedUp
  <2>3. /\ Cardinality(lookups) <= Len(verdict) /\ Len(verdict) <= Len(candidates)
        /\ Len(candidates) <= Limit
    BY <2>0 DEF IInv, LookedUp, Kept
  <2> QED
    BY <2>0, <2>1, <2>2, <2>3 DEF FewLookups, IInv, LookedUp
<1> QED
  BY <1>1, Invariance, PTL

(* The two copies of the sitemap parser read the same from a sitemap whose   *)
(* locations and texts are plain, and from any other web_sitemap's reads,    *)
(* but for blanks, nothing that web_map's does not read.                     *)
THEOREM ParsersRead == Spec => []ParsersAgree
<1>1. TypeOK => ParsersAgree
  <2> SUFFICES ASSUME TypeOK PROVE ParsersAgree
    OBVIOUS
  <2> DEFINE n == Len(sitemap)
             t == SitemapReads(sitemap)[n].locs
             p == FirstOf(t, Limit)
  <2>1. sitemap \in Seq(Event) /\ n \in 0..n /\ Limit \in Nat
    BY WebMapAssumption, Domains DEF TypeOK
  <2>2. PlainLocs(sitemap) /\ PlainTexts(sitemap) => SitemapReads(sitemap)[n] = MapReads(sitemap)[n]
    BY <2>1, SameReads
  <2>3. PlainLocs(sitemap) /\ PlainTexts(sitemap) =>
          SitemapLocs(sitemap, Limit) = FirstOf(MapLocs(sitemap), Limit)
    BY <2>2 DEF SitemapLocs, MapLocs
  <2>4. SitemapReads(sitemap)[n] \in Reading
    BY <2>1, ReadsTypes
  <2>5. Within(t, MapLocs(sitemap))
    BY <2>1, FewerReads DEF MapLocs
  <2>6. SitemapLocs(sitemap, Limit) = p
    BY DEF SitemapLocs
  <2>7. t \in Seq(Text)
    BY <2>4 DEF Reading
  <2> HIDE DEF t
  <2>8. \A k \in DOMAIN p : k \in DOMAIN t /\ p[k] = t[k]
    <3> DEFINE m == IF Len(t) < Limit THEN Len(t) ELSE Limit
    <3>1. m \in Nat /\ m <= Len(t) /\ Len(t) \in Nat /\ p = SubSeq(t, 1, m)
      BY <2>1, <2>7 DEF FirstOf
    <3> HIDE DEF m
    <3>2. DOMAIN SubSeq(t, 1, m) = 1..m /\ \A k \in 1..m : SubSeq(t, 1, m)[k] = t[k]
      BY <2>7, <3>1
    <3>3. 1..m \subseteq DOMAIN t
      BY <2>7, <3>1
    <3> QED
      BY <3>1, <3>2, <3>3
  <2> HIDE DEF p
  <2>9. \A text \in ToSet(p) : text.form # "blank" => Trim(text) \in ToSet(MapLocs(sitemap))
    BY <2>5, <2>8 DEF ToSet, Within
  <2> QED
    BY <2>3, <2>6, <2>9 DEF ParsersAgree
<1> QED
  BY <1>1, TypeCorrect, PTL
=============================================================================
