----------------------------- MODULE ScrapeProofs -----------------------------
(* Proofs about what the walkers make of a page and about the sections of    *)
(* web_scrape, for every page of any length and every list of formats.       *)
EXTENDS Scrape, FiniteSetTheorems, SequenceTheorems, WellFoundedInduction, TLAPS

-----------------------------------------------------------------------------
(* Induction without an operator for the claim: a set that has 0 and the     *)
(* successor of each of its numbers has all of them, as the least number     *)
(* outside of it would be neither.                                           *)
LEMMA Induction ==
    ASSUME NEW S, 0 \in S, \A n \in Nat : n \in S => n + 1 \in S
    PROVE  \A n \in Nat : n \in S
<1> DEFINE R == OpToRel(<, Nat)
           T == Nat \ S
<1>1. IsWellFoundedOn(R, Nat)
  BY NatLessThanWellFounded
<1>2. \A x, y \in Nat : y < x => <<y, x>> \in R
  BY DEF OpToRel
<1> HIDE DEF R
<1> SUFFICES ASSUME T # {} PROVE FALSE
  OBVIOUS
<1>3. T \subseteq Nat
  OBVIOUS
<1> HIDE DEF T
<1>4. \E x \in T : \A y \in T : <<y, x>> \notin R
  BY <1>1, <1>3, WFMin
<1>5. PICK x \in T : \A y \in T : ~(y < x)
  BY <1>2, <1>3, <1>4
<1>6. x \in Nat /\ x # 0 /\ x \notin S
  BY DEF T
<1>7. x - 1 \in Nat /\ x - 1 < x /\ (x - 1) + 1 = x
  BY <1>6
<1>8. x - 1 \in S
  BY <1>5, <1>7 DEF T
<1> QED
  BY <1>6, <1>7, <1>8

(* A loop of n turns, each of which takes a value of S to a value of S, has  *)
(* a value after each turn.                                                  *)
IsLoop(g, S, c, n, step) ==
    g \in [0..n -> S] /\ g[0] = c /\ \A k \in 1..n : g[k] = step[<<g[k - 1], k>>]

(* A loop in which every turn stays in S has a value in S after each turn.   *)
LEMMA Loop ==
    ASSUME NEW S, NEW c \in S, NEW n \in Nat, NEW step \in [S \X (1..n) -> S]
    PROVE  \E g : IsLoop(g, S, c, n, step)
<1> DEFINE T == {m \in Nat : m <= n => \E g : IsLoop(g, S, c, m, step)}
<1>1. 0 \in T
  <2>1. IsLoop([k \in 0..0 |-> c], S, c, 0, step)
    BY DEF IsLoop
  <2> QED
    BY <2>1
<1>2. ASSUME NEW m \in Nat, m \in T PROVE m + 1 \in T
  <2> SUFFICES ASSUME m + 1 <= n PROVE \E g : IsLoop(g, S, c, m + 1, step)
    OBVIOUS
  <2>1. PICK g : IsLoop(g, S, c, m, step)
    BY <1>2
  <2> DEFINE next == step[<<g[m], m + 1>>]
             h == [k \in 0..(m + 1) |-> IF k <= m THEN g[k] ELSE next]
  <2>2. next \in S
    BY <2>1 DEF IsLoop
  <2> HIDE DEF next
  <2>3. h \in [0..(m + 1) -> S] /\ h[0] = c
    BY <2>1, <2>2 DEF IsLoop
  <2>4. ASSUME NEW k \in 1..(m + 1) PROVE h[k] = step[<<h[k - 1], k>>]
    <3>1. CASE k <= m
      BY <2>1, <3>1 DEF IsLoop
    <3>2. CASE k = m + 1
      <4>1. h[k] = next /\ h[k - 1] = g[m]
        BY <3>2
      <4> QED
        BY <3>2, <4>1 DEF next
    <3> QED
      BY <3>1, <3>2
  <2>5. IsLoop(h, S, c, m + 1, step)
    BY <2>3, <2>4 DEF IsLoop
  <2> QED
    BY <2>5
<1> HIDE DEF T
<1>3. n \in T
  BY <1>1, <1>2, Induction
<1> QED
  BY <1>3 DEF T

(* A set of numbers below a bound has a greatest one.                        *)
LEMMA Greatest ==
    ASSUME NEW K, NEW N \in Nat, K \subseteq 1..N, K # {}
    PROVE  \E x \in K : \A k \in K : k <= x
<1> SUFFICES ASSUME \A x \in K : \E k \in K : ~(k <= x) PROVE FALSE
  OBVIOUS
<1> DEFINE T == {n \in Nat : \A k \in K : k + n <= N}
<1>0. \A k \in K : k \in Nat /\ k >= 1 /\ k <= N
  OBVIOUS
<1>1. 0 \in T
  BY <1>0
<1>2. ASSUME NEW n \in Nat, n \in T PROVE n + 1 \in T
  <2>1. ASSUME NEW k \in K PROVE k + (n + 1) <= N
    <3>1. k + n <= N
      BY <1>2
    <3>2. PICK l \in K : ~(l <= k)
      OBVIOUS
    <3>3. l + n <= N
      BY <1>2
    <3> QED
      BY <1>0, <3>1, <3>2, <3>3
  <2> QED
    BY <2>1
<1> HIDE DEF T
<1>3. N \in T
  BY <1>1, <1>2, Induction
<1>4. PICK k \in K : TRUE
  OBVIOUS
<1>5. k + N <= N
  BY <1>3 DEF T
<1> QED
  BY <1>0, <1>5

-----------------------------------------------------------------------------
(* What is written grows at its end.                                         *)
LEMMA OutFacts ==
    ASSUME NEW o \in Out
    PROVE  o.md \in Seq(Token) /\ o.depth \in Nat /\ Len(o.md) \in Nat
           /\ \A n \in 1..Len(o.md) : o.md[n] \in Token
<1>1. o.md \in Seq(Token) /\ o.depth \in Nat
  BY DEF Out
<1> HIDE DEF Token
<1> QED
  BY <1>1

(* What is put comes last, and nothing else changes.                         *)
LEMMA PutFacts ==
    ASSUME NEW o \in Out, NEW t \in Token
    PROVE  /\ Put(o, t) \in Out /\ Put(o, t).depth = o.depth
           /\ Len(Put(o, t).md) = Len(o.md) + 1
           /\ \A n \in 1..Len(o.md) : Put(o, t).md[n] = o.md[n]
           /\ Put(o, t).md[Len(o.md) + 1] = t
<1> HIDE DEF Token
<1> DEFINE s == o.md
<1>1. s \in Seq(Token) /\ o.depth \in Nat
  BY OutFacts
<1>2. Put(o, t) = [md |-> Append(s, t), depth |-> o.depth]
  BY DEF Put, Out
<1> HIDE DEF s
<1>3. /\ Append(s, t) \in Seq(Token) /\ Len(Append(s, t)) = Len(s) + 1
      /\ \A n \in 1..Len(s) : Append(s, t)[n] = s[n]
      /\ Append(s, t)[Len(s) + 1] = t
  BY <1>1
<1>4. Put(o, t) \in Out
  BY <1>1, <1>2, <1>3 DEF Out
<1> QED
  BY <1>2, <1>3, <1>4 DEF s

(* The tokens that r has and o has not, if o is how r begins.                *)
New(o, r) == {r.md[n] : n \in (Len(o.md) + 1)..Len(r.md)}

(* r is o and more, about nodes of X, with their texts in order.             *)
Grows(o, r, X) ==
    /\ r.depth = o.depth /\ Len(o.md) <= Len(r.md)
    /\ \A n \in 1..Len(o.md) : r.md[n] = o.md[n]
    /\ \A n \in (Len(o.md) + 1)..Len(r.md) : r.md[n][2] \in X
    /\ \A m, n \in (Len(o.md) + 1)..Len(r.md) :
          m < n /\ r.md[m][1] = "text" /\ r.md[n][1] = "text" => r.md[m][2] < r.md[n][2]

(* Nothing is added by doing nothing.                                        *)
LEMMA GrowsNot ==
    ASSUME NEW o \in Out, NEW X
    PROVE  Grows(o, o, X) /\ New(o, o) = {}
<1>1. (Len(o.md) + 1)..Len(o.md) = {} /\ Len(o.md) <= Len(o.md)
  BY OutFacts
<1> QED
  BY <1>1 DEF Grows, New

(* One token is added by putting it.                                         *)
LEMMA GrowsPut ==
    ASSUME NEW o \in Out, NEW t \in Token
    PROVE  Grows(o, Put(o, t), {t[2]}) /\ New(o, Put(o, t)) = {t}
<1> DEFINE r == Put(o, t)
<1>1. /\ r.depth = o.depth /\ Len(r.md) = Len(o.md) + 1 /\ Len(o.md) \in Nat
      /\ \A n \in 1..Len(o.md) : r.md[n] = o.md[n]
      /\ r.md[Len(o.md) + 1] = t
  BY PutFacts, OutFacts
<1> HIDE DEF r
<1>2. (Len(o.md) + 1)..Len(r.md) = {Len(o.md) + 1}
  BY <1>1
<1>3. Grows(o, r, {t[2]})
  <2>1. \A n \in (Len(o.md) + 1)..Len(r.md) : r.md[n][2] \in {t[2]}
    BY <1>1, <1>2
  <2>2. \A m, n \in (Len(o.md) + 1)..Len(r.md) : ~(m < n)
    BY <1>1, <1>2
  <2>3. Len(o.md) <= Len(r.md)
    BY <1>1
  <2> QED
    BY <1>1, <2>1, <2>2, <2>3 DEF Grows
<1>4. New(o, r) = {t}
  BY <1>1, <1>2 DEF New
<1> QED
  BY <1>3, <1>4 DEF r

(* What grows by nodes of X and then by later nodes, of Y, grows by both.    *)
LEMMA GrowsMore ==
    ASSUME NEW o \in Out, NEW q \in Out, NEW r \in Out, NEW X, NEW Y,
           Grows(o, q, X), Grows(q, r, Y), \A x \in X, y \in Y : x < y
    PROVE  Grows(o, r, X \cup Y) /\ New(o, r) = New(o, q) \cup New(q, r)
<1> DEFINE a == Len(o.md)
           b == Len(q.md)
           c == Len(r.md)
<1>1. a \in Nat /\ b \in Nat /\ c \in Nat
  BY OutFacts
<1>2. /\ q.depth = o.depth /\ a <= b
      /\ \A n \in 1..a : q.md[n] = o.md[n]
      /\ \A n \in (a + 1)..b : q.md[n][2] \in X
      /\ \A m, n \in (a + 1)..b :
            m < n /\ q.md[m][1] = "text" /\ q.md[n][1] = "text" => q.md[m][2] < q.md[n][2]
  BY DEF Grows
<1>3. /\ r.depth = q.depth /\ b <= c
      /\ \A n \in 1..b : r.md[n] = q.md[n]
      /\ \A n \in (b + 1)..c : r.md[n][2] \in Y
      /\ \A m, n \in (b + 1)..c :
            m < n /\ r.md[m][1] = "text" /\ r.md[n][1] = "text" => r.md[m][2] < r.md[n][2]
  BY DEF Grows
<1>4. New(o, r) = {r.md[n] : n \in (a + 1)..c} /\ New(o, q) = {q.md[n] : n \in (a + 1)..b}
      /\ New(q, r) = {r.md[n] : n \in (b + 1)..c}
  BY DEF New
<1>5. Grows(o, r, X \cup Y) <=>
        /\ r.depth = o.depth /\ a <= c
        /\ \A n \in 1..a : r.md[n] = o.md[n]
        /\ \A n \in (a + 1)..c : r.md[n][2] \in X \cup Y
        /\ \A m, n \in (a + 1)..c :
              m < n /\ r.md[m][1] = "text" /\ r.md[n][1] = "text" => r.md[m][2] < r.md[n][2]
  BY DEF Grows
<1> HIDE DEF a, b, c
<1>6. \A n \in (a + 1)..c : n \in (a + 1)..b \/ n \in (b + 1)..c
  BY <1>1
<1>7. \A n \in (a + 1)..b : n \in 1..b /\ n \in (a + 1)..c
  BY <1>1, <1>2, <1>3
<1>8. \A n \in (b + 1)..c : n \in (a + 1)..c
  BY <1>1, <1>2
<1>9. \A n \in (a + 1)..b : r.md[n] = q.md[n]
  BY <1>3, <1>7
<1>10. \A n \in 1..a : r.md[n] = o.md[n]
  <2>1. \A n \in 1..a : n \in 1..b
    BY <1>1, <1>2
  <2> QED
    BY <1>2, <1>3, <2>1
<1>11. \A n \in (a + 1)..c : r.md[n][2] \in X \cup Y
  BY <1>2, <1>3, <1>6, <1>9
<1>12. ASSUME NEW m \in (a + 1)..c, NEW n \in (a + 1)..c,
              m < n, r.md[m][1] = "text", r.md[n][1] = "text"
       PROVE  r.md[m][2] < r.md[n][2]
  <2>1. CASE m \in (a + 1)..b /\ n \in (a + 1)..b
    BY <1>2, <1>9, <1>12, <2>1
  <2>2. CASE m \in (b + 1)..c /\ n \in (b + 1)..c
    BY <1>3, <1>12, <2>2
  <2>3. CASE m \in (a + 1)..b /\ n \in (b + 1)..c
    BY <1>2, <1>3, <1>9, <2>3
  <2>4. CASE m \in (b + 1)..c /\ n \in (a + 1)..b
    BY <1>1, <1>12, <2>4
  <2> QED
    BY <1>6, <2>1, <2>2, <2>3, <2>4
<1>13. New(o, r) = New(o, q) \cup New(q, r)
  BY <1>4, <1>6, <1>7, <1>8, <1>9
<1>14. r.depth = o.depth /\ a <= c
  BY <1>1, <1>2, <1>3
<1>15. Grows(o, r, X \cup Y)
  BY <1>5, <1>10, <1>11, <1>12, <1>14
<1> QED
  BY <1>13, <1>15

-----------------------------------------------------------------------------
(* A loop over nodes: what each of them, when visited, makes of Out.         *)
IsVisit(p, visit) ==
    DOMAIN visit \subseteq DOMAIN p /\ \A k \in DOMAIN visit : visit[k] \in [Out -> Out]

(* The recursive function of a loop over nodes exists, and stays in Out.     *)
LEMMA VisitsDef ==
    ASSUME NEW p \in Seq(Node), NEW visit, IsVisit(p, visit), NEW out \in Out
    PROVE  LET v == Visits(p, visit, out)
           IN  /\ v[0] = out
               /\ \A n \in 1..Len(p) : v[n] = IF n \in DOMAIN visit THEN visit[n][v[n - 1]] ELSE v[n - 1]
               /\ \A n \in 0..Len(p) : v[n] \in Out
<1> DEFINE N == Len(p)
           Turn(o, n) == IF n \in DOMAIN visit THEN visit[n][o] ELSE o
           step == [q \in Out \X (1..N) |-> Turn(q[1], q[2])]
           Def(g) == g = [n \in 0..N |-> IF n = 0 THEN out ELSE Turn(g[n - 1], n)]
           v == Visits(p, visit, out)
<1>1. N \in Nat
  OBVIOUS
<1>2. ASSUME NEW o \in Out, NEW n \in 1..N PROVE Turn(o, n) \in Out
  <2>1. CASE n \in DOMAIN visit
    <3>1. visit[n] \in [Out -> Out]
      BY <2>1 DEF IsVisit
    <3> HIDE DEF Out
    <3> QED
      BY <2>1, <3>1
  <2> HIDE DEF Out
  <2> QED
    BY <2>1
<1>3. v = CHOOSE g : Def(g)
  BY DEF Visits
<1> HIDE DEF Turn, N, Out, v
<1>4. step \in [Out \X (1..N) -> Out]
  <2>1. ASSUME NEW q \in Out \X (1..N) PROVE Turn(q[1], q[2]) \in Out
    <3>1. q[1] \in Out /\ q[2] \in 1..N
      OBVIOUS
    <3> QED
      BY <1>2, <3>1
  <2> QED
    BY <2>1
<1> HIDE DEF step, Def
<1>5. PICK g : IsLoop(g, Out, out, N, step)
  BY <1>1, <1>4, Loop
<1>6. /\ g \in [0..N -> Out] /\ g[0] = out
      /\ \A k \in 1..N : g[k] = step[<<g[k - 1], k>>]
  BY <1>5 DEF IsLoop
<1>7. ASSUME NEW k \in 1..N PROVE g[k] = Turn(g[k - 1], k)
  <2>1. k - 1 \in 0..N
    BY <1>1
  <2>2. <<g[k - 1], k>> \in Out \X (1..N)
    BY <1>6, <2>1
  <2> QED
    BY <1>6, <2>2 DEF step
<1>8. Def(g)
  <2>1. g = [n \in 0..N |-> g[n]]
    BY <1>6
  <2>2. \A n \in 0..N : g[n] = IF n = 0 THEN out ELSE Turn(g[n - 1], n)
    BY <1>1, <1>6, <1>7
  <2> QED
    BY <2>1, <2>2 DEF Def
<1>9. Def(v)
  BY <1>3, <1>8
<1>10. v[0] = out /\ \A n \in 1..N : v[n] = Turn(v[n - 1], n)
  BY <1>1, <1>9 DEF Def
<1>11. \A n \in Nat : n <= N => v[n] \in Out
  <2> DEFINE T == {m \in Nat : m <= N => v[m] \in Out}
  <2>1. 0 \in T
    BY <1>10
  <2>2. ASSUME NEW m \in Nat, m \in T PROVE m + 1 \in T
    <3> SUFFICES ASSUME m + 1 <= N PROVE v[m + 1] \in Out
      OBVIOUS
    <3>1. m + 1 \in 1..N /\ (m + 1) - 1 = m /\ m <= N
      BY <1>1
    <3>2. v[m + 1] = Turn(v[m], m + 1)
      BY <1>10, <3>1
    <3>3. v[m] \in Out
      BY <2>2, <3>1
    <3> QED
      BY <1>2, <3>1, <3>2, <3>3
  <2> HIDE DEF T
  <2>3. \A n \in Nat : n \in T
    BY <2>1, <2>2, Induction
  <2> QED
    BY <2>3 DEF T
<1>12. \A n \in 1..N : v[n] = IF n \in DOMAIN visit THEN visit[n][v[n - 1]] ELSE v[n - 1]
  BY <1>10 DEF Turn
<1>13. \A n \in 0..N : v[n] \in Out
  BY <1>11
<1> QED
  BY <1>10, <1>12, <1>13 DEF N, v

(* Every visit grows what it is given by the nodes of its span, all of X,    *)
(* and the spans follow each other.                                          *)
GrowEach(visit, span, out, X) ==
    /\ \A k \in DOMAIN visit : span[k] \subseteq X
    /\ \A k \in DOMAIN visit : \A o \in Out :
          o.depth = out.depth => Grows(o, visit[k][o], span[k])
    /\ \A k, l \in DOMAIN visit : k < l => \A x \in span[k], y \in span[l] : x < y

(* What each visit adds is what the loop adds.                               *)
LEMMA EachGrows ==
    ASSUME NEW p \in Seq(Node), NEW visit, IsVisit(p, visit), NEW out \in Out, NEW span,
           NEW X, GrowEach(visit, span, out, X)
    PROVE  /\ Each(p, visit, out) \in Out
           /\ Grows(out, Each(p, visit, out), X)
           /\ \A t \in New(out, Each(p, visit, out)) : \E k \in DOMAIN visit, o \in Out :
                 o.depth = out.depth /\ t \in New(o, visit[k][o])
           /\ \A k \in DOMAIN visit : \E o \in Out :
                 o.depth = out.depth /\ New(o, visit[k][o]) \subseteq New(out, Each(p, visit, out))
<1> DEFINE N == Len(p)
           v == Visits(p, visit, out)
           r == Each(p, visit, out)
           D == DOMAIN visit
           UpTo(n) == {k \in D : k <= n}
           Spans(n) == UNION {span[k] : k \in UpTo(n)}
           News(n) == UNION {New(v[k - 1], visit[k][v[k - 1]]) : k \in UpTo(n)}
           Good(n) == Grows(out, v[n], Spans(n)) /\ New(out, v[n]) = News(n)
           T == {n \in Nat : n <= N => Good(n)}
<1> USE DEF GrowEach
<1>1. N \in Nat /\ DOMAIN p = 1..N /\ D \subseteq 1..N
  BY DEF IsVisit
<1>2. /\ v[0] = out
      /\ \A n \in 1..N : v[n] = IF n \in D THEN visit[n][v[n - 1]] ELSE v[n - 1]
      /\ \A n \in 0..N : v[n] \in Out
  BY VisitsDef
<1>0. \A k \in D : k \in Nat /\ k \in 1..N /\ k - 1 \in 0..N
  BY <1>1
<1> HIDE DEF v, N, D
<1>3. 0 \in T
  <2>1. UpTo(0) = {}
    <3>1. \A k \in D : ~(k <= 0)
      BY <1>0, <1>1
    <3> QED
      BY <3>1
  <2>2. Spans(0) = {} /\ News(0) = {}
    BY <2>1
  <2> HIDE DEF Spans, News
  <2>3. Good(0)
    BY <1>2, <2>2, GrowsNot
  <2> HIDE DEF Good
  <2> QED
    BY <2>3
<1>4. ASSUME NEW n \in Nat, n \in T PROVE n + 1 \in T
  <2> SUFFICES ASSUME n + 1 <= N PROVE Good(n + 1)
    OBVIOUS
  <2>1. n + 1 \in 1..N /\ n \in 0..N /\ n + 1 \in 0..N /\ (n + 1) - 1 = n /\ n <= N
    BY <1>1
  <2>2. Good(n)
    BY <1>4, <2>1
  <2>3. v[n] \in Out /\ v[n + 1] \in Out /\ v[n + 1] = IF n + 1 \in D THEN visit[n + 1][v[n]] ELSE v[n]
    BY <1>2, <2>1
  <2>4. CASE n + 1 \notin D
    <3>1. UpTo(n + 1) = UpTo(n)
      <4>1. \A k \in D : k <= n + 1 <=> k <= n
        BY <1>0, <2>4
      <4> QED
        BY <4>1
    <3>2. v[n + 1] = v[n]
      BY <2>3, <2>4
    <3> QED
      BY <2>2, <3>1, <3>2
  <2>5. CASE n + 1 \in D
    <3>1. UpTo(n + 1) = UpTo(n) \cup {n + 1}
      <4>1. \A k \in D : k <= n + 1 <=> k <= n \/ k = n + 1
        BY <1>0
      <4> QED
        BY <2>5, <4>1
    <3> DEFINE S == span[n + 1]
               W == New(v[n], visit[n + 1][v[n]])
    <3>2. Spans(n + 1) = Spans(n) \cup S
      BY <3>1
    <3>3. News(n + 1) = News(n) \cup W
      <4>1. New(v[(n + 1) - 1], visit[n + 1][v[(n + 1) - 1]]) = W
        BY <2>1
      <4> HIDE DEF W
      <4> QED
        BY <3>1, <4>1
    <3>4. v[n + 1] = visit[n + 1][v[n]]
      BY <2>3, <2>5
    <3>5. Grows(out, v[n], Spans(n)) /\ New(out, v[n]) = News(n)
      BY <2>2
    <3>6. v[n].depth = out.depth
      BY <3>5 DEF Grows
    <3>7. Grows(v[n], v[n + 1], S)
      BY <2>3, <2>5, <3>4, <3>6 DEF D
    <3>8. \A x \in Spans(n), y \in S : x < y
      <4>1. ASSUME NEW k \in UpTo(n), NEW x \in span[k], NEW y \in S PROVE x < y
        <5>1. k \in D /\ k < n + 1
          BY <1>1
        <5> QED
          BY <2>5, <4>1, <5>1 DEF D
      <4> QED
        BY <4>1
    <3>9. W = New(v[n], v[n + 1])
      BY <3>4
    <3> HIDE DEF Spans, News, S, W
    <3>10. Grows(out, v[n + 1], Spans(n) \cup S) /\ New(out, v[n + 1]) = New(out, v[n]) \cup New(v[n], v[n + 1])
      BY <2>3, <3>5, <3>7, <3>8, GrowsMore
    <3> QED
      BY <3>2, <3>3, <3>5, <3>9, <3>10
  <2> QED
    BY <2>4, <2>5
<1>7. UpTo(N) = D
  <2>1. \A k \in D : k <= N
    BY <1>0, <1>1
  <2> QED
    BY <2>1
<1> HIDE DEF T, UpTo, Spans, News, Good
<1>5. \A n \in Nat : n \in T
  BY <1>3, <1>4, Induction
<1>6. ASSUME NEW n \in 0..N PROVE Good(n)
  <2>1. n \in Nat /\ n <= N
    BY <1>1
  <2> QED
    BY <1>5, <2>1 DEF T
<1>8. r = v[N]
  BY DEF Each, v, N
<1>9. Grows(out, v[N], Spans(N)) /\ New(out, v[N]) = News(N) /\ v[N] \in Out
  <2>1. N \in 0..N
    BY <1>1
  <2> QED
    BY <1>2, <1>6, <2>1 DEF Good
<1>10. ASSUME NEW k \in D PROVE v[k - 1] \in Out /\ v[k - 1].depth = out.depth
  <2>1. k - 1 \in 0..N
    BY <1>0
  <2>2. Good(k - 1)
    BY <1>6, <2>1
  <2> QED
    BY <1>2, <2>1, <2>2 DEF Good, Grows
<1> HIDE DEF r
<1>11. r \in Out /\ Grows(out, r, X)
  <2>1. Spans(N) \subseteq X
    BY <1>7 DEF Spans, D
  <2> HIDE DEF Out
  <2>2. r \in Out /\ Grows(out, r, Spans(N))
    BY <1>8, <1>9
  <2> QED
    BY <2>1, <2>2 DEF Grows
<1>12. New(out, r) = UNION {New(v[k - 1], visit[k][v[k - 1]]) : k \in D}
  BY <1>7, <1>8, <1>9 DEF News
<1>13. ASSUME NEW t \in New(out, r)
       PROVE  \E k \in D, o \in Out : o.depth = out.depth /\ t \in New(o, visit[k][o])
  <2>1. PICK k \in D : t \in New(v[k - 1], visit[k][v[k - 1]])
    BY <1>12
  <2> HIDE DEF Out
  <2> QED
    BY <1>10, <2>1
<1>14. ASSUME NEW k \in D
       PROVE  \E o \in Out : o.depth = out.depth /\ New(o, visit[k][o]) \subseteq New(out, r)
  <2>1. New(v[k - 1], visit[k][v[k - 1]]) \subseteq New(out, r)
    BY <1>12
  <2> HIDE DEF Out
  <2> QED
    BY <1>10, <2>1
<1> QED
  BY <1>11, <1>13, <1>14 DEF r, D

-----------------------------------------------------------------------------
(* The tree. A page is the nodes of a tree in document order if every node   *)
(* is at most one deeper than the one before it, and no deeper if that is a  *)
(* word.                                                                     *)
WellFormed(p) ==
    /\ p \in Seq(Node)
    /\ p # <<>> => p[1].depth = 1
    /\ \A n \in 1..(Len(p) - 1) :
          p[n + 1].depth <= p[n].depth + (IF p[n].tag = "word" THEN 0 ELSE 1)

(* An element and all that is in it.                                         *)
Subtree(p, k) == {k} \cup Descendants(p, k)

(* A node is at most one deeper than the one before it.                      *)
LEMMA NodeFacts ==
    ASSUME NEW p, WellFormed(p)
    PROVE  /\ Len(p) \in Nat /\ DOMAIN p = 1..Len(p)
           /\ \A i \in 1..Len(p) : p[i].tag \in Tag /\ p[i].depth \in Nat /\ p[i].depth >= 1
           /\ \A i \in 0..Len(p) : DepthOf(p, i) \in Nat
           /\ \A i \in 1..Len(p) : DepthOf(p, i) = p[i].depth
           /\ \A i \in 0..(Len(p) - 1) : p[i + 1].depth <= DepthOf(p, i) + 1
<1> DEFINE N == Len(p)
<1>1. p \in Seq(Node) /\ N \in Nat /\ DOMAIN p = 1..N
  BY DEF WellFormed
<1>2. ASSUME NEW i \in 1..N
      PROVE  p[i].tag \in Tag /\ p[i].depth \in Nat /\ p[i].depth >= 1 /\ DepthOf(p, i) = p[i].depth
  <2>1. p[i] \in Node
    BY <1>1
  <2> QED
    BY <2>1 DEF Node, DepthOf
<1>3. DepthOf(p, 0) = 0
  BY DEF DepthOf
<1>4. ASSUME NEW i \in 0..N PROVE DepthOf(p, i) \in Nat
  BY <1>2, <1>3
<1>5. ASSUME NEW i \in 0..(N - 1) PROVE p[i + 1].depth <= DepthOf(p, i) + 1
  <2>1. CASE i = 0
    <3>1. p # <<>>
      BY <1>1, <2>1
    <3> QED
      BY <1>3, <2>1, <3>1 DEF WellFormed
  <2>2. CASE i # 0
    <3>1. i \in 1..(N - 1) /\ i \in 1..N /\ i + 1 \in 1..N
      BY <1>1, <2>2
    <3>2. p[i + 1].depth <= p[i].depth + (IF p[i].tag = "word" THEN 0 ELSE 1)
      BY <3>1 DEF WellFormed
    <3>3. p[i].depth \in Nat /\ p[i + 1].depth \in Nat /\ DepthOf(p, i) = p[i].depth
      BY <1>2, <3>1
    <3> QED
      BY <3>2, <3>3
  <2> QED
    BY <2>1, <2>2
<1> QED
  BY <1>1, <1>2, <1>4, <1>5

(* Membership in Descendants, with the numbers in their range.               *)
LEMMA BelowFacts ==
    ASSUME NEW p, WellFormed(p), NEW i \in 0..Len(p)
    PROVE  /\ Descendants(p, i) \subseteq 1..Len(p)
           /\ \A j \in Descendants(p, i) :
                 j > i /\ \A k \in (i + 1)..j : k \in 1..Len(p) /\ p[k].depth > DepthOf(p, i)
           /\ \A j \in 1..Len(p) :
                 j > i /\ (\A k \in (i + 1)..j : p[k].depth > DepthOf(p, i)) => j \in Descendants(p, i)
<1>1. Len(p) \in Nat /\ DOMAIN p = 1..Len(p)
  BY NodeFacts
<1>2. \A j \in 1..Len(p) : \A k \in (i + 1)..j : k \in 1..Len(p)
  BY <1>1
<1> QED
  BY <1>1, <1>2 DEF Descendants

(* Between a node and a descendant there are only descendants.               *)
LEMMA BelowBetween ==
    ASSUME NEW p, WellFormed(p), NEW i \in 0..Len(p), NEW j \in Descendants(p, i), NEW k \in (i + 1)..j
    PROVE  k \in Descendants(p, i)
<1>1. Len(p) \in Nat /\ j \in 1..Len(p) /\ k \in 1..Len(p) /\ k > i
  BY BelowFacts, NodeFacts
<1>2. ASSUME NEW m \in (i + 1)..k PROVE p[m].depth > DepthOf(p, i)
  <2>1. m \in (i + 1)..j
    BY <1>1
  <2> QED
    BY <2>1, BelowFacts
<1> QED
  BY <1>1, <1>2, BelowFacts

(* What is below a descendant is below.                                      *)
LEMMA BelowBelow ==
    ASSUME NEW p, WellFormed(p), NEW i \in 0..Len(p), NEW j \in Descendants(p, i),
           NEW k \in Descendants(p, j)
    PROVE  k \in Descendants(p, i)
<1>1. Len(p) \in Nat /\ j \in 1..Len(p) /\ j > i
  BY BelowFacts, NodeFacts
<1>2. j \in 0..Len(p)
  BY <1>1
<1>3. k \in 1..Len(p) /\ k > j
  BY <1>2, BelowFacts
<1>4. DepthOf(p, i) \in Nat /\ DepthOf(p, j) \in Nat /\ DepthOf(p, j) = p[j].depth
  BY <1>1, <1>2, NodeFacts
<1>5. j \in (i + 1)..j
  BY <1>1
<1>6. DepthOf(p, j) > DepthOf(p, i)
  BY <1>4, <1>5, BelowFacts
<1>7. ASSUME NEW m \in (i + 1)..k PROVE p[m].depth > DepthOf(p, i)
  <2>1. CASE m <= j
    <3>1. m \in (i + 1)..j
      BY <1>1, <2>1
    <3> QED
      BY <3>1, BelowFacts
  <2>2. CASE m > j
    <3>1. m \in (j + 1)..k
      BY <1>1, <1>3, <2>2
    <3>2. p[m].depth > DepthOf(p, j) /\ m \in 1..Len(p)
      BY <1>2, <3>1, BelowFacts
    <3>3. p[m].depth \in Nat
      BY <3>2, NodeFacts
    <3> QED
      BY <1>4, <1>6, <3>2, <3>3
  <2> QED
    BY <1>1, <2>1, <2>2
<1>8. k > i
  BY <1>1, <1>3
<1> QED
  BY <1>3, <1>7, <1>8, BelowFacts

(* A child, its depth, and its subtree as a part of the whole.               *)
LEMMA ChildFacts ==
    ASSUME NEW p, WellFormed(p), NEW i \in 0..Len(p), NEW k \in Children(p, i)
    PROVE  /\ k \in Descendants(p, i) /\ k \in 1..Len(p) /\ k > i
           /\ p[k].depth = DepthOf(p, i) + 1 /\ DepthOf(p, k) = DepthOf(p, i) + 1
           /\ Subtree(p, k) \subseteq Descendants(p, i)
           /\ \A x \in Subtree(p, k) : x \in 1..Len(p) /\ x >= k
<1>1. k \in Descendants(p, i) /\ p[k].depth = DepthOf(p, i) + 1
  BY DEF Children
<1>2. k \in 1..Len(p) /\ k > i /\ k \in 0..Len(p)
  BY <1>1, BelowFacts
<1>3. DepthOf(p, k) = p[k].depth
  BY <1>2, NodeFacts
<1>4. Subtree(p, k) \subseteq Descendants(p, i)
  BY <1>1, BelowBelow DEF Subtree
<1>5. \A x \in Subtree(p, k) : x \in 1..Len(p) /\ x >= k
  <2>1. \A x \in Descendants(p, k) : x \in 1..Len(p) /\ x > k
    BY <1>2, BelowFacts
  <2> QED
    BY <1>2, <2>1 DEF Subtree
<1> QED
  BY <1>1, <1>2, <1>3, <1>4, <1>5

(* Every descendant is in the subtree of a child.                            *)
LEMMA BelowAChild ==
    ASSUME NEW p, WellFormed(p), NEW i \in 0..Len(p), NEW j \in Descendants(p, i)
    PROVE  \E k \in Children(p, i) : j \in Subtree(p, k)
<1> DEFINE d == DepthOf(p, i)
           K == {k \in (i + 1)..j : p[k].depth <= d + 1}
<1>1. Len(p) \in Nat /\ j \in 1..Len(p) /\ j > i /\ d \in Nat
  BY BelowFacts, NodeFacts
<1>2. \A k \in (i + 1)..j : k \in 1..Len(p) /\ p[k].depth > d /\ p[k].depth \in Nat
  BY BelowFacts, NodeFacts
<1>3. i + 1 \in K
  <2>1. i \in 0..(Len(p) - 1) /\ i + 1 \in (i + 1)..j
    BY <1>1
  <2> QED
    BY <2>1, NodeFacts
<1>4. K \subseteq 1..Len(p) /\ K # {}
  BY <1>2, <1>3
<1>5. PICK k \in K : \A l \in K : l <= k
  <2> HIDE DEF K
  <2> QED
    BY <1>1, <1>4, Greatest
<1>6. k \in (i + 1)..j /\ p[k].depth = d + 1
  BY <1>1, <1>2
<1>7. k \in Children(p, i)
  BY <1>6, BelowBetween DEF Children
<1>8. k \in 1..Len(p) /\ k \in 0..Len(p) /\ DepthOf(p, k) = d + 1
  BY <1>2, <1>6, NodeFacts
<1>9. CASE j = k
  BY <1>7, <1>9 DEF Subtree
<1>10. CASE j # k
  <2>1. ASSUME NEW m \in (k + 1)..j PROVE p[m].depth > DepthOf(p, k)
    <3>1. m \in (i + 1)..j /\ m > k
      BY <1>1, <1>6
    <3>2. m \notin K
      BY <1>5, <1>8, <3>1
    <3> QED
      BY <1>1, <1>2, <1>8, <3>1, <3>2
  <2>2. j > k
    BY <1>1, <1>6, <1>10
  <2>3. j \in Descendants(p, k)
    BY <1>1, <1>8, <2>1, <2>2, BelowFacts
  <2> QED
    BY <1>7, <2>3 DEF Subtree
<1> QED
  BY <1>9, <1>10

(* The subtrees of children follow each other.                               *)
LEMMA SubtreesApart ==
    ASSUME NEW p, WellFormed(p), NEW i \in 0..Len(p),
           NEW k \in Children(p, i), NEW l \in Children(p, i), k < l,
           NEW x \in Subtree(p, k), NEW y \in Subtree(p, l)
    PROVE  x < y
<1>1. /\ k \in 1..Len(p) /\ l \in 1..Len(p) /\ x \in 1..Len(p) /\ y \in 1..Len(p) /\ y >= l
      /\ DepthOf(p, k) = p[l].depth
  BY ChildFacts
<1>2. Len(p) \in Nat /\ p[l].depth \in Nat /\ k \in 0..Len(p)
  BY <1>1, NodeFacts
<1>3. CASE x = k
  BY <1>1, <1>2, <1>3
<1>4. CASE x \in Descendants(p, k)
  <2>1. l \notin (k + 1)..x
    BY <1>1, <1>2, <1>4, BelowFacts
  <2> QED
    BY <1>1, <1>2, <2>1
<1> QED
  BY <1>3, <1>4 DEF Subtree

(* The ancestors of a node from number b on.                                 *)
Since(p, b, x) == {a \in Ancestors(p, x) : a >= b}

(* Ancestors and Descendants are the same relation.                          *)
LEMMA AncestorFacts ==
    ASSUME NEW p, WellFormed(p), NEW x
    PROVE  \A a : a \in Ancestors(p, x) <=> a \in 1..Len(p) /\ x \in Descendants(p, a)
<1> QED
  BY NodeFacts DEF Ancestors

(* Nobody between a node and its child is above the child's subtree.         *)
LEMMA SinceChild ==
    ASSUME NEW p, WellFormed(p), NEW i \in 0..Len(p), NEW k \in Children(p, i), NEW x \in Subtree(p, k)
    PROVE  Since(p, i + 1, x) = Since(p, k, x)
<1>1. /\ k \in Descendants(p, i) /\ k \in 1..Len(p) /\ k > i /\ p[k].depth = DepthOf(p, i) + 1
      /\ x \in 1..Len(p) /\ x >= k
  BY ChildFacts
<1>2. Len(p) \in Nat /\ DepthOf(p, i) \in Nat
  BY NodeFacts
<1>3. ASSUME NEW a \in Ancestors(p, x), a >= i + 1, ~(a >= k) PROVE FALSE
  <2>1. a \in 1..Len(p) /\ x \in Descendants(p, a) /\ a \in 0..Len(p)
    BY AncestorFacts
  <2>2. k \in (a + 1)..x /\ a \in (i + 1)..k
    BY <1>1, <1>2, <1>3, <2>1
  <2>3. p[k].depth > DepthOf(p, a)
    BY <2>1, <2>2, BelowFacts
  <2>4. p[a].depth > DepthOf(p, i)
    BY <1>1, <2>2, BelowFacts
  <2>5. DepthOf(p, a) = p[a].depth /\ p[a].depth \in Nat
    BY <2>1, NodeFacts
  <2> QED
    BY <1>1, <1>2, <2>3, <2>4, <2>5
<1>4. \A a \in Ancestors(p, x) : a \in Nat
  BY <1>2, AncestorFacts
<1>5. \A a \in Ancestors(p, x) : a >= i + 1 <=> a >= k
  BY <1>1, <1>3, <1>4
<1> QED
  BY <1>5 DEF Since

(* From a node on there is one ancestor more than from the next on.          *)
LEMMA SinceSelf ==
    ASSUME NEW p, WellFormed(p), NEW j \in 1..Len(p), NEW x \in Descendants(p, j)
    PROVE  Since(p, j, x) = {j} \cup Since(p, j + 1, x)
<1>1. j \in Ancestors(p, x)
  BY AncestorFacts
<1>2. \A a \in Ancestors(p, x) : a \in Nat
  BY NodeFacts, AncestorFacts
<1>3. \A a \in Ancestors(p, x) : a >= j <=> a = j \/ a >= j + 1
  BY <1>2
<1> QED
  BY <1>1, <1>3 DEF Since

(* A node has no ancestors from itself on.                                   *)
LEMMA SinceNone ==
    ASSUME NEW p, WellFormed(p), NEW j \in 1..Len(p)
    PROVE  Since(p, j, j) = {}
<1>1. \A a \in Ancestors(p, j) : a \in 0..Len(p) /\ j \in Descendants(p, a)
  BY NodeFacts, AncestorFacts
<1>2. \A a \in Ancestors(p, j) : j > a /\ a \in Nat
  BY <1>1, BelowFacts
<1> QED
  BY <1>2 DEF Since

(* Words are leaves.                                                         *)
LEMMA WordsAreLeaves ==
    ASSUME NEW p, WellFormed(p), NEW j \in 1..Len(p), p[j].tag = "word"
    PROVE  Subtree(p, j) = {j}
<1> SUFFICES ASSUME NEW x \in Descendants(p, j) PROVE FALSE
  BY DEF Subtree
<1>1. j \in 0..Len(p) /\ Len(p) \in Nat /\ DepthOf(p, j) = p[j].depth /\ p[j].depth \in Nat
  BY NodeFacts
<1>2. x \in 1..Len(p) /\ x > j
  BY <1>1, BelowFacts
<1>3. j + 1 \in (j + 1)..x /\ j \in 1..(Len(p) - 1) /\ j + 1 \in 1..Len(p)
  BY <1>1, <1>2
<1>4. p[j + 1].depth > p[j].depth
  BY <1>1, <1>3, BelowFacts
<1>5. p[j + 1].depth <= p[j].depth + 0
  BY <1>3 DEF WellFormed
<1>6. p[j + 1].depth \in Nat
  BY <1>3, NodeFacts
<1> QED
  BY <1>1, <1>4, <1>5, <1>6

-----------------------------------------------------------------------------
(* The walk of an element only depends on the walks of the nodes after it.   *)
LEMMA EachKeeps ==
    ASSUME NEW p \in Seq(Node), NEW visit, IsVisit(p, visit), NEW out \in Out,
           \A k \in DOMAIN visit : \A o \in Out : visit[k][o].depth = o.depth
    PROVE  Each(p, visit, out) \in Out /\ Each(p, visit, out).depth = out.depth
<1> DEFINE N == Len(p)
           v == Visits(p, visit, out)
           T == {n \in Nat : n <= N => v[n].depth = out.depth}
<1>1. /\ v[0] = out
      /\ \A n \in 1..N : v[n] = IF n \in DOMAIN visit THEN visit[n][v[n - 1]] ELSE v[n - 1]
      /\ \A n \in 0..N : v[n] \in Out
  BY VisitsDef
<1>2. N \in Nat /\ Each(p, visit, out) = v[N]
  BY DEF Each
<1> HIDE DEF v, N
<1>3. 0 \in T
  BY <1>1
<1>4. ASSUME NEW n \in Nat, n \in T PROVE n + 1 \in T
  <2> SUFFICES ASSUME n + 1 <= N PROVE v[n + 1].depth = out.depth
    OBVIOUS
  <2>1. n + 1 \in 1..N /\ n \in 0..N /\ (n + 1) - 1 = n /\ n <= N
    BY <1>2
  <2>2. v[n] \in Out /\ v[n].depth = out.depth
    BY <1>1, <1>4, <2>1
  <2>3. v[n + 1] = IF n + 1 \in DOMAIN visit THEN visit[n + 1][v[n]] ELSE v[n]
    BY <1>1, <2>1
  <2> QED
    BY <2>2, <2>3
<1> HIDE DEF T
<1>5. N \in T
  BY <1>2, <1>3, <1>4, Induction
<1>6. v[N].depth = out.depth
  BY <1>2, <1>5 DEF T
<1>7. v[N] \in Out
  BY <1>1, <1>2
<1> QED
  BY <1>2, <1>6, <1>7

(* What walk_element is on all nodes of a page: a function of Out that       *)
(* leaves the depth of lists as it was.                                      *)
Walker(p) ==
    {w \in [DOMAIN p -> [Out -> Out]] : \A j \in DOMAIN p : \A o \in Out : w[j][o].depth = o.depth}

(* A walk takes Out to Out and leaves the depth as it was.                   *)
LEMMA WalkerFacts ==
    ASSUME NEW p, NEW w \in Walker(p), NEW j \in DOMAIN p
    PROVE  w[j] \in [Out -> Out] /\ \A o \in Out : w[j][o] \in Out /\ w[j][o].depth = o.depth
<1> HIDE DEF Out
<1> QED
  BY DEF Walker

(* Children are nodes and come later.                                        *)
LEMMA ChildIsNode ==
    ASSUME NEW p, NEW i
    PROVE  Children(p, i) \subseteq DOMAIN p /\ \A j \in Children(p, i) : j > i
<1> QED
  BY DEF Children, Descendants

(* The loop of walk_children, and those of ul and of ol.                     *)
ChildVisit(p, w, i) ==
    [j \in Children(p, i) |-> [o \in Out |->
        IF p[j].tag = "word" THEN Put(o, <<"text", j>>) ELSE w[j][o]]]

(* A text can be put.                                                        *)
LEMMA TextFacts ==
    ASSUME NEW o \in Out, NEW j \in Nat
    PROVE  <<"text", j>> \in Token /\ Put(o, <<"text", j>>) \in Out
           /\ Put(o, <<"text", j>>).depth = o.depth
<1>1. <<"text", j>> \in Token
  BY DEF Token
<1> QED
  BY <1>1, PutFacts

(* A marker can be put.                                                      *)
LEMMA MarkerFacts ==
    ASSUME NEW o \in Out, NEW j \in Nat
    PROVE  Marker(o, j) \in Token /\ Put(o, Marker(o, j)) \in Out
           /\ Put(o, Marker(o, j)).depth = o.depth
<1>1. o.depth \in Nat
  BY OutFacts
<1>2. Marker(o, j) \in Token
  BY <1>1 DEF Token, Marker
<1> QED
  BY <1>2, PutFacts

(* What walk_children does at each child.                                    *)
LEMMA ChildVisitFacts ==
    ASSUME NEW p \in Seq(Node), NEW w \in Walker(p), NEW i
    PROVE  /\ IsVisit(p, ChildVisit(p, w, i)) /\ DOMAIN ChildVisit(p, w, i) = Children(p, i)
           /\ \A j \in Children(p, i) : \A o \in Out : ChildVisit(p, w, i)[j][o].depth = o.depth
           /\ \A j \in Children(p, i) : \A o \in Out :
                 IF p[j].tag = "word" THEN ChildVisit(p, w, i)[j][o] = Put(o, <<"text", j>>)
                                      ELSE ChildVisit(p, w, i)[j][o] = w[j][o]
<1> DEFINE visit == ChildVisit(p, w, i)
           To(j, o) == IF p[j].tag = "word" THEN Put(o, <<"text", j>>) ELSE w[j][o]
<1>1. \A j \in Children(p, i) : j \in DOMAIN p /\ j \in Nat
  BY ChildIsNode
<1>2. ASSUME NEW j \in Children(p, i), NEW o \in Out PROVE To(j, o) \in Out /\ To(j, o).depth = o.depth
  BY <1>1, TextFacts, WalkerFacts
<1>3. visit = [j \in Children(p, i) |-> [o \in Out |-> To(j, o)]]
  BY DEF ChildVisit
<1> HIDE DEF To, visit, Out
<1>4. DOMAIN visit = Children(p, i) /\ \A j \in Children(p, i) : visit[j] = [o \in Out |-> To(j, o)]
  BY <1>3
<1>5. ASSUME NEW j \in Children(p, i) PROVE visit[j] \in [Out -> Out]
  BY <1>2, <1>4
<1>6. IsVisit(p, visit)
  BY <1>1, <1>4, <1>5 DEF IsVisit
<1>7. ASSUME NEW j \in Children(p, i), NEW o \in Out
      PROVE  visit[j][o] = To(j, o) /\ visit[j][o].depth = o.depth
  BY <1>2, <1>4
<1> QED
  BY <1>4, <1>6, <1>7 DEF To, visit

(* walk_children takes Out to Out and leaves the depth as it was.            *)
LEMMA WalkChildrenType ==
    ASSUME NEW p \in Seq(Node), NEW w \in Walker(p), NEW i, NEW o \in Out
    PROVE  /\ WalkChildren(p, w, i, o) \in Out /\ WalkChildren(p, w, i, o).depth = o.depth
           /\ WalkChildren(p, w, i, o) = Each(p, ChildVisit(p, w, i), o)
<1>1. WalkChildren(p, w, i, o) = Each(p, ChildVisit(p, w, i), o)
  BY DEF WalkChildren, ChildVisit
<1> DEFINE visit == ChildVisit(p, w, i)
<1>2. IsVisit(p, visit)
  BY ChildVisitFacts
<1>3. \A j \in DOMAIN visit : \A q \in Out : visit[j][q].depth = q.depth
  <2>1. DOMAIN visit = Children(p, i)
    BY ChildVisitFacts
  <2>2. \A j \in Children(p, i) : \A q \in Out : visit[j][q].depth = q.depth
    BY ChildVisitFacts
  <2> HIDE DEF visit
  <2> QED
    BY <2>1, <2>2
<1> HIDE DEF visit, Out
<1>4. Each(p, visit, o) \in Out /\ Each(p, visit, o).depth = o.depth
  BY <1>2, <1>3, EachKeeps
<1> QED
  BY <1>1, <1>4 DEF visit

(* walk_children only depends on the walks of children.                      *)
LEMMA WalkChildrenSame ==
    ASSUME NEW p, NEW g, NEW h, NEW i, NEW o, \A j \in Children(p, i) : g[j] = h[j]
    PROVE  WalkChildren(p, g, i, o) = WalkChildren(p, h, i, o)
<1>1. ChildVisit(p, g, i) = ChildVisit(p, h, i)
  BY DEF ChildVisit
<1> QED
  BY <1>1 DEF WalkChildren, ChildVisit

ElementVisit(p, w, i) == [j \in Elements(p, i) |-> w[j]]
ItemVisit(p, w, i) ==
    [j \in Elements(p, i) |-> [o \in Out |-> WalkChildren(p, w, j, Put(o, Marker(o, j)))]]

(* The depth that a list enters is the one it leaves.                        *)
LEMMA ListFacts ==
    ASSUME NEW o \in Out
    PROVE  /\ Enter(o) \in Out /\ Enter(o).depth = o.depth + 1 /\ Enter(o).md = o.md
           /\ \A r \in Out : r.depth = o.depth + 1 =>
                 Leave(r) \in Out /\ Leave(r).depth = o.depth /\ Leave(r).md = r.md
<1>1. o.md \in Seq(Token) /\ o.depth \in Nat
  BY OutFacts
<1> HIDE DEF Token
<1>2. Enter(o) = [md |-> o.md, depth |-> o.depth + 1]
  BY DEF Enter, Out
<1>3. ASSUME NEW r \in Out, r.depth = o.depth + 1
      PROVE  Leave(r) \in Out /\ Leave(r).depth = o.depth /\ Leave(r).md = r.md
  <2>1. r.md \in Seq(Token)
    BY OutFacts
  <2>2. Leave(r) = [md |-> r.md, depth |-> r.depth - 1]
    BY DEF Leave, Out
  <2>3. r.depth - 1 = o.depth
    BY <1>1, <1>3
  <2> QED
    BY <1>1, <2>1, <2>2, <2>3 DEF Out
<1>4. Enter(o) \in Out
  BY <1>1, <1>2 DEF Out
<1> QED
  BY <1>2, <1>3, <1>4

(* What ul does at each element in it.                                       *)
LEMMA ElementVisitFacts ==
    ASSUME NEW p \in Seq(Node), NEW w \in Walker(p), NEW i
    PROVE  /\ IsVisit(p, ElementVisit(p, w, i)) /\ DOMAIN ElementVisit(p, w, i) = Elements(p, i)
           /\ \A j \in Elements(p, i) : \A o \in Out :
                 ElementVisit(p, w, i)[j][o] = w[j][o] /\ ElementVisit(p, w, i)[j][o].depth = o.depth
<1>1. \A j \in Elements(p, i) : j \in DOMAIN p
  BY ChildIsNode DEF Elements
<1>2. \A j \in Elements(p, i) : w[j] \in [Out -> Out] /\ \A o \in Out : w[j][o].depth = o.depth
  BY <1>1, WalkerFacts
<1>3. DOMAIN ElementVisit(p, w, i) = Elements(p, i)
      /\ \A j \in Elements(p, i) : ElementVisit(p, w, i)[j] = w[j]
  BY DEF ElementVisit
<1> HIDE DEF Out
<1> QED
  BY <1>1, <1>2, <1>3 DEF IsVisit

(* What ol does at each element in it.                                       *)
LEMMA ItemVisitFacts ==
    ASSUME NEW p \in Seq(Node), NEW w \in Walker(p), NEW i
    PROVE  /\ IsVisit(p, ItemVisit(p, w, i)) /\ DOMAIN ItemVisit(p, w, i) = Elements(p, i)
           /\ \A j \in Elements(p, i) : \A o \in Out :
                 /\ ItemVisit(p, w, i)[j][o] = WalkChildren(p, w, j, Put(o, Marker(o, j)))
                 /\ ItemVisit(p, w, i)[j][o].depth = o.depth
<1> DEFINE visit == ItemVisit(p, w, i)
           To(j, o) == WalkChildren(p, w, j, Put(o, Marker(o, j)))
<1>1. \A j \in Elements(p, i) : j \in DOMAIN p /\ j \in Nat
  BY ChildIsNode DEF Elements
<1>2. ASSUME NEW j \in Elements(p, i), NEW o \in Out PROVE To(j, o) \in Out /\ To(j, o).depth = o.depth
  <2>1. Put(o, Marker(o, j)) \in Out /\ Put(o, Marker(o, j)).depth = o.depth
    BY <1>1, MarkerFacts
  <2> QED
    BY <2>1, WalkChildrenType
<1>3. visit = [j \in Elements(p, i) |-> [o \in Out |-> To(j, o)]]
  BY DEF ItemVisit
<1> HIDE DEF To, visit, Out
<1>4. DOMAIN visit = Elements(p, i) /\ \A j \in Elements(p, i) : visit[j] = [o \in Out |-> To(j, o)]
  BY <1>3
<1>5. ASSUME NEW j \in Elements(p, i) PROVE visit[j] \in [Out -> Out]
  BY <1>2, <1>4
<1>6. IsVisit(p, visit)
  BY <1>1, <1>4, <1>5 DEF IsVisit
<1>7. ASSUME NEW j \in Elements(p, i), NEW o \in Out
      PROVE  visit[j][o] = To(j, o) /\ visit[j][o].depth = o.depth
  BY <1>2, <1>4
<1> QED
  BY <1>4, <1>6, <1>7 DEF To, visit

(* Texts in document order, whatever they are in.                            *)
LEMMA TextsGrow ==
    ASSUME NEW p \in Seq(Node), NEW nodes, nodes \subseteq DOMAIN p, NEW out \in Out
    PROVE  LET r == Each(p, Texts(nodes), out)
           IN  r \in Out /\ Grows(out, r, nodes) /\ New(out, r) = {<<"text", k>> : k \in nodes}
<1> DEFINE visit == Texts(nodes)
           span == [k \in nodes |-> {k}]
           r == Each(p, visit, out)
<1>1. \A k \in nodes : k \in DOMAIN p /\ k \in Nat
  OBVIOUS
<1>2. DOMAIN visit = nodes /\ \A k \in nodes : visit[k] = [o \in Out |-> Put(o, <<"text", k>>)]
  BY DEF Texts
<1> HIDE DEF Out, visit
<1>3. ASSUME NEW k \in nodes PROVE visit[k] \in [Out -> Out]
  <2>1. \A o \in Out : Put(o, <<"text", k>>) \in Out
    BY <1>1, TextFacts
  <2> QED
    BY <1>2, <2>1
<1>4. ASSUME NEW k \in nodes, NEW o \in Out
      PROVE  Grows(o, visit[k][o], {k}) /\ New(o, visit[k][o]) = {<<"text", k>>}
  <2>1. <<"text", k>> \in Token /\ <<"text", k>>[2] = k
    BY <1>1, TextFacts
  <2>2. visit[k][o] = Put(o, <<"text", k>>)
    BY <1>2
  <2> HIDE DEF Token
  <2> QED
    BY <2>1, <2>2, GrowsPut
<1>5. IsVisit(p, visit)
  BY <1>1, <1>2, <1>3 DEF IsVisit
<1>6. \A k \in DOMAIN visit : \A o \in Out : o.depth = out.depth => Grows(o, visit[k][o], span[k])
  BY <1>2, <1>4
<1>7. \A k, l \in DOMAIN visit : k < l => \A x \in span[k], y \in span[l] : x < y
  BY <1>2
<1>8. \A k \in DOMAIN visit : span[k] \subseteq nodes
  BY <1>2
<1> HIDE DEF span
<1>0. GrowEach(visit, span, out, nodes)
  BY <1>6, <1>7, <1>8 DEF GrowEach
<1>9. /\ r \in Out /\ Grows(out, r, nodes)
      /\ \A t \in New(out, r) : \E k \in DOMAIN visit, o \in Out :
            o.depth = out.depth /\ t \in New(o, visit[k][o])
      /\ \A k \in DOMAIN visit : \E o \in Out :
            o.depth = out.depth /\ New(o, visit[k][o]) \subseteq New(out, r)
  BY <1>0, <1>5, EachGrows
<1> HIDE DEF r
<1>10. ASSUME NEW t \in New(out, r) PROVE \E k \in nodes : t = <<"text", k>>
  <2>1. PICK k \in DOMAIN visit, o \in Out : t \in New(o, visit[k][o])
    BY <1>9
  <2>2. k \in nodes
    BY <1>2
  <2>3. New(o, visit[k][o]) = {<<"text", k>>}
    BY <1>4, <2>2
  <2> QED
    BY <2>1, <2>2, <2>3
<1>11. ASSUME NEW k \in nodes PROVE <<"text", k>> \in New(out, r)
  <2>1. k \in DOMAIN visit
    BY <1>2
  <2>2. PICK o \in Out : New(o, visit[k][o]) \subseteq New(out, r)
    BY <1>9, <2>1
  <2>3. New(o, visit[k][o]) = {<<"text", k>>}
    BY <1>4
  <2> QED
    BY <2>2, <2>3
<1>12. New(out, r) = {<<"text", k>> : k \in nodes}
  BY <1>10, <1>11
<1> QED
  BY <1>9, <1>12 DEF r, visit

(* The sets of nodes that are looped over are sets of nodes.                 *)
LEMMA NodeSets ==
    ASSUME NEW p, NEW i
    PROVE  /\ Words(p, Descendants(p, i)) \subseteq DOMAIN p
           /\ Words(p, Children(p, i)) \subseteq DOMAIN p
           /\ \A j \in Elements(p, i) : j \in Children(p, i)
<1> QED
  BY DEF Words, Descendants, Children, Elements

(* walk_element takes Out to Out and leaves the depth as it was.             *)
LEMMA ElementType ==
    ASSUME NEW p \in Seq(Node), NEW w \in Walker(p), NEW j \in DOMAIN p, NEW o \in Out
    PROVE  WalkElement(p, w, j, o) \in Out /\ WalkElement(p, w, j, o).depth = o.depth
<1> DEFINE Fine(r) == r \in Out /\ r.depth = o.depth
<1>1. Fine(o)
  OBVIOUS
<1>2. Fine(WalkChildren(p, w, j, o))
  BY WalkChildrenType
<1>3. Enter(o) \in Out
  BY ListFacts
<1>4. Fine(WalkUl(p, w, j, o))
  <2> DEFINE r == Each(p, ElementVisit(p, w, j), Enter(o))
  <2>1. r \in Out /\ r.depth = Enter(o).depth
    BY <1>3, ElementVisitFacts, EachKeeps
  <2>2. WalkUl(p, w, j, o) = Leave(r)
    BY DEF WalkUl, ElementVisit
  <2> HIDE DEF r
  <2> QED
    BY <2>1, <2>2, ListFacts
<1>5. Fine(WalkOl(p, w, j, o))
  <2> DEFINE r == Each(p, ItemVisit(p, w, j), Enter(o))
  <2>1. r \in Out /\ r.depth = Enter(o).depth
    BY <1>3, ItemVisitFacts, EachKeeps
  <2>2. WalkOl(p, w, j, o) = Leave(r)
    BY DEF WalkOl, ItemVisit
  <2> HIDE DEF r
  <2> QED
    BY <2>1, <2>2, ListFacts
<1>6. Fine(WalkChildren(p, w, j, Put(o, Marker(o, j))))
  <2>1. j \in Nat
    OBVIOUS
  <2>2. Put(o, Marker(o, j)) \in Out /\ Put(o, Marker(o, j)).depth = o.depth
    BY <2>1, MarkerFacts
  <2> QED
    BY <2>2, WalkChildrenType
<1>7. Fine(Each(p, Texts(Words(p, Descendants(p, j))), o))
  <2>1. Words(p, Descendants(p, j)) \subseteq DOMAIN p
    BY NodeSets
  <2> QED
    BY <2>1, TextsGrow DEF Grows
<1>8. Fine(Each(p, Texts(Words(p, Children(p, j))), o))
  <2>1. Words(p, Children(p, j)) \subseteq DOMAIN p
    BY NodeSets
  <2> QED
    BY <2>1, TextsGrow DEF Grows
<1> HIDE DEF Fine
<1>9. Fine(WalkElement(p, w, j, o))
  BY <1>1, <1>2, <1>4, <1>5, <1>6, <1>7, <1>8 DEF WalkElement
<1> QED
  BY <1>9 DEF Fine

(* It only depends on the walks of later nodes.                              *)
LEMMA ElementSame ==
    ASSUME NEW p \in Seq(Node), NEW g, NEW h, NEW j \in DOMAIN p, NEW o,
           \A k \in DOMAIN p : k > j => g[k] = h[k]
    PROVE  WalkElement(p, g, j, o) = WalkElement(p, h, j, o)
<1>1. \A k \in Children(p, j) : k \in DOMAIN p /\ k > j
  BY ChildIsNode
<1>2. \A k \in Elements(p, j) : k \in DOMAIN p /\ k > j
  BY <1>1 DEF Elements
<1>3. \A q : WalkChildren(p, g, j, q) = WalkChildren(p, h, j, q)
  BY <1>1, WalkChildrenSame
<1>4. ElementVisit(p, g, j) = ElementVisit(p, h, j)
  BY <1>2 DEF ElementVisit
<1>5. ASSUME NEW k \in Elements(p, j), NEW q
      PROVE  WalkChildren(p, g, k, q) = WalkChildren(p, h, k, q)
  <2>1. \A l \in Children(p, k) : l \in DOMAIN p /\ l > k
    BY ChildIsNode
  <2>2. k > j /\ k \in Int /\ j \in Int
    BY <1>2
  <2>3. \A l \in Children(p, k) : l \in DOMAIN p /\ l > j
    BY <2>1, <2>2
  <2>4. \A l \in Children(p, k) : g[l] = h[l]
    BY <2>3
  <2> QED
    BY <2>4, WalkChildrenSame
<1>6. ItemVisit(p, g, j) = ItemVisit(p, h, j)
  BY <1>5 DEF ItemVisit
<1>7. WalkUl(p, g, j, o) = WalkUl(p, h, j, o)
  BY <1>4 DEF WalkUl, ElementVisit
<1>8. WalkOl(p, g, j, o) = WalkOl(p, h, j, o)
  BY <1>6 DEF WalkOl, ItemVisit
<1> QED
  BY <1>3, <1>7, <1>8 DEF WalkElement

(* walk_element is a function of the nodes: found from the last node on.     *)
LEMMA WalksDef ==
    ASSUME NEW p \in Seq(Node)
    PROVE  /\ Walks(p) \in Walker(p)
           /\ \A j \in DOMAIN p : \A o \in Out : Walks(p)[j][o] = WalkElement(p, Walks(p), j, o)
<1> DEFINE N == Len(p)
           Turn(w, j) == [o \in Out |-> WalkElement(p, w, j, o)]
           T == {n \in Nat : n <= N => \E w \in Walker(p) : \A j \in 1..N : j > N - n => w[j] = Turn(w, j)}
           Def(g) == g = [j \in DOMAIN p |-> Turn(g, j)]
           g == Walks(p)
<1>1. N \in Nat /\ DOMAIN p = 1..N
  OBVIOUS
<1>2. g = CHOOSE h : Def(h)
  BY DEF Walks
<1>3. ASSUME NEW w \in Walker(p), NEW j \in DOMAIN p
      PROVE  Turn(w, j) \in [Out -> Out] /\ \A o \in Out : Turn(w, j)[o].depth = o.depth
  <2>1. \A o \in Out : WalkElement(p, w, j, o) \in Out /\ WalkElement(p, w, j, o).depth = o.depth
    BY ElementType
  <2> HIDE DEF Out
  <2> QED
    BY <2>1
<1>4. ASSUME NEW u, NEW w, NEW j \in DOMAIN p, \A k \in DOMAIN p : k > j => u[k] = w[k]
      PROVE  Turn(u, j) = Turn(w, j)
  <2>1. \A o : WalkElement(p, u, j, o) = WalkElement(p, w, j, o)
    BY <1>4, ElementSame
  <2> QED
    BY <2>1
<1> HIDE DEF N, Turn, g, Out
<1>5. 0 \in T
  <2> DEFINE w == [j \in DOMAIN p |-> [o \in Out |-> o]]
  <2>1. w \in Walker(p)
    BY DEF Walker
  <2>2. \A j \in 1..N : ~(j > N - 0)
    BY <1>1
  <2> HIDE DEF w
  <2> QED
    BY <2>1, <2>2
<1>6. ASSUME NEW n \in Nat, n \in T PROVE n + 1 \in T
  <2> SUFFICES ASSUME n + 1 <= N
               PROVE  \E w \in Walker(p) : \A j \in 1..N : j > N - (n + 1) => w[j] = Turn(w, j)
    OBVIOUS
  <2>1. n <= N
    BY <1>1
  <2>2. PICK w \in Walker(p) : \A j \in 1..N : j > N - n => w[j] = Turn(w, j)
    BY <1>6, <2>1
  <2> DEFINE m == N - n
             u == [w EXCEPT ![m] = Turn(w, m)]
  <2>3. m \in 1..N /\ m \in DOMAIN p /\ N - (n + 1) = m - 1
    BY <1>1
  <2>4. \A j \in 1..N : j > m => w[j] = Turn(w, j)
    BY <2>2
  <2> HIDE DEF m
  <2>5. w \in [DOMAIN p -> [Out -> Out]] /\ \A j \in DOMAIN p : \A o \in Out : w[j][o].depth = o.depth
    BY DEF Walker
  <2>6. u[m] = Turn(w, m) /\ \A j \in DOMAIN p : j # m => u[j] = w[j]
    BY <2>3, <2>5
  <2>7. u \in Walker(p)
    <3>1. Turn(w, m) \in [Out -> Out] /\ \A o \in Out : Turn(w, m)[o].depth = o.depth
      BY <1>3, <2>3
    <3>2. u \in [DOMAIN p -> [Out -> Out]]
      BY <2>5, <3>1
    <3> HIDE DEF u
    <3>3. \A j \in DOMAIN p : \A o \in Out : u[j][o].depth = o.depth
      BY <2>5, <2>6, <3>1
    <3> QED
      BY <3>2, <3>3 DEF Walker
  <2> HIDE DEF u
  <2>8. ASSUME NEW j \in 1..N, j > m - 1 PROVE u[j] = Turn(u, j)
    <3>1. j \in DOMAIN p /\ j \in Int /\ m \in Int
      BY <1>1, <2>3
    <3>2. \A k \in DOMAIN p : k > j => u[k] = w[k]
      <4>1. \A k \in DOMAIN p : k > j => k # m
        BY <1>1, <2>3, <2>8
      <4> QED
        BY <2>6, <4>1
    <3>3. Turn(u, j) = Turn(w, j)
      BY <1>4, <3>1, <3>2
    <3>4. CASE j = m
      BY <2>6, <3>3, <3>4
    <3>5. CASE j # m
      <4>1. j > m
        BY <2>8, <3>1, <3>5
      <4> QED
        BY <2>4, <2>6, <3>1, <3>3, <3>5, <4>1
    <3> QED
      BY <3>4, <3>5
  <2> QED
    BY <2>3, <2>7, <2>8
<1> HIDE DEF T
<1>7. N \in T
  BY <1>1, <1>5, <1>6, Induction
<1>8. PICK w \in Walker(p) : \A j \in 1..N : w[j] = Turn(w, j)
  <2>1. PICK w \in Walker(p) : \A j \in 1..N : j > N - N => w[j] = Turn(w, j)
    BY <1>1, <1>7 DEF T
  <2>2. \A j \in 1..N : j > N - N
    BY <1>1
  <2> QED
    BY <2>1, <2>2
<1>9. Def(w)
  <2>1. w = [j \in DOMAIN p |-> w[j]]
    BY DEF Walker
  <2> QED
    BY <1>1, <1>8, <2>1
<1> HIDE DEF Def
<1>10. Def(g)
  BY <1>2, <1>9
<1>11. DOMAIN g = DOMAIN p /\ \A j \in DOMAIN p : g[j] = Turn(g, j)
  BY <1>10 DEF Def
<1>12. \A j \in DOMAIN p : g[j] = w[j]
  <2> DEFINE S == {n \in Nat : \A j \in DOMAIN p : j > N - n => g[j] = w[j]}
  <2>1. 0 \in S
    BY <1>1
  <2>2. ASSUME NEW n \in Nat, n \in S PROVE n + 1 \in S
    <3> SUFFICES ASSUME NEW j \in DOMAIN p, j > N - (n + 1) PROVE g[j] = w[j]
      OBVIOUS
    <3>1. \A k \in DOMAIN p : k > j => g[k] = w[k]
      <4>1. \A k \in DOMAIN p : k > j => k > N - n
        BY <1>1
      <4> QED
        BY <2>2, <4>1
    <3>2. Turn(g, j) = Turn(w, j)
      BY <1>4, <3>1
    <3> QED
      BY <1>1, <1>8, <1>11, <3>2
  <2> HIDE DEF S
  <2>3. N \in S
    BY <1>1, <2>1, <2>2, Induction
  <2>4. \A j \in DOMAIN p : j > N - N
    BY <1>1
  <2> QED
    BY <2>3, <2>4 DEF S
<1>13. g = w
  <2>1. g = [j \in DOMAIN p |-> Turn(g, j)]
    BY <1>10 DEF Def
  <2>2. g = [j \in DOMAIN p |-> g[j]]
    BY <2>1
  <2>3. w = [j \in DOMAIN p |-> w[j]]
    BY DEF Walker
  <2> QED
    BY <1>12, <2>2, <2>3
<1>14. ASSUME NEW j \in DOMAIN p, NEW o \in Out PROVE g[j][o] = WalkElement(p, g, j, o)
  BY <1>11 DEF Turn
<1> QED
  BY <1>13, <1>14 DEF g

-----------------------------------------------------------------------------
(* The words that markdown may lack, and the skipped ones it may have.       *)
Excused(p, w) ==
    \/ Inside(p, w, {"nav"}) \/ Inside(p, w, {"form"}) \/ DirectlyIn(p, w, {"ul", "ol"})
    \/ \E i \in Ancestors(p, w) : Inside(p, i, {"code"})
Through(p, w) ==
    \/ Inside(p, w, {"pre"})
    \/ \E i \in Ancestors(p, w) : p[i].tag = "nav" /\ DirectlyIn(p, i, {"ol"})

(* What a token says is right as far as the ancestors from b on are          *)
(* concerned, if those before b have left the depth at d.  A text may only   *)
(* be below a nav if pre or ol let it through; an item is as many levels in  *)
(* as it has lists around it, unless one of them is an item of an ol itself. *)
Level(n) == IF n = 0 THEN 0 ELSE n - 1
Lists(p, b, x) == Since(p, b, x) \cap Tagged(p, {"ul", "ol"})
RightText(p, b, x) ==
    p[x].tag = "word" /\ ((\E a \in Since(p, b, x) : p[a].tag = "nav") => Through(p, x))
RightItem(p, b, d, x, level) ==
    (\A a \in Lists(p, b, x) : ~DirectlyIn(p, a, {"ol"})) =>
        level = Level(d + Cardinality(Lists(p, b, x)))
Right(p, b, d, t) ==
    IF t[1] = "text" THEN RightText(p, b, t[2]) ELSE RightItem(p, b, d, t[2], t[3])

(* From o to r, a walk of the nodes of X adds their texts once and in order, *)
(* nothing that is not right, and every word but those it may lack.          *)
Tells(p, X, b, o, r) ==
    /\ Grows(o, r, X)
    /\ \A t \in New(o, r) : Right(p, b, o.depth, t)
    /\ \A x \in X : p[x].tag = "word" => <<"text", x>> \in New(o, r) \/ Excused(p, x)

(* What is added is about nodes of X.                                        *)
LEMMA NewIsIn ==
    ASSUME NEW o, NEW r, NEW X, Grows(o, r, X), NEW t \in New(o, r)
    PROVE  t[2] \in X
<1> QED
  BY DEF Grows, New

(* What is right from a child on is right from the next node on.             *)
LEMMA RightChild ==
    ASSUME NEW p, WellFormed(p), NEW i \in 0..Len(p), NEW k \in Children(p, i),
           NEW d, NEW t, t[2] \in Subtree(p, k), Right(p, k, d, t)
    PROVE  Right(p, i + 1, d, t)
<1>1. Since(p, i + 1, t[2]) = Since(p, k, t[2])
  BY SinceChild
<1>2. Lists(p, i + 1, t[2]) = Lists(p, k, t[2])
  BY <1>1 DEF Lists
<1> QED
  BY <1>1, <1>2 DEF Right, RightText, RightItem

(* An element that is neither a list nor skipped changes nothing.            *)
LEMMA RightPlain ==
    ASSUME NEW p, WellFormed(p), NEW j \in 1..Len(p), p[j].tag \notin {"nav", "ul", "ol"},
           NEW d, NEW t, t[2] \in Descendants(p, j), Right(p, j + 1, d, t)
    PROVE  Right(p, j, d, t)
<1>1. Since(p, j, t[2]) = {j} \cup Since(p, j + 1, t[2])
  BY SinceSelf
<1>2. Lists(p, j, t[2]) = Lists(p, j + 1, t[2])
  BY <1>1 DEF Lists, Tagged
<1> QED
  BY <1>1, <1>2 DEF Right, RightText, RightItem

(* Right in an ol, even a list or a skipped element changes nothing: nothing *)
(* is promised of lists in it, and its text is let through.                  *)
LEMMA RightInOl ==
    ASSUME NEW p, WellFormed(p), NEW j \in 1..Len(p), DirectlyIn(p, j, {"ol"}),
           NEW d, NEW t, t[2] \in Descendants(p, j), Right(p, j + 1, d, t)
    PROVE  Right(p, j, d, t)
<1>1. Since(p, j, t[2]) = {j} \cup Since(p, j + 1, t[2])
  BY SinceSelf
<1>2. j \in Ancestors(p, t[2])
  BY AncestorFacts
<1>3. CASE t[1] = "text"
  <2>1. RightText(p, j + 1, t[2])
    BY <1>3 DEF Right
  <2>2. p[j].tag = "nav" => Through(p, t[2])
    BY <1>2 DEF Through
  <2>3. RightText(p, j, t[2])
    BY <1>1, <2>1, <2>2 DEF RightText
  <2> QED
    BY <1>3, <2>3 DEF Right
<1>4. CASE t[1] # "text"
  <2>1. RightItem(p, j + 1, d, t[2], t[3])
    BY <1>4 DEF Right
  <2>2. CASE j \in Lists(p, j, t[2])
    BY <2>2, <1>4 DEF Right, RightItem
  <2>3. CASE j \notin Lists(p, j, t[2])
    <3>1. Lists(p, j, t[2]) = Lists(p, j + 1, t[2])
      BY <1>1, <2>3 DEF Lists
    <3> QED
      BY <1>4, <2>1, <3>1 DEF Right, RightItem
  <2> QED
    BY <2>2, <2>3
<1> QED
  BY <1>3, <1>4

(* There are finitely many lists around a node.                              *)
LEMMA ListsFinite ==
    ASSUME NEW p, WellFormed(p), NEW b, NEW x
    PROVE  IsFiniteSet(Lists(p, b, x)) /\ Cardinality(Lists(p, b, x)) \in Nat
<1>1. Len(p) \in Nat
  BY NodeFacts
<1>2. IsFiniteSet(1..Len(p))
  BY <1>1, FS_Interval
<1>3. Lists(p, b, x) \subseteq 1..Len(p)
  BY AncestorFacts DEF Lists, Since
<1>4. IsFiniteSet(Lists(p, b, x))
  BY <1>2, <1>3, FS_Subset
<1> QED
  BY <1>4, FS_CardinalityType

(* A list counts once: the depth it enters is for those further in.          *)
LEMMA RightList ==
    ASSUME NEW p, WellFormed(p), NEW j \in 1..Len(p), p[j].tag \in {"ul", "ol"},
           NEW d \in Nat, NEW t, t[2] \in Descendants(p, j), Right(p, j + 1, d + 1, t)
    PROVE  Right(p, j, d, t)
<1>1. Since(p, j, t[2]) = {j} \cup Since(p, j + 1, t[2])
  BY SinceSelf
<1>2. CASE t[1] = "text"
  BY <1>1, <1>2 DEF Right, RightText
<1>3. CASE t[1] # "text"
  <2> DEFINE L == Lists(p, j + 1, t[2])
             c == Cardinality(L)
  <2>1. Lists(p, j, t[2]) = L \cup {j}
    <3>1. j \in Tagged(p, {"ul", "ol"})
      BY NodeFacts DEF Tagged
    <3> QED
      BY <1>1, <3>1 DEF Lists
  <2>2. IsFiniteSet(L) /\ c \in Nat
    BY ListsFinite
  <2>3. j \notin L
    BY DEF Lists, Since
  <2>4. RightItem(p, j + 1, d + 1, t[2], t[3])
    BY <1>3 DEF Right
  <2>5. (\A a \in L : ~DirectlyIn(p, a, {"ol"})) => t[3] = Level(d + 1 + c)
    BY <2>4 DEF RightItem
  <2> HIDE DEF L
  <2>6. Cardinality(L \cup {j}) = c + 1
    BY <2>2, <2>3, FS_AddElement
  <2> HIDE DEF c
  <2>7. d + 1 + c = d + (c + 1)
    BY <2>2
  <2>8. RightItem(p, j, d, t[2], t[3])
    BY <2>1, <2>5, <2>6, <2>7 DEF RightItem
  <2> QED
    BY <1>3, <2>8 DEF Right
<1> QED
  BY <1>2, <1>3

(* An element whose children are told right is told right with them.         *)
LEMMA TellsUp ==
    ASSUME NEW p, WellFormed(p), NEW j \in 1..Len(p), p[j].tag # "word",
           NEW o, NEW r, Tells(p, Descendants(p, j), j + 1, o, r),
           \A t : t[2] \in Descendants(p, j) /\ Right(p, j + 1, o.depth, t) => Right(p, j, o.depth, t)
    PROVE  Tells(p, Subtree(p, j), j, o, r)
<1>1. Grows(o, r, Descendants(p, j))
  BY DEF Tells
<1>2. Grows(o, r, Subtree(p, j))
  BY <1>1 DEF Grows, Subtree
<1>3. ASSUME NEW t \in New(o, r) PROVE Right(p, j, o.depth, t)
  <2>1. t[2] \in Descendants(p, j)
    BY <1>1, NewIsIn
  <2> QED
    BY <2>1 DEF Tells
<1>4. \A x \in Subtree(p, j) : p[x].tag = "word" => <<"text", x>> \in New(o, r) \/ Excused(p, x)
  BY DEF Tells, Subtree
<1> QED
  BY <1>2, <1>3, <1>4 DEF Tells

(* A list whose elements are told right is told right with them.             *)
LEMMA TellsList ==
    ASSUME NEW p, WellFormed(p), NEW j \in 1..Len(p), p[j].tag \in {"ul", "ol"},
           NEW o \in Out, NEW r \in Out, Tells(p, Descendants(p, j), j + 1, Enter(o), r)
    PROVE  Tells(p, Subtree(p, j), j, o, Leave(r))
<1>1. Enter(o) \in Out /\ Enter(o).depth = o.depth + 1 /\ Enter(o).md = o.md /\ o.depth \in Nat
  BY ListFacts, OutFacts
<1>2. Grows(Enter(o), r, Descendants(p, j)) /\ r.depth = o.depth + 1
  BY <1>1 DEF Tells, Grows
<1>3. Leave(r) \in Out /\ Leave(r).depth = o.depth /\ Leave(r).md = r.md
  BY <1>2, ListFacts
<1>4. New(o, Leave(r)) = New(Enter(o), r)
  BY <1>1, <1>3 DEF New
<1>5. Grows(o, Leave(r), Subtree(p, j))
  BY <1>1, <1>2, <1>3 DEF Grows, Subtree
<1>6. ASSUME NEW t \in New(o, Leave(r)) PROVE Right(p, j, o.depth, t)
  <2>1. t[2] \in Descendants(p, j)
    BY <1>2, <1>4, NewIsIn
  <2>2. Right(p, j + 1, o.depth + 1, t)
    BY <1>1, <1>4 DEF Tells
  <2> QED
    BY <1>1, <2>1, <2>2, RightList
<1>7. \A x \in Subtree(p, j) : p[x].tag = "word" => <<"text", x>> \in New(o, Leave(r)) \/ Excused(p, x)
  BY <1>4 DEF Tells, Subtree
<1> QED
  BY <1>5, <1>6, <1>7 DEF Tells

(* A marker and what follows it.                                             *)
LEMMA NewItem ==
    ASSUME NEW p, WellFormed(p), NEW j \in 1..Len(p), NEW o \in Out, NEW r \in Out,
           NEW q, q = Put(o, Marker(o, j)), Grows(q, r, Descendants(p, j))
    PROVE  /\ q \in Out /\ q.depth = o.depth /\ Marker(o, j) = <<"item", j, Level(o.depth)>>
           /\ Grows(o, r, Subtree(p, j)) /\ New(o, r) = {Marker(o, j)} \cup New(q, r)
<1> DEFINE m == Marker(o, j)
<1>1. m \in Token /\ m[2] = j /\ q \in Out /\ q.depth = o.depth
  <2>1. j \in Nat
    BY NodeFacts
  <2>2. m[2] = j
    BY DEF Marker
  <2> QED
    BY <2>1, <2>2, MarkerFacts
<1>2. Grows(o, q, {j}) /\ New(o, q) = {m}
  BY <1>1, GrowsPut
<1>3. m = <<"item", j, Level(o.depth)>>
  BY DEF Marker, Level
<1> HIDE DEF m
<1>4. \A x \in {j}, y \in Descendants(p, j) : x < y
  <2>1. j \in 0..Len(p) /\ j \in Nat
    BY NodeFacts
  <2>2. \A y \in Descendants(p, j) : y > j /\ y \in 1..Len(p)
    BY <2>1, BelowFacts
  <2> QED
    BY <2>1, <2>2
<1>5. Grows(o, r, Subtree(p, j)) /\ New(o, r) = {m} \cup New(q, r)
  <2> DEFINE X == {j}
             Y == Descendants(p, j)
  <2>1. q \in Out /\ Grows(o, q, X) /\ Grows(q, r, Y) /\ \A x \in X, y \in Y : x < y
    BY <1>1, <1>2, <1>4
  <2> HIDE DEF Out, X, Y
  <2>2. Grows(o, r, X \cup Y) /\ New(o, r) = New(o, q) \cup New(q, r)
    BY <2>1, GrowsMore
  <2> QED
    BY <1>2, <2>2 DEF Subtree, X, Y
<1> QED
  BY <1>1, <1>3, <1>5 DEF m

(* So is an item.                                                            *)
LEMMA TellsItem ==
    ASSUME NEW p, WellFormed(p), NEW j \in 1..Len(p),
           p[j].tag = "li" \/ (p[j].tag # "word" /\ DirectlyIn(p, j, {"ol"})),
           NEW o \in Out, NEW r \in Out,
           Tells(p, Descendants(p, j), j + 1, Put(o, Marker(o, j)), r)
    PROVE  Tells(p, Subtree(p, j), j, o, r)
<1> DEFINE m == Marker(o, j)
           q == Put(o, m)
<1>1. Grows(q, r, Descendants(p, j))
  BY DEF Tells
<1>2. /\ q.depth = o.depth /\ m = <<"item", j, Level(o.depth)>>
      /\ Grows(o, r, Subtree(p, j)) /\ New(o, r) = {m} \cup New(q, r)
  BY <1>1, NewItem
<1> HIDE DEF m, q
<1>3. m[1] = "item" /\ m[2] = j /\ m[3] = Level(o.depth)
  BY <1>2
<1>4. Right(p, j, o.depth, m)
  <2>1. Lists(p, j, j) = {}
    BY SinceNone DEF Lists
  <2>2. Cardinality(Lists(p, j, j)) = 0
    BY <2>1, FS_EmptySet
  <2>3. o.depth + 0 = o.depth
    BY OutFacts
  <2>4. RightItem(p, j, o.depth, j, Level(o.depth))
    BY <2>2, <2>3 DEF RightItem
  <2> QED
    BY <1>3, <2>4 DEF Right
<1>5. Tells(p, Descendants(p, j), j + 1, q, r)
  BY DEF q, m
<1>6. ASSUME NEW t \in New(q, r) PROVE Right(p, j, o.depth, t)
  <2>1. t[2] \in Descendants(p, j)
    BY <1>1, NewIsIn
  <2>2. Right(p, j + 1, o.depth, t)
    BY <1>2, <1>5 DEF Tells
  <2>3. CASE p[j].tag = "li"
    BY <2>1, <2>2, <2>3, RightPlain
  <2>4. CASE DirectlyIn(p, j, {"ol"})
    BY <2>1, <2>2, <2>4, RightInOl
  <2> QED
    BY <2>3, <2>4
<1>7. \A t \in New(o, r) : Right(p, j, o.depth, t)
  BY <1>2, <1>4, <1>6
<1>8. \A x \in Descendants(p, j) : p[x].tag = "word" => <<"text", x>> \in New(q, r) \/ Excused(p, x)
  BY <1>5 DEF Tells
<1>9. \A x \in Subtree(p, j) : p[x].tag = "word" => <<"text", x>> \in New(o, r) \/ Excused(p, x)
  BY <1>2, <1>8 DEF Subtree
<1> QED
  BY <1>2, <1>7, <1>9 DEF Tells

(* A loop over children of i that tells each of them right adds what it adds *)
(* for each of them, all of it about nodes below i.                          *)
LEMMA ChildrenGrow ==
    ASSUME NEW p, WellFormed(p), NEW i \in 0..Len(p), NEW out \in Out,
           NEW visit, IsVisit(p, visit), DOMAIN visit \subseteq Children(p, i),
           \A k \in DOMAIN visit : \A o \in Out :
              o.depth = out.depth => Tells(p, Subtree(p, k), k, o, visit[k][o])
    PROVE  /\ Each(p, visit, out) \in Out
           /\ Grows(out, Each(p, visit, out), Descendants(p, i))
           /\ \A t \in New(out, Each(p, visit, out)) : \E k \in DOMAIN visit, o \in Out :
                 o.depth = out.depth /\ t \in New(o, visit[k][o])
           /\ \A k \in DOMAIN visit : \E o \in Out :
                 o.depth = out.depth /\ New(o, visit[k][o]) \subseteq New(out, Each(p, visit, out))
<1> DEFINE D == DOMAIN visit
           span == [k \in D |-> Subtree(p, k)]
           X == Descendants(p, i)
<1>1. p \in Seq(Node)
  BY DEF WellFormed
<1>2. \A k \in D : k \in Children(p, i) /\ span[k] = Subtree(p, k) /\ span[k] \subseteq X
  BY ChildFacts
<1>3. \A k \in D : \A o \in Out : o.depth = out.depth => Grows(o, visit[k][o], span[k])
  BY <1>2 DEF Tells
<1>4. \A k, l \in D : k < l => \A x \in span[k], y \in span[l] : x < y
  BY <1>2, SubtreesApart
<1>5. \A k \in D : span[k] \subseteq X
  BY <1>2
<1> HIDE DEF span, X, Out
<1>0. GrowEach(visit, span, out, X)
  BY <1>3, <1>4, <1>5 DEF GrowEach
<1>6. /\ Each(p, visit, out) \in Out
      /\ Grows(out, Each(p, visit, out), X)
      /\ \A t \in New(out, Each(p, visit, out)) : \E k \in DOMAIN visit, o \in Out :
            o.depth = out.depth /\ t \in New(o, visit[k][o])
      /\ \A k \in DOMAIN visit : \E o \in Out :
            o.depth = out.depth /\ New(o, visit[k][o]) \subseteq New(out, Each(p, visit, out))
  BY <1>0, <1>1, EachGrows
<1> QED
  BY <1>6 DEF X

(* It tells right what is below i, if the children it passes over may be     *)
(* passed over.                                                              *)
LEMMA TellsEach ==
    ASSUME NEW p, WellFormed(p), NEW i \in 0..Len(p), NEW out \in Out,
           NEW visit, IsVisit(p, visit), DOMAIN visit \subseteq Children(p, i),
           \A k \in DOMAIN visit : \A o \in Out :
              o.depth = out.depth => Tells(p, Subtree(p, k), k, o, visit[k][o]),
           \A k \in Children(p, i) \ DOMAIN visit : p[k].tag = "word" /\ Excused(p, k)
    PROVE  Tells(p, Descendants(p, i), i + 1, out, Each(p, visit, out))
<1> DEFINE r == Each(p, visit, out)
           X == Descendants(p, i)
<1>1. /\ r \in Out /\ Grows(out, r, X)
      /\ \A t \in New(out, r) : \E k \in DOMAIN visit, o \in Out :
            o.depth = out.depth /\ t \in New(o, visit[k][o])
      /\ \A k \in DOMAIN visit : \E o \in Out :
            o.depth = out.depth /\ New(o, visit[k][o]) \subseteq New(out, r)
  BY ChildrenGrow
<1> HIDE DEF r, X
<1>2. ASSUME NEW t \in New(out, r) PROVE Right(p, i + 1, out.depth, t)
  <2>1. PICK k \in DOMAIN visit, o \in Out : o.depth = out.depth /\ t \in New(o, visit[k][o])
    BY <1>1
  <2>2. Tells(p, Subtree(p, k), k, o, visit[k][o])
    BY <2>1
  <2>3. Right(p, k, out.depth, t)
    BY <2>1, <2>2 DEF Tells
  <2>4. Grows(o, visit[k][o], Subtree(p, k))
    BY <2>2 DEF Tells
  <2>5. t[2] \in Subtree(p, k)
    BY <2>1, <2>4, NewIsIn
  <2>6. k \in Children(p, i)
    OBVIOUS
  <2> QED
    BY <2>3, <2>5, <2>6, RightChild
<1>3. ASSUME NEW x \in X, p[x].tag = "word" PROVE <<"text", x>> \in New(out, r) \/ Excused(p, x)
  <2>1. PICK k \in Children(p, i) : x \in Subtree(p, k)
    BY BelowAChild DEF X
  <2>2. CASE k \in DOMAIN visit
    <3>1. PICK o \in Out : o.depth = out.depth /\ New(o, visit[k][o]) \subseteq New(out, r)
      BY <1>1, <2>2
    <3>2. Tells(p, Subtree(p, k), k, o, visit[k][o])
      BY <2>2, <3>1
    <3>3. <<"text", x>> \in New(o, visit[k][o]) \/ Excused(p, x)
      BY <1>3, <2>1, <3>2 DEF Tells
    <3> QED
      BY <3>1, <3>3
  <2>3. CASE k \notin DOMAIN visit
    <3>1. p[k].tag = "word" /\ Excused(p, k)
      BY <2>3
    <3>2. k \in 1..Len(p)
      BY ChildFacts
    <3>3. x = k
      BY <2>1, <3>1, <3>2, WordsAreLeaves
    <3> QED
      BY <3>1, <3>3
  <2> QED
    BY <2>2, <2>3
<1> QED
  BY <1>1, <1>2, <1>3 DEF Tells, r, X

(* A word is told right.                                                     *)
LEMMA TellsText ==
    ASSUME NEW p, WellFormed(p), NEW k \in 1..Len(p), p[k].tag = "word", NEW o \in Out
    PROVE  Tells(p, Subtree(p, k), k, o, Put(o, <<"text", k>>))
<1> DEFINE t == <<"text", k>>
           r == Put(o, t)
<1>1. Subtree(p, k) = {k} /\ Since(p, k, k) = {}
  BY WordsAreLeaves, SinceNone
<1>2. k \in Nat
  BY NodeFacts
<1>3. t \in Token /\ t[1] = "text" /\ t[2] = k
  BY <1>2, TextFacts
<1> HIDE DEF Token, t
<1>4. Grows(o, r, {k}) /\ New(o, r) = {t}
  BY <1>3, GrowsPut
<1> HIDE DEF r
<1>5. Right(p, k, o.depth, t)
  BY <1>1, <1>3 DEF Right, RightText
<1>6. t = <<"text", k>>
  BY DEF t
<1> QED
  BY <1>1, <1>4, <1>5, <1>6 DEF Tells, r

(* The elements after node i: those that walks from i on may come to.        *)
Elementary(p, i) == {k \in 1..Len(p) : k > i /\ p[k].tag # "word"}

(* If the walk tells right of all elements after i, so does that of i's      *)
(* children.                                                                 *)
LEMMA TellsChildren ==
    ASSUME NEW p, WellFormed(p), NEW i \in 0..Len(p), NEW w \in Walker(p), NEW out \in Out,
           \A k \in Elementary(p, i) : \A o \in Out : Tells(p, Subtree(p, k), k, o, w[k][o])
    PROVE  Tells(p, Descendants(p, i), i + 1, out, WalkChildren(p, w, i, out))
<1> DEFINE visit == ChildVisit(p, w, i)
<1>1. p \in Seq(Node)
  BY DEF WellFormed
<1>2. IsVisit(p, visit) /\ DOMAIN visit = Children(p, i)
  BY <1>1, ChildVisitFacts
<1>3. ASSUME NEW k \in Children(p, i), NEW o \in Out PROVE Tells(p, Subtree(p, k), k, o, visit[k][o])
  <2>1. k \in 1..Len(p) /\ k > i
    BY ChildFacts
  <2>2. IF p[k].tag = "word" THEN visit[k][o] = Put(o, <<"text", k>>) ELSE visit[k][o] = w[k][o]
    BY <1>1, ChildVisitFacts
  <2> HIDE DEF visit
  <2>3. CASE p[k].tag = "word"
    BY <2>1, <2>2, <2>3, TellsText
  <2>4. CASE p[k].tag # "word"
    <3>1. k \in Elementary(p, i)
      BY <2>1, <2>4 DEF Elementary
    <3> QED
      BY <2>2, <2>4, <3>1
  <2> QED
    BY <2>3, <2>4
<1>4. WalkChildren(p, w, i, out) = Each(p, visit, out)
  BY <1>1, WalkChildrenType
<1> HIDE DEF visit
<1>5. Tells(p, Descendants(p, i), i + 1, out, Each(p, visit, out))
  BY <1>2, <1>3, TellsEach
<1> QED
  BY <1>4, <1>5

(* The children of lists: elements, or words that may be lost.               *)
LEMMA ElementsFacts ==
    ASSUME NEW p, WellFormed(p), NEW j \in 1..Len(p), p[j].tag \in {"ul", "ol"}
    PROVE  /\ \A k \in Elements(p, j) : k \in Children(p, j) /\ k \in Elementary(p, j)
           /\ \A k \in Children(p, j) \ Elements(p, j) : p[k].tag = "word" /\ Excused(p, k)
           /\ p[j].tag = "ol" => \A k \in Children(p, j) : DirectlyIn(p, k, {"ol"})
<1>1. j \in 0..Len(p)
  BY NodeFacts
<1>2. ASSUME NEW k \in Children(p, j)
      PROVE  /\ k \in 1..Len(p) /\ k > j /\ DirectlyIn(p, k, {"ul", "ol"})
             /\ p[j].tag = "ol" => DirectlyIn(p, k, {"ol"})
  <2>1. /\ k \in Descendants(p, j) /\ k \in 1..Len(p) /\ k > j
        /\ p[k].depth = DepthOf(p, j) + 1
    BY <1>1, ChildFacts
  <2>2. DepthOf(p, j) = p[j].depth /\ DOMAIN p = 1..Len(p)
    BY NodeFacts
  <2>3. j \in Ancestors(p, k)
    BY <2>1, AncestorFacts
  <2>4. j \in Tagged(p, {"ul", "ol"}) /\ (p[j].tag = "ol" => j \in Tagged(p, {"ol"}))
    BY <2>2 DEF Tagged
  <2> QED
    BY <2>1, <2>2, <2>3, <2>4 DEF DirectlyIn
<1>3. \A k \in Children(p, j) \ Elements(p, j) : p[k].tag = "word" /\ Excused(p, k)
  BY <1>2 DEF Elements, Excused
<1>4. \A k \in Elements(p, j) : k \in Children(p, j) /\ k \in Elementary(p, j)
  BY <1>2 DEF Elements, Elementary
<1> QED
  BY <1>2, <1>3, <1>4

(* ul tells right.                                                           *)
LEMMA TellsUl ==
    ASSUME NEW p, WellFormed(p), NEW j \in 1..Len(p), p[j].tag = "ul", NEW w \in Walker(p),
           NEW out \in Out,
           \A k \in Elementary(p, j) : \A o \in Out : Tells(p, Subtree(p, k), k, o, w[k][o])
    PROVE  Tells(p, Subtree(p, j), j, out, WalkUl(p, w, j, out))
<1> DEFINE visit == ElementVisit(p, w, j)
           r == Each(p, visit, Enter(out))
<1>1. p \in Seq(Node) /\ j \in 0..Len(p) /\ Enter(out) \in Out
  BY NodeFacts, ListFacts DEF WellFormed
<1>2. IsVisit(p, visit) /\ DOMAIN visit = Elements(p, j)
      /\ \A k \in Elements(p, j) : \A o \in Out : visit[k][o] = w[k][o] /\ visit[k][o].depth = o.depth
  BY <1>1, ElementVisitFacts
<1>3. /\ \A k \in Elements(p, j) : k \in Children(p, j) /\ k \in Elementary(p, j)
      /\ \A k \in Children(p, j) \ Elements(p, j) : p[k].tag = "word" /\ Excused(p, k)
  BY ElementsFacts
<1>4. WalkUl(p, w, j, out) = Leave(r)
  BY DEF WalkUl, ElementVisit
<1> HIDE DEF visit
<1>5. \A k \in Elements(p, j) : \A o \in Out : Tells(p, Subtree(p, k), k, o, visit[k][o])
  BY <1>2, <1>3
<1>6. Tells(p, Descendants(p, j), j + 1, Enter(out), r)
  <2>1. DOMAIN visit \subseteq Children(p, j)
    BY <1>2, <1>3
  <2> QED
    BY <1>1, <1>2, <1>3, <1>5, <2>1, TellsEach
<1>7. r \in Out
  BY <1>1, <1>2, EachKeeps
<1> HIDE DEF r
<1> QED
  BY <1>4, <1>6, <1>7, TellsList

(* ol tells right, whatever elements it has.                                 *)
LEMMA TellsOl ==
    ASSUME NEW p, WellFormed(p), NEW j \in 1..Len(p), p[j].tag = "ol", NEW w \in Walker(p),
           NEW out \in Out,
           \A k \in Elementary(p, j) : \A o \in Out : Tells(p, Subtree(p, k), k, o, w[k][o])
    PROVE  Tells(p, Subtree(p, j), j, out, WalkOl(p, w, j, out))
<1> DEFINE visit == ItemVisit(p, w, j)
           r == Each(p, visit, Enter(out))
<1>1. p \in Seq(Node) /\ j \in 0..Len(p) /\ Enter(out) \in Out
  BY NodeFacts, ListFacts DEF WellFormed
<1>2. IsVisit(p, visit) /\ DOMAIN visit = Elements(p, j)
  BY <1>1, ItemVisitFacts
<1>3. \A k \in Elements(p, j) : \A o \in Out :
         /\ visit[k][o] = WalkChildren(p, w, k, Put(o, Marker(o, k)))
         /\ visit[k][o].depth = o.depth
  BY <1>1, ItemVisitFacts
<1>4. /\ \A k \in Elements(p, j) : k \in Children(p, j) /\ k \in Elementary(p, j)
      /\ \A k \in Children(p, j) \ Elements(p, j) : p[k].tag = "word" /\ Excused(p, k)
      /\ \A k \in Children(p, j) : DirectlyIn(p, k, {"ol"})
  BY ElementsFacts
<1>5. WalkOl(p, w, j, out) = Leave(r)
  BY DEF WalkOl, ItemVisit
<1> HIDE DEF visit
<1>6. ASSUME NEW k \in Elements(p, j), NEW o \in Out
      PROVE  Tells(p, Subtree(p, k), k, o, visit[k][o])
  <2> DEFINE q == Put(o, Marker(o, k))
  <2>1. k \in 1..Len(p) /\ k > j /\ p[k].tag # "word" /\ DirectlyIn(p, k, {"ol"})
    BY <1>4 DEF Elementary
  <2>2. k \in 0..Len(p) /\ k \in Nat /\ j \in Nat
    BY <2>1, NodeFacts
  <2>3. q \in Out
    BY <2>2, MarkerFacts
  <2>4. \A l \in Elementary(p, k) : l \in Elementary(p, j)
    BY <2>1, <2>2 DEF Elementary
  <2>5. visit[k][o] = WalkChildren(p, w, k, q)
    BY <1>3
  <2> HIDE DEF q
  <2>6. Tells(p, Descendants(p, k), k + 1, q, WalkChildren(p, w, k, q))
    <3>1. \A l \in Elementary(p, k) : \A u \in Out : Tells(p, Subtree(p, l), l, u, w[l][u])
      BY <2>4
    <3> QED
      BY <2>2, <2>3, <3>1, TellsChildren
  <2>7. WalkChildren(p, w, k, q) \in Out
    BY <1>1, <2>3, WalkChildrenType
  <2> DEFINE u == WalkChildren(p, w, k, q)
  <2> HIDE DEF u
  <2>8. Tells(p, Descendants(p, k), k + 1, Put(o, Marker(o, k)), u) /\ u \in Out
    BY <2>6, <2>7 DEF q, u
  <2>9. Tells(p, Subtree(p, k), k, o, u)
    BY <2>1, <2>8, TellsItem
  <2> QED
    BY <2>5, <2>9 DEF u
<1>7. Tells(p, Descendants(p, j), j + 1, Enter(out), r)
  <2>1. DOMAIN visit \subseteq Children(p, j)
    BY <1>2, <1>4
  <2> QED
    BY <1>1, <1>2, <1>4, <1>6, <2>1, TellsEach
<1>8. r \in Out
  BY <1>1, <1>2, <1>3, EachKeeps
<1> HIDE DEF r
<1> QED
  BY <1>5, <1>7, <1>8, TellsList

(* pre tells right: all of its words, even skipped ones.                     *)
LEMMA TellsPre ==
    ASSUME NEW p, WellFormed(p), NEW j \in 1..Len(p), p[j].tag = "pre", NEW out \in Out
    PROVE  Tells(p, Subtree(p, j), j, out, Each(p, Texts(Words(p, Descendants(p, j))), out))
<1> DEFINE W == Words(p, Descendants(p, j))
           r == Each(p, Texts(W), out)
<1>1. p \in Seq(Node) /\ DOMAIN p = 1..Len(p) /\ W \subseteq DOMAIN p
  BY NodeFacts, NodeSets DEF WellFormed
<1>2. \A x \in W : x \in Descendants(p, j) /\ p[x].tag = "word"
  BY DEF Words
<1>3. \A x \in Subtree(p, j) : p[x].tag = "word" => x \in W
  BY DEF Words, Subtree
<1> HIDE DEF W
<1>4. Grows(out, r, W) /\ New(out, r) = {<<"text", k>> : k \in W}
  BY <1>1, TextsGrow
<1> HIDE DEF r
<1>5. Grows(out, r, Subtree(p, j))
  BY <1>2, <1>4 DEF Grows, Subtree
<1>6. ASSUME NEW x \in W PROVE Right(p, j, out.depth, <<"text", x>>)
  <2>1. j \in Ancestors(p, x)
    BY <1>2, AncestorFacts
  <2>2. j \in Tagged(p, {"pre"})
    BY <1>1 DEF Tagged
  <2>3. Through(p, x)
    BY <2>1, <2>2 DEF Through, Inside
  <2> QED
    BY <1>2, <2>3 DEF Right, RightText
<1>7. \A t \in New(out, r) : Right(p, j, out.depth, t)
  BY <1>4, <1>6
<1>8. \A x \in Subtree(p, j) : p[x].tag = "word" => <<"text", x>> \in New(out, r)
  BY <1>3, <1>4
<1> QED
  BY <1>5, <1>7, <1>8 DEF Tells, r, W

(* code tells right: its own words.                                          *)
LEMMA TellsCode ==
    ASSUME NEW p, WellFormed(p), NEW j \in 1..Len(p), p[j].tag = "code", NEW out \in Out
    PROVE  Tells(p, Subtree(p, j), j, out, Each(p, Texts(Words(p, Children(p, j))), out))
<1> DEFINE W == Words(p, Children(p, j))
           r == Each(p, Texts(W), out)
<1>1. p \in Seq(Node) /\ DOMAIN p = 1..Len(p) /\ W \subseteq DOMAIN p /\ j \in 0..Len(p)
  BY NodeFacts, NodeSets DEF WellFormed
<1>2. \A x \in W : x \in Children(p, j) /\ p[x].tag = "word"
  BY DEF Words
<1>3. ASSUME NEW x \in Descendants(p, j), p[x].tag = "word", x \notin W PROVE Excused(p, x)
  <2>1. PICK k \in Children(p, j) : x \in Subtree(p, k)
    BY <1>1, BelowAChild
  <2>2. k # x
    BY <1>3, <2>1 DEF Words
  <2>3. x \in Descendants(p, k) /\ k \in 1..Len(p) /\ k \in Descendants(p, j)
    BY <1>1, <2>1, <2>2, ChildFacts DEF Subtree
  <2>4. k \in Ancestors(p, x) /\ j \in Ancestors(p, k)
    BY <2>3, AncestorFacts
  <2>5. j \in Tagged(p, {"code"})
    BY <1>1 DEF Tagged
  <2>6. Inside(p, k, {"code"})
    BY <2>4, <2>5 DEF Inside
  <2> QED
    BY <2>4, <2>6 DEF Excused
<1> HIDE DEF W
<1>4. Grows(out, r, W) /\ New(out, r) = {<<"text", k>> : k \in W}
  BY <1>1, TextsGrow
<1> HIDE DEF r
<1>5. Grows(out, r, Subtree(p, j))
  <2>1. W \subseteq Subtree(p, j)
    BY <1>1, <1>2, ChildFacts DEF Subtree
  <2> QED
    BY <1>4, <2>1 DEF Grows
<1>6. ASSUME NEW x \in W PROVE Right(p, j, out.depth, <<"text", x>>)
  <2>1. x \in Children(p, j) /\ x \in Descendants(p, j) /\ x \in 1..Len(p) /\ x \in Subtree(p, x)
    BY <1>1, <1>2, ChildFacts DEF Subtree
  <2>2. Since(p, j + 1, x) = {}
    BY <1>1, <2>1, SinceChild, SinceNone
  <2>3. Since(p, j, x) = {j}
    BY <2>1, <2>2, SinceSelf
  <2> QED
    BY <1>2, <2>3 DEF Right, RightText
<1>7. \A t \in New(out, r) : Right(p, j, out.depth, t)
  BY <1>4, <1>6
<1>8. \A x \in Subtree(p, j) : p[x].tag = "word" => <<"text", x>> \in New(out, r) \/ Excused(p, x)
  BY <1>3, <1>4 DEF Subtree
<1> QED
  BY <1>5, <1>7, <1>8 DEF Tells, r, W

(* What is skipped may be.                                                   *)
LEMMA TellsNothing ==
    ASSUME NEW p, WellFormed(p), NEW j \in 1..Len(p), p[j].tag \in Skipped, NEW out \in Out
    PROVE  Tells(p, Subtree(p, j), j, out, out)
<1>1. Grows(out, out, Subtree(p, j)) /\ New(out, out) = {}
  BY GrowsNot
<1>2. ASSUME NEW x \in Subtree(p, j), p[x].tag = "word" PROVE Excused(p, x)
  <2>1. x \in Descendants(p, j)
    BY <1>2 DEF Subtree, Skipped
  <2>2. j \in Ancestors(p, x) /\ DOMAIN p = 1..Len(p)
    BY <2>1, AncestorFacts, NodeFacts
  <2> QED
    BY <2>2 DEF Excused, Inside, Tagged, Skipped
<1> QED
  BY <1>1, <1>2 DEF Tells

(* walk_element tells right, whatever the element.                           *)
LEMMA TellsElement ==
    ASSUME NEW p, WellFormed(p), NEW j \in 1..Len(p), p[j].tag # "word", NEW w \in Walker(p),
           NEW out \in Out,
           \A k \in Elementary(p, j) : \A o \in Out : Tells(p, Subtree(p, k), k, o, w[k][o])
    PROVE  Tells(p, Subtree(p, j), j, out, WalkElement(p, w, j, out))
<1> DEFINE Good(r) == Tells(p, Subtree(p, j), j, out, r)
<1>1. p \in Seq(Node) /\ DOMAIN p = 1..Len(p) /\ j \in 0..Len(p) /\ j \in Nat
  BY NodeFacts DEF WellFormed
<1>2. \A o \in Out : Tells(p, Descendants(p, j), j + 1, o, WalkChildren(p, w, j, o))
                     /\ WalkChildren(p, w, j, o) \in Out
  BY <1>1, TellsChildren, WalkChildrenType
<1>3. p[j].tag = "ul" => Good(WalkUl(p, w, j, out))
  BY TellsUl
<1>4. p[j].tag = "ol" => Good(WalkOl(p, w, j, out))
  BY TellsOl
<1>5. ASSUME p[j].tag = "li" PROVE Good(WalkChildren(p, w, j, Put(out, Marker(out, j))))
  <2>1. Put(out, Marker(out, j)) \in Out
    BY <1>1, MarkerFacts
  <2> DEFINE r == WalkChildren(p, w, j, Put(out, Marker(out, j)))
  <2>2. Tells(p, Descendants(p, j), j + 1, Put(out, Marker(out, j)), r) /\ r \in Out
    BY <1>2, <2>1
  <2> HIDE DEF r
  <2>3. Good(r)
    BY <1>5, <2>2, TellsItem
  <2> QED
    BY <2>3 DEF r
<1>6. p[j].tag = "pre" => Good(Each(p, Texts(Words(p, Descendants(p, j))), out))
  BY TellsPre
<1>7. p[j].tag = "code" => Good(Each(p, Texts(Words(p, Children(p, j))), out))
  BY TellsCode
<1>8. p[j].tag \in Skipped => Good(out)
  BY TellsNothing
<1>9. ASSUME p[j].tag \notin {"ul", "ol", "li", "pre", "code"} \cup Skipped
      PROVE  Good(WalkChildren(p, w, j, out))
  <2> DEFINE r == WalkChildren(p, w, j, out)
  <2>1. Tells(p, Descendants(p, j), j + 1, out, r)
    BY <1>2
  <2>2. p[j].tag \notin {"nav", "ul", "ol"}
    BY <1>9 DEF Skipped
  <2>3. \A t : t[2] \in Descendants(p, j) /\ Right(p, j + 1, out.depth, t) => Right(p, j, out.depth, t)
    BY <2>2, RightPlain
  <2> HIDE DEF r
  <2>4. Good(r)
    BY <2>1, <2>3, TellsUp
  <2> QED
    BY <2>4 DEF r
<1> HIDE DEF Good
<1>10. Good(WalkElement(p, w, j, out))
  BY <1>3, <1>4, <1>5, <1>6, <1>7, <1>8, <1>9 DEF WalkElement
<1> QED
  BY <1>10 DEF Good

(* From the last element to the first, every walk tells right.               *)
LEMMA WalksTell ==
    ASSUME NEW p, WellFormed(p)
    PROVE  \A j \in Elementary(p, 0) : \A o \in Out : Tells(p, Subtree(p, j), j, o, Walks(p)[j][o])
<1> DEFINE N == Len(p)
           w == Walks(p)
           Good(j) == \A o \in Out : Tells(p, Subtree(p, j), j, o, w[j][o])
           T == {n \in Nat : \A j \in Elementary(p, 0) : j > N - n => Good(j)}
<1>1. p \in Seq(Node) /\ N \in Nat /\ DOMAIN p = 1..N
  BY NodeFacts DEF WellFormed
<1>2. w \in Walker(p) /\ \A j \in 1..N : \A o \in Out : w[j][o] = WalkElement(p, w, j, o)
  BY <1>1, WalksDef
<1>3. \A j \in Elementary(p, 0) : j \in 1..N /\ p[j].tag # "word"
  BY DEF Elementary
<1> HIDE DEF w
<1>4. 0 \in T
  BY <1>1, <1>3
<1>5. ASSUME NEW n \in Nat, n \in T PROVE n + 1 \in T
  <2> SUFFICES ASSUME NEW j \in Elementary(p, 0), j > N - (n + 1) PROVE Good(j)
    OBVIOUS
  <2>1. ASSUME NEW k \in Elementary(p, j) PROVE Good(k)
    <3>1. k \in Elementary(p, 0) /\ k > N - n
      BY <1>1, <1>3 DEF Elementary
    <3> QED
      BY <1>5, <3>1
  <2>2. ASSUME NEW o \in Out PROVE Tells(p, Subtree(p, j), j, o, w[j][o])
    <3>1. Tells(p, Subtree(p, j), j, o, WalkElement(p, w, j, o))
      BY <1>2, <1>3, <2>1, TellsElement
    <3> QED
      BY <1>2, <1>3, <3>1
  <2> QED
    BY <2>2
<1> HIDE DEF T, Good
<1>6. \A n \in Nat : n \in T
  BY <1>4, <1>5, Induction
<1>7. ASSUME NEW j \in Elementary(p, 0) PROVE Good(j)
  <2>1. j > N - N
    BY <1>1, <1>3
  <2> QED
    BY <1>1, <1>6, <2>1 DEF T
<1> QED
  BY <1>7 DEF Good, w

(* Where a walk of the page starts.                                          *)
LEMMA NothingFacts == Nothing \in Out /\ Nothing.depth = 0 /\ Nothing.md = <<>> /\ Len(Nothing.md) = 0
<1>1. <<>> \in Seq(Token) /\ Len(<<>>) = 0
  <2> HIDE DEF Token
  <2> QED
    OBVIOUS
<1> QED
  BY <1>1 DEF Nothing, Out

(* The whole page.                                                           *)
LEMMA PageTells ==
    ASSUME NEW p, WellFormed(p)
    PROVE  Tells(p, 1..Len(p), 1, Nothing, WalkFrom(p, 0)) /\ WalkFrom(p, 0) \in Out
<1>1. p \in Seq(Node) /\ Len(p) \in Nat /\ 0 \in 0..Len(p) /\ 0 + 1 = 1
  BY NodeFacts DEF WellFormed
<1>2. Walks(p) \in Walker(p)
  BY <1>1, WalksDef
<1>3. WalkFrom(p, 0) = WalkChildren(p, Walks(p), 0, Nothing)
  BY DEF WalkFrom
<1>4. Tells(p, Descendants(p, 0), 0 + 1, Nothing, WalkFrom(p, 0))
  BY <1>1, <1>2, <1>3, NothingFacts, WalksTell, TellsChildren
<1>5. Descendants(p, 0) = 1..Len(p)
  <2>1. ASSUME NEW j \in 1..Len(p) PROVE j \in Descendants(p, 0)
    <3>1. \A k \in (0 + 1)..j : k \in 1..Len(p)
      BY <1>1
    <3>2. \A k \in (0 + 1)..j : p[k].depth > DepthOf(p, 0)
      BY <3>1, NodeFacts DEF DepthOf
    <3> QED
      BY <1>1, <3>2, BelowFacts
  <2> QED
    BY <1>1, <2>1, BelowFacts
<1>6. WalkFrom(p, 0) \in Out
  BY <1>1, <1>2, <1>3, NothingFacts, WalkChildrenType
<1> QED
  BY <1>1, <1>4, <1>5, <1>6

(* The texts among the tokens are the nodes that are shown.                  *)
LEMMA TextShown ==
    ASSUME NEW r \in Out
    PROVE  /\ DOMAIN r.md = 1..Len(r.md)
           /\ New(Nothing, r) = {r.md[n] : n \in 1..Len(r.md)}
           /\ \A x : <<"text", x>> \in New(Nothing, r) => x \in Shown(r.md)
           /\ \A x \in Shown(r.md) : \E t \in New(Nothing, r) : t[1] = "text" /\ t[2] = x
<1>1. DOMAIN r.md = 1..Len(r.md)
  <2>1. r.md \in Seq(Token)
    BY OutFacts
  <2> HIDE DEF Token
  <2> QED
    BY <2>1
<1>2. New(Nothing, r) = {r.md[n] : n \in 1..Len(r.md)}
  <2>1. Len(Nothing.md) + 1 = 1
    BY NothingFacts
  <2> QED
    BY <2>1 DEF New
<1> DEFINE md == r.md
<1> HIDE DEF md
<1>3. DOMAIN md = 1..Len(md) /\ New(Nothing, r) = {md[n] : n \in 1..Len(md)}
  BY <1>1, <1>2 DEF md
<1>4. ASSUME NEW x, <<"text", x>> \in New(Nothing, r) PROVE x \in Shown(md)
  <2>1. PICK n \in DOMAIN md : md[n] = <<"text", x>>
    BY <1>3, <1>4
  <2>2. md[n][1] = "text" /\ md[n][2] = x
    BY <2>1
  <2> QED
    BY <2>2 DEF Shown
<1>5. ASSUME NEW x \in Shown(md) PROVE \E t \in New(Nothing, r) : t[1] = "text" /\ t[2] = x
  BY <1>3 DEF Shown
<1> QED
  BY <1>1, <1>2, <1>4, <1>5 DEF md

(* html_to_text has the words that are in no nav.                            *)
LEMMA TextIs ==
    ASSUME NEW p, WellFormed(p)
    PROVE  Shown(HtmlToText(p)) = {x \in 1..Len(p) : p[x].tag = "word" /\ ~Inside(p, x, {"nav"})}
<1> DEFINE S == Tagged(p, {"word"}) \ {j \in DOMAIN p : Ancestors(p, j) \cap Tagged(p, {"nav"}) # {}}
           r == Each(p, Texts(S), Nothing)
<1>1. p \in Seq(Node) /\ DOMAIN p = 1..Len(p)
  BY NodeFacts DEF WellFormed
<1>2. S = {x \in 1..Len(p) : p[x].tag = "word" /\ ~Inside(p, x, {"nav"})}
  BY <1>1 DEF Tagged, Inside
<1>3. HtmlToText(p) = r.md
  BY DEF HtmlToText
<1> HIDE DEF S
<1>4. S \subseteq DOMAIN p
  BY <1>1, <1>2
<1>5. r \in Out /\ New(Nothing, r) = {<<"text", k>> : k \in S}
  BY <1>1, <1>4, NothingFacts, TextsGrow
<1> HIDE DEF r
<1>6. ASSUME NEW x \in S PROVE x \in Shown(r.md)
  <2>1. <<"text", x>> \in New(Nothing, r)
    BY <1>5
  <2> QED
    BY <1>5, <2>1, TextShown
<1>7. ASSUME NEW x \in Shown(r.md) PROVE x \in S
  <2>1. PICK t \in New(Nothing, r) : t[1] = "text" /\ t[2] = x
    BY <1>5, TextShown
  <2>2. PICK k \in S : t = <<"text", k>>
    BY <1>5, <2>1
  <2> QED
    BY <2>1, <2>2
<1> QED
  BY <1>2, <1>3, <1>6, <1>7

(* Markdown and plain text agree as WalkersAgree says.                       *)
LEMMA WalkersAgreeOn ==
    ASSUME NEW p, WellFormed(p)
    PROVE  LET md == DomToMarkdown(p)
               text == Shown(HtmlToText(p))
           IN  /\ \A m, n \in DOMAIN md :
                     m < n /\ md[m][1] = "text" /\ md[n][1] = "text" => md[m][2] < md[n][2]
               /\ \A w \in text \ Shown(md) :
                     \/ Inside(p, w, {"form"}) \/ DirectlyIn(p, w, {"ul", "ol"})
                     \/ \E i \in Ancestors(p, w) : Inside(p, i, {"code"})
               /\ \A w \in Shown(md) \ text :
                     \/ Inside(p, w, {"pre"})
                     \/ \E i \in Ancestors(p, w) : p[i].tag = "nav" /\ DirectlyIn(p, i, {"ol"})
<1> DEFINE r == WalkFrom(p, 0)
           md == r.md
           text == Shown(HtmlToText(p))
<1>1. Tells(p, 1..Len(p), 1, Nothing, r) /\ r \in Out
  BY PageTells
<1>2. DomToMarkdown(p) = md
  BY DEF DomToMarkdown
<1>3. text = {x \in 1..Len(p) : p[x].tag = "word" /\ ~Inside(p, x, {"nav"})}
  BY TextIs
<1> HIDE DEF r, text, Out
<1>4. /\ DOMAIN md = 1..Len(md)
      /\ New(Nothing, r) = {md[n] : n \in 1..Len(md)}
      /\ \A x : <<"text", x>> \in New(Nothing, r) => x \in Shown(md)
      /\ \A x \in Shown(md) : \E t \in New(Nothing, r) : t[1] = "text" /\ t[2] = x
  BY <1>1, TextShown
<1>5. Grows(Nothing, r, 1..Len(p)) /\ Len(Nothing.md) + 1 = 1
  BY <1>1, NothingFacts DEF Tells
<1> HIDE DEF md
<1>6. \A m, n \in DOMAIN md :
         m < n /\ md[m][1] = "text" /\ md[n][1] = "text" => md[m][2] < md[n][2]
  BY <1>4, <1>5 DEF Grows, md
<1>7. ASSUME NEW x \in text \ Shown(md)
      PROVE  \/ Inside(p, x, {"form"}) \/ DirectlyIn(p, x, {"ul", "ol"})
             \/ \E i \in Ancestors(p, x) : Inside(p, i, {"code"})
  <2>1. x \in 1..Len(p) /\ p[x].tag = "word" /\ ~Inside(p, x, {"nav"})
    BY <1>3
  <2>2. <<"text", x>> \notin New(Nothing, r)
    BY <1>4
  <2>3. Excused(p, x)
    BY <1>1, <2>1, <2>2 DEF Tells
  <2> QED
    BY <2>1, <2>3 DEF Excused
<1>8. ASSUME NEW x \in Shown(md) \ text
      PROVE  \/ Inside(p, x, {"pre"})
             \/ \E i \in Ancestors(p, x) : p[i].tag = "nav" /\ DirectlyIn(p, i, {"ol"})
  <2>1. PICK t \in New(Nothing, r) : t[1] = "text" /\ t[2] = x
    BY <1>4
  <2>2. Right(p, 1, Nothing.depth, t) /\ x \in 1..Len(p)
    BY <1>1, <1>5, <2>1, NewIsIn DEF Tells
  <2>3. RightText(p, 1, x)
    BY <2>1, <2>2 DEF Right
  <2>4. p[x].tag = "word"
    BY <2>3 DEF RightText
  <2>5. Inside(p, x, {"nav"})
    BY <1>3, <2>2, <2>4
  <2>6. PICK a \in Ancestors(p, x) : a \in Tagged(p, {"nav"})
    BY <2>5 DEF Inside
  <2>7. a \in 1..Len(p) /\ p[a].tag = "nav"
    BY <2>6, AncestorFacts DEF Tagged
  <2>8. a \in Since(p, 1, x)
    BY <2>6, <2>7 DEF Since
  <2>9. Through(p, x)
    BY <2>3, <2>7, <2>8 DEF RightText
  <2> QED
    BY <2>9 DEF Through
<1> QED
  BY <1>2, <1>6, <1>7, <1>8 DEF text

-----------------------------------------------------------------------------
(* Among a node and its ancestors there is one at every depth.               *)
LEMMA AncestorExists ==
    ASSUME NEW p, WellFormed(p), NEW x \in 1..Len(p), NEW d \in 1..p[x].depth
    PROVE  \E k \in Ancestors(p, x) \cup {x} : p[k].depth = d
<1> DEFINE K == {k \in 1..x : p[k].depth <= d}
<1>1. Len(p) \in Nat /\ x \in Nat /\ p[x].depth \in Nat /\ d \in Nat /\ d >= 1 /\ d <= p[x].depth
  BY NodeFacts
<1>2. \A k \in 1..x : k \in 1..Len(p) /\ p[k].depth \in Nat /\ DepthOf(p, k) = p[k].depth
  BY <1>1, NodeFacts
<1>3. 1 \in K
  <2>1. 0 \in 0..(Len(p) - 1) /\ DepthOf(p, 0) = 0 /\ 1 \in 1..x
    BY <1>1 DEF DepthOf
  <2>2. p[0 + 1].depth <= 0 + 1
    BY <2>1, NodeFacts
  <2> QED
    BY <1>1, <1>2, <2>1, <2>2
<1>4. K \subseteq 1..x /\ K # {}
  BY <1>3
<1>5. PICK k \in K : \A l \in K : l <= k
  <2> HIDE DEF K
  <2> QED
    BY <1>1, <1>4, Greatest
<1>6. k \in 1..x /\ p[k].depth <= d
  OBVIOUS
<1>7. \A m \in (k + 1)..x : m \in 1..x /\ p[m].depth > d
  <2>1. \A m \in (k + 1)..x : m \in 1..x /\ m > k
    BY <1>1, <1>6
  <2>2. \A m \in (k + 1)..x : m \notin K
    BY <1>5, <1>6, <2>1
  <2> QED
    BY <1>1, <1>2, <2>1, <2>2
<1>8. CASE k = x
  BY <1>1, <1>6, <1>8
<1>9. CASE k # x
  <2>1. k + 1 \in (k + 1)..x /\ k \in 0..(Len(p) - 1) /\ x > k
    BY <1>1, <1>6, <1>9
  <2>2. p[k + 1].depth <= p[k].depth + 1 /\ p[k + 1].depth > d /\ p[k + 1].depth \in Nat
    BY <1>2, <1>6, <1>7, <2>1, NodeFacts
  <2>3. p[k].depth = d
    BY <1>1, <1>2, <1>6, <2>2
  <2>4. x \in Descendants(p, k)
    <3>1. k \in 0..Len(p) /\ x > k /\ DepthOf(p, k) = d
      BY <1>1, <1>2, <1>6, <2>1, <2>3
    <3>2. \A m \in (k + 1)..x : p[m].depth > DepthOf(p, k)
      BY <1>7, <3>1
    <3> QED
      BY <3>1, <3>2, BelowFacts
  <2>5. k \in Ancestors(p, x)
    BY <1>2, <1>6, <2>4, AncestorFacts
  <2> QED
    BY <2>3, <2>5
<1> QED
  BY <1>8, <1>9

(* There is only one at every depth, as they come by depth.                  *)
LEMMA AncestorsDiffer ==
    ASSUME NEW p, WellFormed(p), NEW x \in 1..Len(p),
           NEW a \in Ancestors(p, x) \cup {x}, NEW b \in Ancestors(p, x) \cup {x}, a < b
    PROVE  p[a].depth < p[b].depth
<1>1. Len(p) \in Nat /\ \A k \in Ancestors(p, x) : k \in 1..Len(p) /\ k \in 0..Len(p) /\ x \in Descendants(p, k)
  BY NodeFacts, AncestorFacts
<1>2. \A k \in Ancestors(p, x) : k < x
  BY <1>1, BelowFacts
<1>3. a \in 1..Len(p) /\ b \in 1..Len(p) /\ b <= x
  BY <1>1, <1>2
<1>4. a \in Ancestors(p, x)
  BY <1>1, <1>3
<1>5. b \in (a + 1)..x
  BY <1>1, <1>3
<1>6. p[b].depth > DepthOf(p, a)
  BY <1>1, <1>4, <1>5, BelowFacts
<1>7. DepthOf(p, a) = p[a].depth /\ p[a].depth \in Nat /\ p[b].depth \in Nat
  BY <1>3, NodeFacts
<1> QED
  BY <1>6, <1>7

(* The page of a node's lineage has its ancestors, by their depth.           *)
LEMMA LineageFacts ==
    ASSUME NEW p, WellFormed(p), NEW x \in 1..Len(p)
    PROVE  /\ Lineage(p, x) \in Seq(Node) /\ Len(Lineage(p, x)) = p[x].depth
           /\ \A d \in 1..p[x].depth : Lineage(p, x)[d].depth = d
           /\ \A j \in 1..Len(p) : x \in Subtree(p, j) =>
                 p[j].depth \in 1..p[x].depth /\ Lineage(p, x)[p[j].depth] = p[j]
<1> DEFINE c == Lineage(p, x)
           D == p[x].depth
           at(d) == AncestorAt(p, x, d)
           A == Ancestors(p, x) \cup {x}
<1>1. p \in Seq(Node) /\ Len(p) \in Nat /\ D \in Nat /\ DOMAIN p = 1..Len(p) /\ x \in Nat
  BY NodeFacts DEF WellFormed
<1>2. \A k \in A : k \in 1..Len(p) /\ p[k].depth \in Nat /\ p[k].depth >= 1
  BY AncestorFacts, NodeFacts
<1>3. ASSUME NEW d \in 1..D PROVE at(d) \in A /\ p[at(d)].depth = d
  BY AncestorExists DEF AncestorAt
<1>4. c = [d \in 1..D |-> p[at(d)]]
  BY DEF Lineage
<1>5. ASSUME NEW k \in A PROVE p[k].depth \in 1..D /\ at(p[k].depth) = k
  <2>1. p[k].depth <= D
    <3>1. CASE k = x
      BY <1>1, <3>1
    <3>2. CASE k # x
      <4>1. k \in Ancestors(p, x) /\ k \in 1..Len(p) /\ k \in 0..Len(p)
        BY <1>1, <1>2, <3>2
      <4>2. x \in Descendants(p, k)
        BY <4>1, AncestorFacts
      <4>3. k < x
        BY <4>1, <4>2, BelowFacts
      <4>4. p[k].depth < D
        BY <4>3, AncestorsDiffer
      <4> QED
        BY <1>1, <1>2, <4>4
    <3> QED
      BY <3>1, <3>2
  <2>2. p[k].depth \in 1..D
    BY <1>1, <1>2, <2>1
  <2> DEFINE a == at(p[k].depth)
  <2>3. a \in A /\ p[a].depth = p[k].depth
    BY <1>3, <2>2
  <2> HIDE DEF a
  <2>4. ~(a < k) /\ ~(k < a)
    BY <1>2, <2>3, AncestorsDiffer
  <2>5. a = k
    BY <1>2, <2>3, <2>4
  <2> QED
    BY <2>2, <2>5 DEF a
<1> HIDE DEF D, at, c, A
<1>6. \A d \in 1..D : p[at(d)] \in Node
  <2>1. \A k \in 1..Len(p) : p[k] \in Node
    BY <1>1
  <2> QED
    BY <1>2, <1>3, <2>1
<1>7. c \in [1..D -> Node] /\ \A d \in 1..D : c[d] = p[at(d)]
  BY <1>4, <1>6
<1>8. c \in Seq(Node) /\ Len(c) = D
  <2> HIDE DEF Node
  <2> QED
    BY <1>1, <1>7
<1>9. \A d \in 1..D : c[d].depth = d
  BY <1>3, <1>7
<1>10. ASSUME NEW j \in 1..Len(p), x \in Subtree(p, j) PROVE p[j].depth \in 1..D /\ c[p[j].depth] = p[j]
  <2>1. j \in A
    BY <1>10, AncestorFacts DEF A, Subtree
  <2> QED
    BY <1>5, <1>7, <2>1
<1> QED
  BY <1>8, <1>9, <1>10 DEF c, D

(* Each of its nodes has the next one as its only child.                     *)
LEMMA LineageBelow ==
    ASSUME NEW c \in Seq(Node), \A d \in 1..Len(c) : c[d].depth = d, NEW d \in 0..Len(c)
    PROVE  Children(c, d) = IF d = Len(c) THEN {} ELSE {d + 1}
<1> DEFINE D == Len(c)
<1>1. D \in Nat /\ DOMAIN c = 1..D /\ d \in Nat
  OBVIOUS
<1>2. DepthOf(c, d) = d
  BY <1>1 DEF DepthOf
<1> HIDE DEF D
<1>3. ASSUME NEW k \in Children(c, d) PROVE k = d + 1 /\ d # D
  <2>1. k \in Descendants(c, d) /\ c[k].depth = d + 1
    BY <1>2 DEF Children
  <2>2. k \in DOMAIN c /\ c[k].depth = k
    BY <1>1, <2>1 DEF Descendants, D
  <2>3. k \in 1..D /\ k = d + 1
    BY <1>1, <2>1, <2>2
  <2> QED
    BY <1>1, <2>3
<1>4. ASSUME d # D PROVE d + 1 \in Children(c, d)
  <2>1. d + 1 \in 1..D /\ d + 1 > d
    BY <1>1, <1>4
  <2>2. \A k \in (d + 1)..(d + 1) : c[k].depth > d
    BY <1>1, <2>1
  <2>3. d + 1 \in Descendants(c, d)
    BY <1>1, <1>2, <2>1, <2>2 DEF Descendants
  <2>4. c[d + 1].depth = d + 1
    BY <2>1 DEF D
  <2> QED
    BY <1>2, <2>3, <2>4 DEF Children
<1> QED
  BY <1>3, <1>4 DEF D

(* A loop over no node or over one.                                          *)
LEMMA EachFew ==
    ASSUME NEW p \in Seq(Node), NEW visit, IsVisit(p, visit), NEW out \in Out,
           NEW m \in Nat, DOMAIN visit \subseteq {m}
    PROVE  Each(p, visit, out) = IF DOMAIN visit = {} THEN out ELSE visit[m][out]
<1> DEFINE N == Len(p)
           v == Visits(p, visit, out)
           D == DOMAIN visit
           T == {n \in Nat : n <= N => v[n] = IF D # {} /\ m <= n THEN visit[m][out] ELSE out}
<1>1. /\ v[0] = out
      /\ \A n \in 1..N : v[n] = IF n \in D THEN visit[n][v[n - 1]] ELSE v[n - 1]
  BY VisitsDef
<1>2. N \in Nat /\ Each(p, visit, out) = v[N]
  BY DEF Each
<1>3. \A k \in D : k = m /\ k \in 1..N
  BY DEF IsVisit
<1> HIDE DEF v, N, D
<1>4. 0 \in T
  BY <1>1, <1>3
<1>5. ASSUME NEW n \in Nat, n \in T PROVE n + 1 \in T
  <2> SUFFICES ASSUME n + 1 <= N
               PROVE  v[n + 1] = IF D # {} /\ m <= n + 1 THEN visit[m][out] ELSE out
    OBVIOUS
  <2>1. n + 1 \in 1..N /\ (n + 1) - 1 = n /\ n <= N
    BY <1>2
  <2>2. v[n] = IF D # {} /\ m <= n THEN visit[m][out] ELSE out
    BY <1>5, <2>1
  <2>3. v[n + 1] = IF n + 1 \in D THEN visit[n + 1][v[n]] ELSE v[n]
    BY <1>1, <2>1
  <2>4. CASE n + 1 \in D
    <3>1. m = n + 1 /\ D # {}
      BY <1>3, <2>4
    <3>2. v[n] = out
      BY <2>2, <3>1
    <3> QED
      BY <2>3, <2>4, <3>1, <3>2
  <2>5. CASE n + 1 \notin D
    <3>1. D # {} => m # n + 1
      BY <1>3, <2>5
    <3>2. D # {} => (m <= n + 1 <=> m <= n)
      BY <3>1
    <3> QED
      BY <2>2, <2>3, <2>5, <3>2
  <2> QED
    BY <2>4, <2>5
<1> HIDE DEF T
<1>6. N \in T
  BY <1>2, <1>4, <1>5, Induction
<1>7. v[N] = IF D # {} /\ m <= N THEN visit[m][out] ELSE out
  BY <1>2, <1>6 DEF T
<1>8. D # {} => m <= N
  BY <1>2, <1>3
<1> QED
  BY <1>2, <1>7, <1>8 DEF D

(* r ends with the item that t is, numbered as on the page of its lineage.   *)
Ends(p, t, r) == Len(r.md) >= 1 /\ r.md[Len(r.md)] = <<"item", p[t[2]].depth, t[3]>>

(* The walks of that page: of its element at depth d, of what is in it, and  *)
(* of it as an item of an ol. They end with t, if t is an item, from every q *)
(* that is in b lists.                                                       *)
ToElement(c, d, q) == Walks(c)[d][q]
ToChildren(c, d, q) == WalkChildren(c, Walks(c), d, q)
ToItem(c, d, q) == WalkChildren(c, Walks(c), d, Put(q, Marker(q, d)))

AsElement(p, d, b, t) ==
    t[1] = "item" => \A q \in Out : q.depth = b => Ends(p, t, ToElement(Lineage(p, t[2]), d, q))
AsChildren(p, d, b, t) ==
    t[1] = "item" => \A q \in Out : q.depth = b => Ends(p, t, ToChildren(Lineage(p, t[2]), d, q))
AsItem(p, d, b, t) ==
    t[1] = "item" => \A q \in Out : q.depth = b => Ends(p, t, ToItem(Lineage(p, t[2]), d, q))

(* The walk of a node's lineage, at each of the node's ancestors.            *)
LEMMA LineageNode ==
    ASSUME NEW p, WellFormed(p), NEW j \in 1..Len(p), NEW x \in Subtree(p, j)
    PROVE  LET c == Lineage(p, x)
               d == p[j].depth
           IN  /\ c \in Seq(Node) /\ d \in 1..Len(c) /\ DOMAIN c = 1..Len(c) /\ c[d] = p[j]
               /\ \A e \in 1..Len(c) : c[e].depth = e
               /\ Walks(c) \in Walker(c)
               /\ \A q \in Out : ToElement(c, d, q) = WalkElement(c, Walks(c), d, q)
               /\ \A q \in Out : ToElement(c, d, q) \in Out
<1> DEFINE c == Lineage(p, x)
           d == p[j].depth
<1>1. x \in 1..Len(p)
  <2>1. j \in 0..Len(p)
    BY NodeFacts
  <2> QED
    BY <2>1, BelowFacts DEF Subtree
<1>2. /\ c \in Seq(Node) /\ Len(c) = p[x].depth
      /\ \A e \in 1..p[x].depth : c[e].depth = e
      /\ d \in 1..p[x].depth /\ c[d] = p[j]
  BY <1>1, LineageFacts
<1> HIDE DEF c, d
<1>3. DOMAIN c = 1..Len(c)
  <2> HIDE DEF Node
  <2> QED
    BY <1>2
<1>4. Walks(c) \in Walker(c) /\ \A e \in DOMAIN c : \A q \in Out : Walks(c)[e][q] = WalkElement(c, Walks(c), e, q)
  BY <1>2, WalksDef
<1>5. d \in DOMAIN c
  BY <1>2, <1>3
<1>6. \A q \in Out : ToElement(c, d, q) = WalkElement(c, Walks(c), d, q) /\ ToElement(c, d, q) \in Out
  <2>1. \A q \in Out : Walks(c)[d][q] \in Out
    BY <1>4, <1>5, WalkerFacts
  <2> QED
    BY <1>4, <1>5, <2>1 DEF ToElement
<1> QED
  BY <1>2, <1>3, <1>4, <1>6 DEF c, d

(* From a node, a page without siblings goes on with one child.              *)
LEMMA LineageChild ==
    ASSUME NEW p, WellFormed(p), NEW i \in 0..Len(p), NEW k \in Children(p, i),
           NEW x \in Subtree(p, k), p[k].tag # "word"
    PROVE  LET c == Lineage(p, x)
               d == DepthOf(p, i)
           IN  /\ Children(c, d) = {d + 1} /\ Elements(c, d) = {d + 1} /\ p[k].depth = d + 1
               /\ d + 1 \in Nat /\ c[d + 1].tag # "word"
<1> DEFINE c == Lineage(p, x)
           d == DepthOf(p, i)
<1>1. k \in 1..Len(p) /\ p[k].depth = d + 1 /\ d \in Nat
  BY ChildFacts, NodeFacts
<1>2. /\ c \in Seq(Node) /\ p[k].depth \in 1..Len(c) /\ c[p[k].depth] = p[k]
      /\ \A e \in 1..Len(c) : c[e].depth = e
  BY <1>1, LineageNode
<1> HIDE DEF c, d
<1>3. d \in 0..Len(c) /\ d # Len(c)
  <2>1. Len(c) \in Nat
    BY <1>2
  <2> QED
    BY <1>1, <1>2, <2>1
<1>4. Children(c, d) = {d + 1}
  BY <1>2, <1>3, LineageBelow
<1>5. c[d + 1].tag # "word"
  BY <1>1, <1>2
<1>6. Elements(c, d) = {d + 1}
  BY <1>4, <1>5 DEF Elements
<1> QED
  BY <1>1, <1>4, <1>5, <1>6 DEF c, d

(* So a walk of children that has come there goes on with that child.        *)
LEMMA AloneChild ==
    ASSUME NEW p, WellFormed(p), NEW i \in 0..Len(p), NEW k \in Children(p, i), p[k].tag # "word",
           NEW b, NEW t, t[2] \in Subtree(p, k), AsElement(p, p[k].depth, b, t)
    PROVE  AsChildren(p, DepthOf(p, i), b, t)
<1> DEFINE c == Lineage(p, t[2])
           d == DepthOf(p, i)
<1> SUFFICES ASSUME t[1] = "item", NEW q \in Out, q.depth = b PROVE Ends(p, t, ToChildren(c, d, q))
  BY DEF AsChildren
<1>1. k \in 1..Len(p)
  BY ChildFacts
<1>2. c \in Seq(Node) /\ Walks(c) \in Walker(c)
  BY <1>1, LineageNode
<1>3. Children(c, d) = {d + 1} /\ p[k].depth = d + 1 /\ d + 1 \in Nat /\ c[d + 1].tag # "word"
  BY LineageChild
<1>4. Ends(p, t, ToElement(c, p[k].depth, q))
  BY DEF AsElement
<1> DEFINE visit == ChildVisit(c, Walks(c), d)
<1> HIDE DEF c, d, Out
<1>5. /\ IsVisit(c, visit) /\ DOMAIN visit = Children(c, d)
      /\ \A m \in Children(c, d) : \A o \in Out :
            IF c[m].tag = "word" THEN visit[m][o] = Put(o, <<"text", m>>) ELSE visit[m][o] = Walks(c)[m][o]
  BY <1>2, ChildVisitFacts
<1>6. ToChildren(c, d, q) = Each(c, visit, q)
  BY <1>2, WalkChildrenType DEF ToChildren
<1> HIDE DEF visit
<1>7. DOMAIN visit = {d + 1}
  BY <1>3, <1>5
<1>8. Each(c, visit, q) = IF DOMAIN visit = {} THEN q ELSE visit[d + 1][q]
  BY <1>2, <1>3, <1>5, <1>7, EachFew
<1>9. visit[d + 1][q] = ToElement(c, d + 1, q)
  BY <1>3, <1>5 DEF ToElement
<1>10. ToChildren(c, d, q) = ToElement(c, d + 1, q)
  BY <1>6, <1>7, <1>8, <1>9
<1> QED
  BY <1>3, <1>4, <1>10 DEF c, d

(* What the walk of i's children adds, if what the walks of elements below i *)
(* add is right.                                                             *)
LEMMA AloneChildren ==
    ASSUME NEW p, WellFormed(p), NEW i \in 0..Len(p), NEW out \in Out,
           \A k \in Elementary(p, i) : \A o \in Out : \A t \in New(o, Walks(p)[k][o]) :
              AsElement(p, p[k].depth, o.depth, t)
    PROVE  \A t \in New(out, WalkChildren(p, Walks(p), i, out)) : AsChildren(p, DepthOf(p, i), out.depth, t)
<1> DEFINE w == Walks(p)
           visit == ChildVisit(p, w, i)
           r == Each(p, visit, out)
<1>1. p \in Seq(Node) /\ w \in Walker(p) /\ Len(p) \in Nat
  BY NodeFacts, WalksDef DEF WellFormed
<1>2. IsVisit(p, visit) /\ DOMAIN visit = Children(p, i)
  BY <1>1, ChildVisitFacts
<1>3. ASSUME NEW k \in Children(p, i), NEW o \in Out
      PROVE  /\ Tells(p, Subtree(p, k), k, o, visit[k][o])
             /\ \A t \in New(o, visit[k][o]) : t[1] = "item" =>
                   p[k].tag # "word" /\ AsElement(p, p[k].depth, o.depth, t)
  <2>1. k \in 1..Len(p) /\ k > i /\ k \in Nat
    BY <1>1, ChildFacts
  <2>2. IF p[k].tag = "word" THEN visit[k][o] = Put(o, <<"text", k>>) ELSE visit[k][o] = w[k][o]
    BY <1>1, ChildVisitFacts
  <2> HIDE DEF visit
  <2>3. CASE p[k].tag = "word"
    <3>1. Tells(p, Subtree(p, k), k, o, visit[k][o])
      BY <2>1, <2>2, <2>3, TellsText
    <3>2. New(o, visit[k][o]) = {<<"text", k>>}
      <4>1. <<"text", k>> \in Token
        BY <2>1, TextFacts
      <4> HIDE DEF Token
      <4> QED
        BY <2>2, <2>3, <4>1, GrowsPut
    <3> QED
      BY <3>1, <3>2
  <2>4. CASE p[k].tag # "word"
    <3>1. k \in Elementary(p, i) /\ k \in Elementary(p, 0)
      BY <2>1, <2>4 DEF Elementary
    <3>2. visit[k][o] = w[k][o]
      BY <2>2, <2>4
    <3>3. Tells(p, Subtree(p, k), k, o, w[k][o])
      BY <3>1, WalksTell
    <3>4. \A t \in New(o, w[k][o]) : AsElement(p, p[k].depth, o.depth, t)
      BY <3>1
    <3> QED
      BY <2>4, <3>2, <3>3, <3>4
  <2> QED
    BY <2>3, <2>4
<1>4. WalkChildren(p, w, i, out) = r
  BY <1>1, WalkChildrenType
<1> HIDE DEF visit, r, w, Out
<1>5. ASSUME NEW t \in New(out, r), t[1] = "item" PROVE AsChildren(p, DepthOf(p, i), out.depth, t)
  <2>1. PICK k \in DOMAIN visit, o \in Out : o.depth = out.depth /\ t \in New(o, visit[k][o])
    <3>1. \A k \in DOMAIN visit : \A o \in Out :
             o.depth = out.depth => Tells(p, Subtree(p, k), k, o, visit[k][o])
      BY <1>2, <1>3
    <3>2. DOMAIN visit \subseteq Children(p, i)
      BY <1>2
    <3> QED
      BY <1>2, <3>1, <3>2, ChildrenGrow DEF r
  <2>2. k \in Children(p, i)
    BY <1>2
  <2>3. Tells(p, Subtree(p, k), k, o, visit[k][o])
    BY <1>3, <2>2
  <2>4. Grows(o, visit[k][o], Subtree(p, k))
    BY <2>3 DEF Tells
  <2>5. t[2] \in Subtree(p, k)
    BY <2>1, <2>4, NewIsIn
  <2>6. p[k].tag # "word" /\ AsElement(p, p[k].depth, out.depth, t)
    BY <1>3, <1>5, <2>1, <2>2
  <2> QED
    BY <2>2, <2>5, <2>6, AloneChild
<1>6. \A t \in New(out, r) : t[1] # "item" => AsChildren(p, DepthOf(p, i), out.depth, t)
  BY DEF AsChildren
<1> QED
  BY <1>4, <1>5, <1>6 DEF w

(* Leaving a list writes nothing.                                            *)
LEMMA EndsLeave ==
    ASSUME NEW p, NEW t, NEW q \in Out, NEW r \in Out, r.depth = q.depth + 1, Ends(p, t, r)
    PROVE  Ends(p, t, Leave(r))
<1> HIDE DEF Out
<1>1. Leave(r).md = r.md
  BY ListFacts
<1> QED
  BY <1>1 DEF Ends

(* An item and what is in it.                                                *)
LEMMA AloneItem ==
    ASSUME NEW p, WellFormed(p), NEW k \in 1..Len(p), p[k].tag # "word", NEW o \in Out,
           \A l \in Elementary(p, k) : \A u \in Out : \A t \in New(u, Walks(p)[l][u]) :
              AsElement(p, p[l].depth, u.depth, t)
    PROVE  \A t \in New(o, WalkChildren(p, Walks(p), k, Put(o, Marker(o, k)))) :
              t[2] \in Subtree(p, k) /\ AsItem(p, p[k].depth, o.depth, t)
<1> DEFINE w == Walks(p)
           q == Put(o, Marker(o, k))
           r == WalkChildren(p, w, k, q)
           d == p[k].depth
<1>1. p \in Seq(Node) /\ w \in Walker(p) /\ k \in Nat /\ k \in 0..Len(p) /\ DepthOf(p, k) = d
  BY NodeFacts, WalksDef DEF WellFormed
<1>2. q \in Out /\ q.depth = o.depth
  BY <1>1, MarkerFacts
<1> HIDE DEF w
<1>3. r \in Out
  BY <1>1, <1>2, WalkChildrenType
<1>4. Grows(q, r, Descendants(p, k))
  <2>1. \A l \in Elementary(p, k) : l \in Elementary(p, 0)
    BY <1>1 DEF Elementary
  <2>2. \A l \in Elementary(p, k) : \A u \in Out : Tells(p, Subtree(p, l), l, u, w[l][u])
    BY <2>1, WalksTell DEF w
  <2>3. Tells(p, Descendants(p, k), k + 1, q, r)
    BY <1>1, <1>2, <2>2, TellsChildren
  <2> QED
    BY <2>3 DEF Tells
<1>5. \A t \in New(q, r) : AsChildren(p, d, o.depth, t)
  BY <1>1, <1>2, AloneChildren DEF w
<1> HIDE DEF r, Out, d
<1>6. /\ Marker(o, k) = <<"item", k, Level(o.depth)>>
      /\ Grows(o, r, Subtree(p, k)) /\ New(o, r) = {Marker(o, k)} \cup New(q, r)
  BY <1>3, <1>4, NewItem
<1>7. ASSUME NEW t \in New(q, r) PROVE t[2] \in Subtree(p, k) /\ AsItem(p, d, o.depth, t)
  <2>1. t[2] \in Descendants(p, k)
    BY <1>4, NewIsIn
  <2>2. t[2] \in Subtree(p, k)
    BY <2>1 DEF Subtree
  <2> DEFINE c == Lineage(p, t[2])
  <2>3. ASSUME t[1] = "item", NEW u \in Out, u.depth = o.depth PROVE Ends(p, t, ToItem(c, d, u))
    <3>1. d \in 1..Len(c) /\ c \in Seq(Node)
      BY <2>2, LineageNode DEF d
    <3>2. d \in Nat
      BY <3>1
    <3> DEFINE v == Put(u, Marker(u, d))
    <3>3. v \in Out /\ v.depth = o.depth
      BY <2>3, <3>2, MarkerFacts
    <3>4. Ends(p, t, ToChildren(c, d, v))
      BY <1>5, <2>3, <3>3 DEF AsChildren
    <3> QED
      BY <3>4 DEF ToItem, ToChildren
  <2> HIDE DEF c
  <2>4. AsItem(p, d, o.depth, t)
    BY <2>3 DEF AsItem, c
  <2> QED
    BY <2>2, <2>4
<1>8. ASSUME NEW t, t = Marker(o, k) PROVE t[2] \in Subtree(p, k) /\ AsItem(p, d, o.depth, t)
  <2>1. t[2] = k /\ t[3] = Level(o.depth)
    BY <1>6, <1>8
  <2>2. k \in Subtree(p, k)
    BY DEF Subtree
  <2> DEFINE c == Lineage(p, k)
  <2>3. /\ c \in Seq(Node) /\ d \in 1..Len(c) /\ Walks(c) \in Walker(c)
        /\ \A e \in 1..Len(c) : c[e].depth = e
    BY <2>2, LineageNode DEF d
  <2>4. Len(c) = d
    BY LineageFacts DEF d
  <2> HIDE DEF c
  <2>5. d \in 0..Len(c) /\ d \in Nat
    BY <2>3, <2>4
  <2>6. Children(c, d) = {}
    BY <2>3, <2>4, <2>5, LineageBelow
  <2>7. ASSUME NEW u \in Out, u.depth = o.depth PROVE Ends(p, t, ToItem(c, d, u))
    <3> DEFINE v == Put(u, Marker(u, d))
               visit == ChildVisit(c, Walks(c), d)
    <3>1. v \in Out
      BY <2>5, MarkerFacts
    <3>2. IsVisit(c, visit) /\ DOMAIN visit = {}
      BY <2>3, <2>6, ChildVisitFacts
    <3>3. ToItem(c, d, u) = Each(c, visit, v)
      BY <2>3, <3>1, WalkChildrenType DEF ToItem
    <3> HIDE DEF v, visit
    <3>4. Each(c, visit, v) = v
      <4>1. DOMAIN visit \subseteq {d}
        BY <3>2
      <4> QED
        BY <2>3, <2>5, <3>1, <3>2, <4>1, EachFew
    <3>5. Marker(u, d) = <<"item", d, Level(o.depth)>>
      BY <2>7 DEF Marker, Level
    <3>6. Len(v.md) >= 1 /\ v.md[Len(v.md)] = Marker(u, d)
      <4>1. Marker(u, d) \in Token
        BY <2>5, MarkerFacts
      <4>2. Len(u.md) \in Nat
        BY OutFacts
      <4> HIDE DEF Token
      <4>3. Len(v.md) = Len(u.md) + 1 /\ v.md[Len(u.md) + 1] = Marker(u, d)
        BY <4>1, PutFacts DEF v
      <4> QED
        BY <4>2, <4>3
    <3>7. Ends(p, t, v)
      BY <2>1, <3>5, <3>6 DEF Ends, d
    <3> QED
      BY <3>3, <3>4, <3>7
  <2>8. AsItem(p, d, o.depth, t)
    BY <2>1, <2>7 DEF AsItem, c
  <2> QED
    BY <2>1, <2>2, <2>8
<1>9. \A t \in New(o, r) : t[2] \in Subtree(p, k) /\ AsItem(p, d, o.depth, t)
  BY <1>6, <1>7, <1>8
<1> QED
  BY <1>9 DEF r, q, w, d

(* The walk of a ul and of an ol from one child on.                          *)
LEMMA AloneUl ==
    ASSUME NEW p, WellFormed(p), NEW j \in 1..Len(p), p[j].tag = "ul", NEW out \in Out,
           \A k \in Elementary(p, j) : \A o \in Out : \A t \in New(o, Walks(p)[k][o]) :
              AsElement(p, p[k].depth, o.depth, t)
    PROVE  \A t \in New(out, WalkUl(p, Walks(p), j, out)) : AsElement(p, p[j].depth, out.depth, t)
<1> DEFINE w == Walks(p)
           visit == ElementVisit(p, w, j)
           r == Each(p, visit, Enter(out))
<1>1. p \in Seq(Node) /\ w \in Walker(p) /\ j \in Nat /\ j \in 0..Len(p) /\ DepthOf(p, j) = p[j].depth
  BY NodeFacts, WalksDef DEF WellFormed
<1>2. Enter(out) \in Out /\ Enter(out).md = out.md /\ Enter(out).depth = out.depth + 1
  BY ListFacts
<1>3. IsVisit(p, visit) /\ DOMAIN visit = Elements(p, j)
      /\ \A k \in Elements(p, j) : \A o \in Out : visit[k][o] = w[k][o] /\ visit[k][o].depth = o.depth
  BY <1>1, ElementVisitFacts
<1>4. ASSUME NEW k \in Elements(p, j)
      PROVE  k \in Children(p, j) /\ k \in Elementary(p, j) /\ k \in Elementary(p, 0)
             /\ k \in 1..Len(p) /\ p[k].tag # "word"
  <2>1. k \in Children(p, j) /\ k \in Elementary(p, j)
    BY <1>4, ElementsFacts
  <2> QED
    BY <1>1, <2>1 DEF Elementary
<1>5. WalkUl(p, w, j, out) = Leave(r)
  BY DEF WalkUl, ElementVisit
<1> HIDE DEF visit, w
<1>6. \A k \in DOMAIN visit : \A o \in Out : Tells(p, Subtree(p, k), k, o, visit[k][o])
  BY <1>3, <1>4, WalksTell DEF w
<1>7. r \in Out /\ r.depth = Enter(out).depth
  BY <1>1, <1>2, <1>3, EachKeeps
<1>8. \A t \in New(Enter(out), r) : \E k \in DOMAIN visit, o \in Out :
         o.depth = Enter(out).depth /\ t \in New(o, visit[k][o])
  <2>1. DOMAIN visit \subseteq Children(p, j)
    BY <1>3, <1>4
  <2> QED
    BY <1>1, <1>2, <1>3, <1>6, <2>1, ChildrenGrow
<1>9. New(out, Leave(r)) = New(Enter(out), r)
  <2> HIDE DEF r, Out
  <2>1. Leave(r).md = r.md
    BY <1>2, <1>7, ListFacts
  <2> QED
    BY <1>2, <2>1 DEF New
<1> HIDE DEF r, Out
<1>10. ASSUME NEW t \in New(Enter(out), r), t[1] = "item", NEW q \in Out, q.depth = out.depth
       PROVE  Ends(p, t, ToElement(Lineage(p, t[2]), p[j].depth, q))
  <2> DEFINE c == Lineage(p, t[2])
             d == p[j].depth
  <2>1. PICK k \in DOMAIN visit, o \in Out : o.depth = out.depth + 1 /\ t \in New(o, visit[k][o])
    BY <1>2, <1>8
  <2>2. k \in Elements(p, j) /\ k \in Children(p, j) /\ k \in Elementary(p, j) /\ p[k].tag # "word"
        /\ k \in 1..Len(p)
    BY <1>3, <1>4
  <2>3. Grows(o, visit[k][o], Subtree(p, k))
    BY <1>6 DEF Tells
  <2>4. t[2] \in Subtree(p, k)
    BY <2>1, <2>3, NewIsIn
  <2>5. AsElement(p, p[k].depth, out.depth + 1, t)
    BY <1>3, <2>1, <2>2 DEF w
  <2>6. t[2] \in Subtree(p, j)
    BY <1>1, <2>2, <2>4, ChildFacts DEF Subtree
  <2>7. /\ c \in Seq(Node) /\ c[d] = p[j] /\ Walks(c) \in Walker(c)
        /\ ToElement(c, d, q) = WalkElement(c, Walks(c), d, q)
    BY <2>6, LineageNode
  <2>8. Elements(c, d) = {d + 1} /\ p[k].depth = d + 1 /\ d + 1 \in Nat
    BY <1>1, <2>2, <2>4, LineageChild
  <2>9. Enter(q) \in Out /\ Enter(q).depth = out.depth + 1
    BY <1>10, ListFacts
  <2>10. Ends(p, t, ToElement(c, d + 1, Enter(q))) /\ ToElement(c, d + 1, Enter(q)) \in Out
    BY <1>10, <2>2, <2>4, <2>5, <2>8, <2>9, LineageNode DEF AsElement
  <2> DEFINE look == ElementVisit(c, Walks(c), d)
  <2> HIDE DEF c, d
  <2>11. /\ IsVisit(c, look) /\ DOMAIN look = Elements(c, d)
         /\ \A m \in Elements(c, d) : \A u \in Out :
               look[m][u] = Walks(c)[m][u] /\ look[m][u].depth = u.depth
    BY <2>7, ElementVisitFacts
  <2>12. ToElement(c, d, q) = Leave(Each(c, look, Enter(q)))
    BY <2>7 DEF WalkElement, WalkUl, ElementVisit
  <2> HIDE DEF look
  <2>13. Each(c, look, Enter(q)) = look[d + 1][Enter(q)]
    <3>1. DOMAIN look = {d + 1}
      BY <2>8, <2>11
    <3>2. Each(c, look, Enter(q)) = IF DOMAIN look = {} THEN Enter(q) ELSE look[d + 1][Enter(q)]
      <4>1. c \in Seq(Node) /\ IsVisit(c, look) /\ Enter(q) \in Out /\ d + 1 \in Nat
        BY <2>7, <2>8, <2>9, <2>11
      <4>2. DOMAIN look \subseteq {d + 1}
        BY <3>1
      <4> QED
        BY <4>1, <4>2, EachFew
    <3> QED
      BY <3>1, <3>2
  <2>14. look[d + 1][Enter(q)] = ToElement(c, d + 1, Enter(q))
         /\ look[d + 1][Enter(q)].depth = Enter(q).depth
    BY <2>8, <2>9, <2>11 DEF ToElement
  <2> DEFINE u == ToElement(c, d + 1, Enter(q))
  <2> HIDE DEF u
  <2>15. u \in Out /\ u.depth = q.depth + 1 /\ Ends(p, t, u) /\ ToElement(c, d, q) = Leave(u)
    BY <1>10, <2>9, <2>10, <2>12, <2>13, <2>14 DEF u
  <2>16. Ends(p, t, Leave(u))
    BY <2>15, EndsLeave
  <2> QED
    BY <2>15, <2>16 DEF c, d
<1> QED
  BY <1>5, <1>9, <1>10 DEF AsElement, w

(* The same of an ol, whose child is an item.                                *)
LEMMA AloneOl ==
    ASSUME NEW p, WellFormed(p), NEW j \in 1..Len(p), p[j].tag = "ol", NEW out \in Out,
           \A k \in Elementary(p, j) : \A o \in Out : \A t \in New(o, Walks(p)[k][o]) :
              AsElement(p, p[k].depth, o.depth, t)
    PROVE  \A t \in New(out, WalkOl(p, Walks(p), j, out)) : AsElement(p, p[j].depth, out.depth, t)
<1> DEFINE w == Walks(p)
           visit == ItemVisit(p, w, j)
           r == Each(p, visit, Enter(out))
<1>1. p \in Seq(Node) /\ w \in Walker(p) /\ j \in Nat /\ j \in 0..Len(p) /\ DepthOf(p, j) = p[j].depth
  BY NodeFacts, WalksDef DEF WellFormed
<1>2. Enter(out) \in Out /\ Enter(out).md = out.md /\ Enter(out).depth = out.depth + 1
  BY ListFacts
<1>3. IsVisit(p, visit) /\ DOMAIN visit = Elements(p, j)
      /\ \A k \in Elements(p, j) : \A o \in Out :
            /\ visit[k][o] = WalkChildren(p, w, k, Put(o, Marker(o, k)))
            /\ visit[k][o].depth = o.depth
  BY <1>1, ItemVisitFacts
<1>4. ASSUME NEW k \in Elements(p, j)
      PROVE  k \in Children(p, j) /\ k \in 1..Len(p) /\ k \in 0..Len(p) /\ p[k].tag # "word"
             /\ DirectlyIn(p, k, {"ol"})
             /\ \A l \in Elementary(p, k) : l \in Elementary(p, j) /\ l \in Elementary(p, 0)
  <2>1. k \in Children(p, j) /\ k \in Elementary(p, j) /\ DirectlyIn(p, k, {"ol"})
    BY <1>4, ElementsFacts
  <2>2. k \in 1..Len(p) /\ k > j /\ p[k].tag # "word"
    BY <2>1 DEF Elementary
  <2>3. k \in 0..Len(p) /\ k \in Nat
    BY <2>2, NodeFacts
  <2>4. \A l \in Elementary(p, k) : l \in Elementary(p, j) /\ l \in Elementary(p, 0)
    BY <1>1, <2>2, <2>3 DEF Elementary
  <2> QED
    BY <2>1, <2>2, <2>3, <2>4
<1>5. WalkOl(p, w, j, out) = Leave(r)
  BY DEF WalkOl, ItemVisit
<1> HIDE DEF visit, w
<1>6. ASSUME NEW k \in DOMAIN visit, NEW o \in Out PROVE Tells(p, Subtree(p, k), k, o, visit[k][o])
  <2> DEFINE q == Put(o, Marker(o, k))
             u == WalkChildren(p, w, k, q)
  <2>1. k \in Elements(p, j) /\ k \in 1..Len(p) /\ k \in 0..Len(p) /\ p[k].tag # "word"
        /\ DirectlyIn(p, k, {"ol"}) /\ k \in Nat
    BY <1>3, <1>4, NodeFacts
  <2>2. q \in Out
    BY <2>1, MarkerFacts
  <2>3. \A l \in Elementary(p, k) : \A v \in Out : Tells(p, Subtree(p, l), l, v, w[l][v])
    BY <1>4, <2>1, WalksTell DEF w
  <2>4. Tells(p, Descendants(p, k), k + 1, q, u)
    BY <1>1, <2>1, <2>2, <2>3, TellsChildren
  <2>5. u \in Out
    BY <1>1, <2>2, WalkChildrenType
  <2>6. visit[k][o] = u
    BY <1>3, <2>1
  <2> HIDE DEF u
  <2>7. Tells(p, Subtree(p, k), k, o, u)
    BY <2>1, <2>4, <2>5, TellsItem
  <2> QED
    BY <2>6, <2>7
<1>7. r \in Out /\ r.depth = Enter(out).depth
  BY <1>1, <1>2, <1>3, EachKeeps
<1>8. \A t \in New(Enter(out), r) : \E k \in DOMAIN visit, o \in Out :
         o.depth = Enter(out).depth /\ t \in New(o, visit[k][o])
  <2>1. DOMAIN visit \subseteq Children(p, j)
    BY <1>3, <1>4
  <2> QED
    BY <1>1, <1>2, <1>3, <1>6, <2>1, ChildrenGrow
<1>9. New(out, Leave(r)) = New(Enter(out), r)
  <2> HIDE DEF r, Out
  <2>1. Leave(r).md = r.md
    BY <1>2, <1>7, ListFacts
  <2> QED
    BY <1>2, <2>1 DEF New
<1> HIDE DEF r, Out
<1>10. ASSUME NEW t \in New(Enter(out), r), t[1] = "item", NEW q \in Out, q.depth = out.depth
       PROVE  Ends(p, t, ToElement(Lineage(p, t[2]), p[j].depth, q))
  <2> DEFINE c == Lineage(p, t[2])
             d == p[j].depth
  <2>1. PICK k \in DOMAIN visit, o \in Out : o.depth = out.depth + 1 /\ t \in New(o, visit[k][o])
    BY <1>2, <1>8
  <2>2. k \in Elements(p, j) /\ k \in Children(p, j) /\ p[k].tag # "word" /\ k \in 1..Len(p)
    BY <1>3, <1>4
  <2>3. t \in New(o, WalkChildren(p, Walks(p), k, Put(o, Marker(o, k))))
    BY <1>3, <2>1, <2>2 DEF w
  <2>4. t[2] \in Subtree(p, k) /\ AsItem(p, p[k].depth, out.depth + 1, t)
    <3>1. \A l \in Elementary(p, k) : \A u \in Out : \A s \in New(u, Walks(p)[l][u]) :
             AsElement(p, p[l].depth, u.depth, s)
      BY <1>4, <2>2
    <3>2. t[2] \in Subtree(p, k) /\ AsItem(p, p[k].depth, o.depth, t)
      BY <2>2, <2>3, <3>1, AloneItem
    <3> QED
      BY <2>1, <3>2
  <2>6. t[2] \in Subtree(p, j)
    BY <1>1, <2>2, <2>4, ChildFacts DEF Subtree
  <2>7. /\ c \in Seq(Node) /\ c[d] = p[j] /\ Walks(c) \in Walker(c)
        /\ ToElement(c, d, q) = WalkElement(c, Walks(c), d, q)
    BY <2>6, LineageNode
  <2>8. Elements(c, d) = {d + 1} /\ p[k].depth = d + 1 /\ d + 1 \in Nat
    BY <1>1, <2>2, <2>4, LineageChild
  <2>9. Enter(q) \in Out /\ Enter(q).depth = out.depth + 1
    BY <1>10, ListFacts
  <2> DEFINE u == ToItem(c, d + 1, Enter(q))
             v == Put(Enter(q), Marker(Enter(q), d + 1))
  <2>10. Ends(p, t, u)
    BY <1>10, <2>4, <2>8, <2>9 DEF AsItem
  <2>11. u \in Out /\ u.depth = q.depth + 1
    <3>1. v \in Out /\ v.depth = out.depth + 1
      BY <2>8, <2>9, MarkerFacts
    <3>2. WalkChildren(c, Walks(c), d + 1, v) \in Out /\ WalkChildren(c, Walks(c), d + 1, v).depth = v.depth
      BY <2>7, <3>1, WalkChildrenType
    <3> QED
      BY <1>10, <3>1, <3>2 DEF ToItem
  <2> DEFINE look == ItemVisit(c, Walks(c), d)
  <2> HIDE DEF c, d, u
  <2>12. /\ IsVisit(c, look) /\ DOMAIN look = Elements(c, d)
         /\ \A m \in Elements(c, d) : \A s \in Out :
               /\ look[m][s] = WalkChildren(c, Walks(c), m, Put(s, Marker(s, m)))
               /\ look[m][s].depth = s.depth
    BY <2>7, ItemVisitFacts
  <2>13. ToElement(c, d, q) = Leave(Each(c, look, Enter(q)))
    BY <2>7 DEF WalkElement, WalkOl, ItemVisit
  <2> HIDE DEF look
  <2>14. Each(c, look, Enter(q)) = look[d + 1][Enter(q)]
    <3>1. DOMAIN look = {d + 1}
      BY <2>8, <2>12
    <3>2. Each(c, look, Enter(q)) = IF DOMAIN look = {} THEN Enter(q) ELSE look[d + 1][Enter(q)]
      BY <2>7, <2>8, <2>9, <2>12, <3>1, EachFew
    <3> QED
      BY <3>1, <3>2
  <2>15. look[d + 1][Enter(q)] = u
    BY <2>8, <2>9, <2>12 DEF ToItem, u
  <2>16. ToElement(c, d, q) = Leave(u)
    BY <2>13, <2>14, <2>15
  <2>17. Ends(p, t, Leave(u))
    BY <2>10, <2>11, EndsLeave
  <2> QED
    BY <2>16, <2>17 DEF c, d
<1> QED
  BY <1>5, <1>9, <1>10 DEF AsElement, w

(* Every walk is alone right, from the last element to the first.            *)
LEMMA AloneElement ==
    ASSUME NEW p, WellFormed(p), NEW j \in Elementary(p, 0), NEW out \in Out,
           \A k \in Elementary(p, j) : \A o \in Out : \A t \in New(o, Walks(p)[k][o]) :
              AsElement(p, p[k].depth, o.depth, t)
    PROVE  \A t \in New(out, WalkElement(p, Walks(p), j, out)) : AsElement(p, p[j].depth, out.depth, t)
<1> DEFINE w == Walks(p)
           d == p[j].depth
           Good(r) == \A t \in New(out, r) : AsElement(p, d, out.depth, t)
<1>1. j \in 1..Len(p) /\ p[j].tag # "word"
  BY DEF Elementary
<1>2. /\ p \in Seq(Node) /\ DOMAIN p = 1..Len(p) /\ j \in 0..Len(p) /\ j \in Nat
      /\ DepthOf(p, j) = d /\ w \in Walker(p)
  <2>1. p \in Seq(Node)
    BY DEF WellFormed
  <2>2. w \in Walker(p)
    BY <2>1, WalksDef
  <2>3. Len(p) \in Nat /\ DOMAIN p = 1..Len(p) /\ DepthOf(p, j) = d
    BY <1>1, NodeFacts
  <2> HIDE DEF w, d
  <2>4. j \in 0..Len(p) /\ j \in Nat
    BY <1>1, <2>3
  <2> QED
    BY <2>1, <2>2, <2>3, <2>4
<1> HIDE DEF w
<1>3. p[j].tag = "ul" => Good(WalkUl(p, w, j, out))
  BY <1>1, AloneUl DEF w
<1>4. p[j].tag = "ol" => Good(WalkOl(p, w, j, out))
  BY <1>1, AloneOl DEF w
<1>5. ASSUME p[j].tag = "li" PROVE Good(WalkChildren(p, w, j, Put(out, Marker(out, j))))
  <2> SUFFICES ASSUME NEW t \in New(out, WalkChildren(p, w, j, Put(out, Marker(out, j))))
               PROVE  AsElement(p, d, out.depth, t)
    OBVIOUS
  <2>1. t[2] \in Subtree(p, j) /\ AsItem(p, d, out.depth, t)
    BY <1>1, AloneItem DEF w
  <2> DEFINE c == Lineage(p, t[2])
  <2>2. c[d] = p[j] /\ \A q \in Out : ToElement(c, d, q) = WalkElement(c, Walks(c), d, q)
    BY <1>1, <2>1, LineageNode
  <2> HIDE DEF c, d, Out
  <2>3. \A q \in Out : ToElement(c, d, q) = ToItem(c, d, q)
    BY <1>5, <2>2 DEF WalkElement, ToItem
  <2> QED
    BY <2>1, <2>3 DEF AsItem, AsElement, c
<1>6. ASSUME NEW W, W \subseteq DOMAIN p PROVE Good(Each(p, Texts(W), out))
  <2> DEFINE r == Each(p, Texts(W), out)
  <2>1. New(out, r) = {<<"text", k>> : k \in W}
    BY <1>2, <1>6, TextsGrow
  <2> HIDE DEF r
  <2>2. \A t \in New(out, r) : t[1] = "text"
    BY <2>1
  <2>3. Good(r)
    BY <2>2 DEF AsElement
  <2> QED
    BY <2>3 DEF r
<1>7. Good(Each(p, Texts(Words(p, Descendants(p, j))), out))
      /\ Good(Each(p, Texts(Words(p, Children(p, j))), out))
  <2> HIDE DEF Good
  <2> QED
    BY <1>6, NodeSets
<1>8. Good(out)
  BY GrowsNot
<1>9. ASSUME p[j].tag \notin {"ul", "ol", "li", "pre", "code"} \cup Skipped
      PROVE  Good(WalkChildren(p, w, j, out))
  <2> SUFFICES ASSUME NEW t \in New(out, WalkChildren(p, w, j, out))
               PROVE  AsElement(p, d, out.depth, t)
    OBVIOUS
  <2>1. AsChildren(p, d, out.depth, t)
    BY <1>2, AloneChildren DEF w
  <2>2. t[2] \in Subtree(p, j)
    <3>1. \A l \in Elementary(p, j) : l \in Elementary(p, 0)
      BY <1>2 DEF Elementary
    <3>2. \A l \in Elementary(p, j) : \A u \in Out : Tells(p, Subtree(p, l), l, u, w[l][u])
      BY <3>1, WalksTell DEF w
    <3>3. Tells(p, Descendants(p, j), j + 1, out, WalkChildren(p, w, j, out))
      BY <1>2, <3>2, TellsChildren
    <3>4. Grows(out, WalkChildren(p, w, j, out), Descendants(p, j))
      BY <3>3 DEF Tells
    <3>5. t[2] \in Descendants(p, j)
      BY <3>4, NewIsIn
    <3> QED
      BY <3>5 DEF Subtree
  <2> DEFINE c == Lineage(p, t[2])
  <2>3. c[d] = p[j] /\ \A q \in Out : ToElement(c, d, q) = WalkElement(c, Walks(c), d, q)
    BY <1>1, <2>2, LineageNode
  <2> HIDE DEF c, d, Out
  <2>4. \A q \in Out : ToElement(c, d, q) = ToChildren(c, d, q)
    BY <1>9, <2>3 DEF WalkElement, ToChildren
  <2> QED
    BY <2>1, <2>4 DEF AsChildren, AsElement, c
<1> HIDE DEF Good
<1>10. Good(WalkElement(p, w, j, out))
  BY <1>3, <1>4, <1>5, <1>7, <1>8, <1>9 DEF WalkElement
<1> QED
  BY <1>10 DEF Good, w, d

(* Every element, from the last to the first.                                *)
LEMMA WalksAlone ==
    ASSUME NEW p, WellFormed(p)
    PROVE  \A j \in Elementary(p, 0) : \A o \in Out : \A t \in New(o, Walks(p)[j][o]) :
              AsElement(p, p[j].depth, o.depth, t)
<1> DEFINE N == Len(p)
           w == Walks(p)
           Good(j) == \A o \in Out : \A t \in New(o, w[j][o]) : AsElement(p, p[j].depth, o.depth, t)
           T == {n \in Nat : \A j \in Elementary(p, 0) : j > N - n => Good(j)}
<1>1. p \in Seq(Node) /\ N \in Nat /\ DOMAIN p = 1..N
  BY NodeFacts DEF WellFormed
<1>2. \A j \in 1..N : \A o \in Out : w[j][o] = WalkElement(p, w, j, o)
  BY <1>1, WalksDef
<1>3. \A j \in Elementary(p, 0) : j \in 1..N /\ p[j].tag # "word"
  BY DEF Elementary
<1> HIDE DEF w
<1>4. 0 \in T
  BY <1>1, <1>3
<1>5. ASSUME NEW n \in Nat, n \in T PROVE n + 1 \in T
  <2> SUFFICES ASSUME NEW j \in Elementary(p, 0), j > N - (n + 1) PROVE Good(j)
    OBVIOUS
  <2>1. ASSUME NEW k \in Elementary(p, j) PROVE Good(k)
    <3>1. k \in Elementary(p, 0) /\ k > N - n
      BY <1>1, <1>3 DEF Elementary
    <3> QED
      BY <1>5, <3>1
  <2>2. ASSUME NEW o \in Out PROVE \A t \in New(o, w[j][o]) : AsElement(p, p[j].depth, o.depth, t)
    <3>1. \A t \in New(o, WalkElement(p, w, j, o)) : AsElement(p, p[j].depth, o.depth, t)
      BY <2>1, AloneElement DEF w
    <3> QED
      BY <1>2, <1>3, <3>1
  <2> QED
    BY <2>2
<1> HIDE DEF T, Good
<1>6. \A n \in Nat : n \in T
  BY <1>4, <1>5, Induction
<1>7. ASSUME NEW j \in Elementary(p, 0) PROVE Good(j)
  <2>1. j > N - N
    BY <1>1, <1>3
  <2> QED
    BY <1>1, <1>6, <2>1 DEF T
<1> QED
  BY <1>7 DEF Good, w

(* Items are indented as ItemsIndented says.                                 *)
LEMMA ItemsIndentedOn ==
    ASSUME NEW p, WellFormed(p), NEW n \in DOMAIN DomToMarkdown(p)
    PROVE  LET md == DomToMarkdown(p)
               item == md[n][2]
               lists == Ancestors(p, item) \cap Tagged(p, {"ul", "ol"})
               alone == DomToMarkdown(Lineage(p, item))
           IN  md[n][1] = "item" =>
                  /\ alone[Len(alone)] = <<"item", p[item].depth, md[n][3]>>
                  /\ (\A k \in lists : ~DirectlyIn(p, k, {"ol"})) =>
                        md[n][3] = IF lists = {} THEN 0 ELSE Cardinality(lists) - 1
<1> DEFINE r == WalkFrom(p, 0)
           t == r.md[n]
           x == t[2]
           lists == Ancestors(p, x) \cap Tagged(p, {"ul", "ol"})
<1>1. r \in Out /\ Tells(p, 1..Len(p), 1, Nothing, r) /\ DomToMarkdown(p) = r.md
  BY PageTells DEF DomToMarkdown
<1>2. t \in New(Nothing, r)
  BY <1>1, TextShown
<1> SUFFICES ASSUME t[1] = "item"
             PROVE  LET alone == DomToMarkdown(Lineage(p, x)) IN
                    /\ alone[Len(alone)] = <<"item", p[x].depth, t[3]>>
                    /\ (\A k \in lists : ~DirectlyIn(p, k, {"ol"})) =>
                          t[3] = IF lists = {} THEN 0 ELSE Cardinality(lists) - 1
  BY <1>1
<1>3. /\ p \in Seq(Node) /\ 0 \in 0..Len(p) /\ DepthOf(p, 0) = 0
      /\ r = WalkChildren(p, Walks(p), 0, Nothing)
  BY NodeFacts DEF WellFormed, DepthOf, WalkFrom
<1> HIDE DEF r, Out
<1>4. Nothing \in Out /\ Nothing.depth = 0
  BY NothingFacts
<1>5. \A s \in New(Nothing, r) : AsChildren(p, 0, 0, s)
  BY <1>3, <1>4, WalksAlone, AloneChildren
<1> HIDE DEF t
<1>6. Ends(p, t, ToChildren(Lineage(p, x), 0, Nothing))
  BY <1>2, <1>4, <1>5 DEF AsChildren
<1> DEFINE alone == DomToMarkdown(Lineage(p, x))
<1>7. alone[Len(alone)] = <<"item", p[x].depth, t[3]>>
  BY <1>6 DEF DomToMarkdown, WalkFrom, Ends, ToChildren
<1>8. RightItem(p, 1, 0, x, t[3])
  BY <1>1, <1>2, <1>4 DEF Tells, Right
<1>9. Lists(p, 1, x) = lists
  <2>1. \A a \in Ancestors(p, x) : a >= 1
    BY AncestorFacts
  <2> QED
    BY <2>1 DEF Lists, Since
<1>10. Level(0 + Cardinality(lists)) = IF lists = {} THEN 0 ELSE Cardinality(lists) - 1
  <2>1. IsFiniteSet(lists) /\ Cardinality(lists) \in Nat
    BY <1>9, ListsFinite
  <2>2. lists = {} <=> Cardinality(lists) = 0
    BY <2>1, FS_EmptySet
  <2> HIDE DEF lists
  <2> QED
    BY <2>1, <2>2 DEF Level
<1> QED
  BY <1>7, <1>8, <1>9, <1>10 DEF RightItem

-----------------------------------------------------------------------------
(* The inductive invariant.  The sections so far are those that each format  *)
(* would have alone; the body is only gone if one of them was the section it *)
(* moves into; and a page was parsed exactly if some format needs its tree,  *)
(* while formats that nobody knows do not come so far.  The page that the    *)
(* parser builds is a tree in document order.                                *)
Wholes == [n \in DOMAIN formats |-> Render(formats[n], Body)]

Rendered ==
    /\ sections = [n \in 1..Len(sections) |-> Wholes[n]]
    /\ stage \in {"request", "fetch"} => Len(sections) = 0

BodyKept == ~body_opt => \E n \in 1..Len(sections) : Moves(n)

Parsed ==
    /\ stage = "render" => (doc <=> \E n \in DOMAIN formats : NeedsDom(formats[n]))
    /\ DomParsed

OnlyKnown ==
    stage \in {"fetch", "render"} => \A n \in DOMAIN formats : formats[n] \in Known \cup {"text"}

IInv == TypeOK /\ WellFormed(page) /\ OnlyKnown /\ Rendered /\ BodyKept /\ Parsed

-----------------------------------------------------------------------------
(* The first n + 1 values of a function are the first n and the next.        *)
LEMMA AppendNext ==
    ASSUME NEW n \in Nat, NEW f
    PROVE  LET s == [k \in 1..n |-> f[k]]
               t == Append(s, f[n + 1])
           IN  Len(s) = n /\ Len(t) = n + 1 /\ t = [k \in 1..(n + 1) |-> f[k]]
<1> DEFINE s == [k \in 1..n |-> f[k]]
           t == Append(s, f[n + 1])
           V == {f[k] : k \in 1..(n + 1)}
<1>1. \A k \in 1..n : f[k] \in V
  OBVIOUS
<1>2. f[n + 1] \in V
  OBVIOUS
<1> HIDE DEF V
<1>3. s \in Seq(V) /\ Len(s) = n
  BY <1>1
<1>4. s \in Seq(V) /\ \A k \in 1..n : s[k] = f[k]
  BY <1>3
<1> HIDE DEF s
<1>5. /\ t \in Seq(V) /\ Len(t) = n + 1
      /\ \A k \in 1..n : t[k] = s[k]
      /\ t[n + 1] = f[n + 1]
  BY <1>2, <1>3, AppendProperties
<1> HIDE DEF t
<1>6. DOMAIN t = 1..(n + 1) /\ t = [k \in 1..(n + 1) |-> t[k]]
  BY <1>5
<1>7. \A k \in 1..(n + 1) : t[k] = f[k]
  BY <1>4, <1>5
<1>8. t = [k \in 1..(n + 1) |-> f[k]]
  BY <1>6, <1>7
<1> QED
  BY <1>3, <1>5, <1>8 DEF s, t

(* Formats are a sequence, whether a client sent them or the tool has them   *)
(* fixed, and there are no more sections than formats.                       *)
LEMMA FormatFacts ==
    ASSUME TypeOK
    PROVE  /\ DOMAIN formats = 1..Len(formats)
           /\ Len(formats) \in Nat /\ Len(sections) \in Nat
           /\ Len(sections) <= Len(formats)
<1>1. CASE formats \in Formats
  <2>1. formats \in Seq(STRING)
    BY <1>1, ScrapeAssumption
  <2> QED
    BY <2>1 DEF TypeOK
<1>2. CASE formats = <<>>
  BY <1>2 DEF TypeOK
<1>3. CASE formats = <<"markdown">> \/ formats = <<"text">>
  <2>1. formats = <<formats[1]>>
    BY <1>3
  <2>2. DOMAIN formats = 1..1 /\ Len(formats) = 1
    BY <2>1
  <2>3. Len(sections) \in 0..1
    BY <2>2 DEF TypeOK
  <2>4. 1 \in Nat /\ \A n \in 0..1 : n \in Nat /\ n <= 1
    OBVIOUS
  <2> QED
    BY <2>2, <2>3, <2>4, Zenon
<1> QED
  BY <1>1, <1>2, <1>3 DEF TypeOK

(* A section that is written without the body is one that does not show it.  *)
LEMMA SectionIsWhole ==
    ASSUME TypeOK, BodyKept, Len(sections) + 1 <= Len(formats)
    PROVE  LET n == Len(sections) + 1
           IN  Render(formats[n], IF body_opt THEN Body ELSE <<>>) = Render(formats[n], Body)
<1> DEFINE n == Len(sections) + 1
<1>1. CASE body_opt
  BY <1>1
<1>2. CASE ~body_opt
  <2>1. PICK m \in 1..Len(sections) : Moves(m)
    BY <1>2 DEF BodyKept
  <2>2. n \in DOMAIN formats /\ ~(m >= n)
    BY FormatFacts
  <2>3. n \notin Raws
    BY <2>1, <2>2, FormatFacts DEF Moves, Raws
  <2>4. ~IsRaw(formats[n]) /\ ~(only_main /\ formats[n] = "html")
    BY <2>1, <2>2, <2>3 DEF Moves, Raws
  <2>5. ~IsRaw(formats[n]) /\ formats[n] # "html"
    BY <2>4 DEF IsRaw
  <2>6. \A b : Render(formats[n], b) = Render(formats[n], Body)
    BY <2>5 DEF Render
  <2> QED
    BY <2>6
<1> QED
  BY <1>1, <1>2

-----------------------------------------------------------------------------
(* The invariant holds before the request.                                   *)
LEMMA InitHolds == Init => IInv
<1> SUFFICES ASSUME Init PROVE IInv
  OBVIOUS
<1>1. formats = <<>> /\ sections = <<>> /\ Len(sections) = 0 /\ Len(formats) = 0
  BY DEF Init
<1>2. TypeOK
  <2>1. page \in Seq(Node) /\ Len(sections) \in 0..Len(formats)
    BY <1>1 DEF Init
  <2>2. formats \in Formats \cup {<<>>, <<"markdown">>, <<"text">>}
    BY <1>1
  <2> QED
    BY <2>1, <2>2 DEF Init, TypeOK
<1>3. Rendered
  <2>1. 1..Len(sections) = {}
    BY <1>1
  <2>2. [n \in 1..Len(sections) |-> Wholes[n]] = <<>>
    BY <2>1
  <2> QED
    BY <1>1, <2>2 DEF Rendered
<1>4. WellFormed(page)
  <2>1. page = <<>> /\ 1..(Len(page) - 1) = {}
    BY DEF Init
  <2> QED
    BY <2>1 DEF WellFormed
<1> QED
  BY <1>2, <1>3, <1>4 DEF Init, IInv, OnlyKnown, BodyKept, Parsed, DomParsed

(* Until rendering starts there are no sections, and the body is there.      *)
LEMMA NothingRendered ==
    ASSUME IInv, stage \in {"request", "fetch"}
    PROVE  sections = <<>> /\ body_opt /\ Len(sections) = 0 /\ 1..Len(sections) = {}
<1>1. Len(sections) = 0 /\ sections = [n \in 1..Len(sections) |-> Wholes[n]]
  BY DEF IInv, Rendered
<1>2. 1..Len(sections) = {}
  BY <1>1
<1>3. body_opt
  BY <1>2 DEF IInv, BodyKept
<1>4. [n \in 1..Len(sections) |-> Wholes[n]] = <<>>
  BY <1>2
<1> QED
  BY <1>1, <1>2, <1>3, <1>4

(* A request that is accepted has formats that are known, and no sections.   *)
LEMMA AskStep == IInv /\ (Scrape \/ Fetch) => IInv'
<1> SUFFICES ASSUME IInv, Scrape \/ Fetch PROVE IInv'
  OBVIOUS
<1>1. /\ stage = "request" /\ TypeOK /\ DomParsed
      /\ formats' \in Formats \cup {<<"markdown">>, <<"text">>} /\ only_main' \in BOOLEAN
      /\ UNCHANGED <<page, doc, body_opt, sections>>
      /\ \/ stage' = "fetch" /\ reply' = reply
         \/ stage' = "end" /\ reply' = "refused"
  BY DEF IInv, Parsed, Scrape, Fetch
<1>2. sections' = <<>> /\ body_opt' /\ Len(sections') = 0 /\ 1..Len(sections') = {}
  BY <1>1, NothingRendered
<1>3. Len(formats') \in Nat
  <2>1. CASE formats' \in Formats
    BY <2>1, ScrapeAssumption
  <2>2. CASE formats' = <<"markdown">> \/ formats' = <<"text">>
    BY <2>2
  <2> QED
    BY <1>1, <2>1, <2>2
<1>4. TypeOK'
  BY <1>1, <1>2, <1>3 DEF TypeOK
<1>5. Rendered'
  <2>1. [n \in 1..Len(sections') |-> Wholes'[n]] = <<>>
    BY <1>2
  <2> QED
    BY <1>2, <2>1 DEF Rendered
<1>6. BodyKept' /\ Parsed'
  BY <1>1, <1>2 DEF BodyKept, Parsed, DomParsed
<1>7. OnlyKnown'
  <2>1. CASE Scrape
    BY <2>1 DEF Scrape, OnlyKnown
  <2>2. CASE Fetch
    <3>1. \A n \in DOMAIN formats' : formats'[n] \in {"markdown", "text"}
      BY <2>2 DEF Fetch
    <3> QED
      BY <3>1 DEF OnlyKnown, Known
  <2> QED
    BY <2>1, <2>2
<1>8. WellFormed(page)'
  BY <1>1 DEF IInv
<1> QED
  BY <1>4, <1>5, <1>6, <1>7, <1>8 DEF IInv

(* An element goes on if the next node is one deeper than it, and no word    *)
(* is above: what is right above is the last node.                           *)
LEMMA NoWordAbove ==
    ASSUME page \in Seq(Node), page # <<>>, NEW kind, NEW depth \in Nat,
           depth = page[Len(page)].depth + 1, Fits(kind, depth)
    PROVE  page[Len(page)].tag # "word"
<1> DEFINE n == Len(page)
           AtEnd(d, i) == page[i].depth = d /\ \A k \in (i + 1)..Len(page) : page[k].depth > d
           last(d) == CHOOSE i \in DOMAIN page : AtEnd(d, i)
           d0 == page[n].depth
<1>1. n \in Nat /\ n \in 1..n /\ DOMAIN page = 1..n
  OBVIOUS
<1>2. d0 \in Nat /\ d0 >= 1
  <2>1. page[n] \in Node
    BY <1>1
  <2>2. page[n].depth \in Nat \ {0}
    BY <2>1 DEF Node
  <2> QED
    BY <2>2
<1>3. Above(depth) = [d \in 1..(depth - 1) |-> page[last(d)].tag]
  BY DEF Above
<1>4. AtEnd(d0, n)
  BY <1>1
<1>5. ASSUME NEW i \in 1..n, AtEnd(d0, i) PROVE i = n
  <2>1. CASE i < n
    <3>1. n \in (i + 1)..Len(page)
      BY <1>1, <2>1
    <3>2. page[n].depth > d0
      BY <1>5, <3>1
    <3> HIDE DEF n
    <3> QED
      BY <1>2, <3>2
  <2> HIDE DEF n
  <2> QED
    BY <1>1, <2>1
<1> HIDE DEF AtEnd
<1>6. last(d0) = n
  BY <1>1, <1>4, <1>5
<1>7. d0 \in 1..(depth - 1)
  BY <1>2
<1> HIDE DEF last, d0
<1>8. DOMAIN Above(depth) = 1..(depth - 1) /\ Above(depth)[d0] = page[n].tag
  BY <1>3, <1>6, <1>7
<1>9. "word" \notin {Above(depth)[d] : d \in DOMAIN Above(depth)}
  BY DEF Fits
<1> QED
  BY <1>7, <1>8, <1>9

(* A page that grows is a page.                                              *)
LEMMA ArriveStep ==
    ASSUME IInv, NEW kind \in Kinds, Arrive(kind)
    PROVE  IInv'
<1>1. /\ stage = "fetch" /\ TypeOK /\ Parsed
      /\ UNCHANGED <<stage, formats, only_main, doc, body_opt, sections, reply>>
  BY DEF IInv, Arrive, request
<1>2. page \in Seq(Node)
  BY <1>1 DEF TypeOK
<1>3. PICK depth \in 1..(IF page = <<>> THEN 1 ELSE page[Len(page)].depth + 1) :
         /\ Fits(kind, depth)
         /\ page' = Append(page, [tag |-> kind.tag, href |-> kind.href,
                                  role |-> kind.role, depth |-> depth])
  BY DEF Arrive
<1>4. depth \in Nat \ {0}
  <2>1. CASE page = <<>>
    BY <1>3, <2>1
  <2>2. CASE page # <<>>
    <3>1. page[Len(page)] \in Node
      BY <1>2, <2>2
    <3>2. page[Len(page)].depth \in Nat
      BY <3>1 DEF Node
    <3> QED
      BY <1>3, <2>2, <3>2
  <2> QED
    BY <2>1, <2>2
<1>5. kind \in Kind
  BY ScrapeAssumption
<1>6. [tag |-> kind.tag, href |-> kind.href, role |-> kind.role, depth |-> depth] \in Node
  BY <1>4, <1>5 DEF Kind, Node
<1>7. page' \in Seq(Node)
  BY <1>2, <1>3, <1>6
<1>8. TypeOK'
  BY <1>1, <1>7 DEF TypeOK
<1>9. sections' = <<>> /\ body_opt' /\ Len(sections') = 0 /\ 1..Len(sections') = {}
  BY <1>1, NothingRendered
<1>10. Rendered'
  <2>1. [n \in 1..Len(sections') |-> Wholes'[n]] = <<>>
    BY <1>9
  <2> QED
    BY <1>9, <2>1 DEF Rendered
<1>11. BodyKept' /\ Parsed' /\ OnlyKnown'
  BY <1>1, <1>9 DEF IInv, OnlyKnown, BodyKept, Parsed, DomParsed
<1>12. WellFormed(page)'
  <2> DEFINE node == [tag |-> kind.tag, href |-> kind.href, role |-> kind.role, depth |-> depth]
             n == Len(page)
  <2>1. node \in Node /\ node.depth = depth
    BY <1>6
  <2> HIDE DEF node
  <2>2. /\ page' \in Seq(Node) /\ Len(page') = n + 1 /\ n \in Nat
        /\ \A k \in 1..n : page'[k] = page[k]
        /\ page'[n + 1] = node
    BY <1>2, <1>3, <2>1 DEF node
  <2>3. WellFormed(page)
    BY DEF IInv
  <2>4. page = <<>> => n = 0 /\ depth = 1
    BY <1>3
  <2>5. page # <<>> =>
           /\ n \in 1..n /\ page[n].depth \in Nat /\ depth <= page[n].depth + 1
           /\ page[n].tag = "word" => depth <= page[n].depth
    <3> SUFFICES ASSUME page # <<>> PROVE
           /\ n \in 1..n /\ page[n].depth \in Nat /\ depth <= page[n].depth + 1
           /\ page[n].tag = "word" => depth <= page[n].depth
      OBVIOUS
    <3>1. n \in 1..n /\ page[n] \in Node
      BY <1>2
    <3>2. page[n].depth \in Nat
      BY <3>1 DEF Node
    <3>3. depth <= page[n].depth + 1
      BY <1>3, <3>2
    <3>4. depth = page[n].depth + 1 => page[n].tag # "word"
      BY <1>2, <1>3, <1>4, NoWordAbove
    <3> QED
      BY <1>4, <3>1, <3>2, <3>3, <3>4
  <2>6. page' # <<>> /\ page'[1].depth = 1
    <3>1. CASE page = <<>>
      <4>1. n + 1 = 1 /\ depth = 1
        BY <2>4, <3>1
      <4>2. page'[1] = node
        BY <2>2, <4>1
      <4>3. Len(page') = 1
        BY <2>2, <4>1
      <4>4. page'[1].depth = 1
        BY <2>1, <4>1, <4>2
      <4>5. Len(page') # Len(<<>>)
        BY <4>3
      <4>6. page' # <<>>
        BY <4>5
      <4> QED
        BY <4>4, <4>6
    <3> HIDE DEF n
    <3>2. CASE page # <<>>
      <4>1. 1 \in 1..n /\ page[1].depth = 1
        BY <2>2, <2>3, <2>5, <3>2 DEF WellFormed
      <4> QED
        BY <2>2, <4>1
    <3> QED
      BY <3>1, <3>2
  <2>7. ASSUME NEW k \in 1..n
        PROVE  page'[k + 1].depth <= page'[k].depth + (IF page'[k].tag = "word" THEN 0 ELSE 1)
    <3>1. page # <<>>
      BY <2>4
    <3>2. CASE k = n
      BY <2>1, <2>2, <2>5, <3>1, <3>2, <1>4
    <3>3. CASE k # n
      <4>1. k \in 1..(n - 1) /\ k + 1 \in 1..n
        BY <2>2, <3>3
      <4>2. page[k + 1].depth <= page[k].depth + (IF page[k].tag = "word" THEN 0 ELSE 1)
        BY <2>3, <4>1 DEF WellFormed
      <4> QED
        BY <2>2, <4>1, <4>2
    <3> QED
      BY <3>2, <3>3
  <2>8. (n + 1) - 1 = n
    BY <2>2
  <2> HIDE DEF n
  <2> QED
    BY <2>2, <2>6, <2>7, <2>8 DEF WellFormed
<1> QED
  BY <1>8, <1>10, <1>11, <1>12 DEF IInv

(* The steps that change neither the sections nor what they are made from.   *)
LEMMA OtherStep == IInv /\ (Fetched \/ FetchFails \/ Joined \/ RenderFails) => IInv'
<1> SUFFICES ASSUME IInv, Fetched \/ FetchFails \/ Joined \/ RenderFails PROVE IInv'
  OBVIOUS
<1>1. /\ TypeOK /\ Rendered /\ BodyKept /\ Parsed
      /\ UNCHANGED <<formats, only_main, page, body_opt, sections>>
      /\ \/ /\ stage' = "render" /\ reply' = reply
            /\ doc' = \E n \in DOMAIN formats : NeedsDom(formats[n])
         \/ stage' = "end" /\ reply' \in {"failed", "text"} /\ doc' = doc
  BY DEF IInv, Fetched, FetchFails, Joined, RenderFails, request
<1>2. TypeOK'
  BY <1>1 DEF TypeOK
<1>3. Rendered'
  <2>1. Wholes' = Wholes
    BY <1>1 DEF Wholes, Render, IsRaw
  <2> HIDE DEF Wholes
  <2>2. sections = [n \in 1..Len(sections) |-> Wholes[n]]
    BY <1>1 DEF Rendered
  <2>3. sections' = [n \in 1..Len(sections') |-> Wholes'[n]]
    BY <1>1, <2>1, <2>2
  <2>4. stage' \notin {"request", "fetch"}
    BY <1>1
  <2> QED
    BY <2>3, <2>4 DEF Rendered
<1>4. BodyKept'
  BY <1>1 DEF BodyKept, Moves, Raws, IsRaw
<1>5. Parsed' /\ OnlyKnown'
  <2>1. Parsed'
    BY <1>1 DEF Parsed, DomParsed, NeedsDom
  <2>2. OnlyKnown'
    BY <1>1 DEF IInv, OnlyKnown, Fetched, FetchFails, Joined, RenderFails
  <2> QED
    BY <2>1, <2>2
<1>6. WellFormed(page)'
  BY <1>1 DEF IInv
<1> QED
  BY <1>2, <1>3, <1>4, <1>5, <1>6 DEF IInv

(* A section is the one its format would have alone.                         *)
LEMMA SectionStep == IInv /\ Section => IInv'
<1> SUFFICES ASSUME IInv, Section PROVE IInv'
  OBVIOUS
<1> DEFINE n == Len(sections)
<1>1. /\ TypeOK /\ Rendered /\ BodyKept /\ Parsed /\ stage = "render"
      /\ UNCHANGED <<formats, only_main, page, doc>>
      /\ n \in Nat /\ n + 1 <= Len(formats) /\ n + 1 \in DOMAIN formats
      /\ DOMAIN formats = 1..Len(formats) /\ Len(formats) \in Nat
  BY FormatFacts DEF IInv, Section, request
<1>2. ReadsDom(formats[n + 1]) => doc
  <2>1. formats[n + 1] \in Known \cup {"text"}
    BY <1>1 DEF IInv, OnlyKnown
  <2>2. ReadsDom(formats[n + 1]) => NeedsDom(formats[n + 1])
    BY <2>1 DEF Known, ReadsDom, NeedsDom, IsRaw
  <2> QED
    BY <1>1, <2>2 DEF Parsed
<1>3. /\ sections' = Append(sections, Render(formats[n + 1], IF body_opt THEN Body ELSE <<>>))
      /\ body_opt' = (body_opt /\ ~Moves(n + 1))
      /\ UNCHANGED <<stage, reply>>
  BY <1>2 DEF Section
<1>4. sections' = Append(sections, Wholes[n + 1])
  <2>1. Wholes[n + 1] = Render(formats[n + 1], Body)
    BY <1>1 DEF Wholes
  <2> QED
    BY <1>1, <1>3, <2>1, SectionIsWhole
<1>5. sections = [k \in 1..n |-> Wholes[k]]
  BY <1>1 DEF Rendered
<1>6. Wholes' = Wholes
  BY <1>1 DEF Wholes, Render, IsRaw
<1> HIDE DEF Wholes, n
<1>7. Len(sections') = n + 1 /\ sections' = [k \in 1..(n + 1) |-> Wholes[k]]
  BY <1>1, <1>4, <1>5, AppendNext
<1>8. Rendered'
  <2>1. sections' = [k \in 1..Len(sections') |-> Wholes'[k]]
    BY <1>6, <1>7
  <2>2. stage' = "render"
    BY <1>1, <1>3
  <2> QED
    BY <2>1, <2>2 DEF Rendered
<1>9. TypeOK'
  <2>1. Len(sections') \in 0..Len(formats)
    BY <1>1, <1>7
  <2>2. body_opt' \in BOOLEAN
    BY <1>3
  <2> QED
    BY <1>1, <1>3, <2>1, <2>2 DEF TypeOK
<1>10. BodyKept'
  <2>1. \A m \in 1..(n + 1) : Moves(m)' <=> Moves(m)
    BY <1>1 DEF Moves, Raws, IsRaw
  <2>2. ASSUME ~body_opt' PROVE \E m \in 1..(n + 1) : Moves(m)
    <3>1. CASE ~body_opt
      BY <1>1, <3>1 DEF BodyKept, n
    <3>2. CASE Moves(n + 1)
      BY <1>1, <3>2
    <3> QED
      BY <1>3, <2>2, <3>1, <3>2
  <2> QED
    BY <1>7, <2>1, <2>2 DEF BodyKept
<1>11. Parsed' /\ OnlyKnown'
  <2>1. Parsed'
    BY <1>1, <1>3 DEF Parsed, DomParsed, NeedsDom
  <2>2. OnlyKnown'
    BY <1>1, <1>3 DEF IInv, OnlyKnown
  <2> QED
    BY <2>1, <2>2
<1>12. WellFormed(page)'
  BY <1>1 DEF IInv
<1> QED
  BY <1>8, <1>9, <1>10, <1>11, <1>12 DEF IInv

-----------------------------------------------------------------------------
(* No step breaks the invariant.                                             *)
LEMMA NextHolds == IInv /\ [Next]_vars => IInv'
<1> SUFFICES ASSUME IInv, [Next]_vars PROVE IInv'
  OBVIOUS
<1>1. CASE UNCHANGED vars
  <2>1. Wholes' = Wholes
    BY <1>1 DEF vars, Wholes, Render, IsRaw
  <2>2. Rendered'
    BY <1>1, <2>1 DEF vars, IInv, Rendered
  <2>3. TypeOK' /\ OnlyKnown'
    BY <1>1 DEF vars, IInv, TypeOK, OnlyKnown
  <2>4. BodyKept'
    BY <1>1 DEF vars, IInv, BodyKept, Moves, Raws, IsRaw
  <2>5. Parsed'
    BY <1>1 DEF vars, IInv, Parsed, DomParsed, NeedsDom
  <2>6. WellFormed(page)'
    BY <1>1 DEF vars, IInv
  <2> QED
    BY <2>2, <2>3, <2>4, <2>5, <2>6 DEF IInv
<1>2. CASE Next
  BY <1>2, AskStep, ArriveStep, OtherStep, SectionStep DEF Next
<1> QED
  BY <1>1, <1>2

(* What has been rendered is whole, the body is gone only into its last      *)
(* section, and the page is parsed exactly if that is needed, at every step. *)
THEOREM Invariance == Spec => []IInv
<1>1. Init => IInv
  BY InitHolds
<1>2. IInv /\ [Next]_vars => IInv'
  BY NextHolds
<1> QED
  BY <1>1, <1>2, PTL DEF Spec

(* Every variable of the scraping tools stays in its type.                   *)
THEOREM TypeCorrect == Spec => []TypeOK
<1>1. IInv => TypeOK
  BY DEF IInv
<1> QED
  BY <1>1, Invariance, PTL

(* Every section is what its format gives alone: no list of formats, in any  *)
(* order, makes one miss the body that another was given.                    *)
THEOREM SectionsAsAlone == Spec => []EachAsAlone
<1>1. IInv => EachAsAlone
  <2> SUFFICES ASSUME IInv PROVE EachAsAlone
    OBVIOUS
  <2>1. /\ sections = [n \in 1..Len(sections) |-> Wholes[n]]
        /\ 1..Len(sections) \subseteq DOMAIN formats
    BY FormatFacts DEF IInv, Rendered
  <2>2. \A n \in DOMAIN formats : Wholes[n] = Render(formats[n], Body)
    BY DEF Wholes
  <2>3. DOMAIN sections = 1..Len(sections)
    BY <2>1
  <2>4. \A n \in DOMAIN sections : sections[n] = Wholes[n]
    BY <2>1, <2>3
  <2> QED
    BY <2>1, <2>2, <2>3, <2>4 DEF EachAsAlone
<1> QED
  BY <1>1, Invariance, PTL

(* expect("dom parsed") never fails.                                         *)
THEOREM TreeIsThere == Spec => []DomParsed
<1>1. IInv => DomParsed
  BY DEF IInv, Parsed
<1> QED
  BY <1>1, Invariance, PTL

(* The two walkers agree on every page that the parser can build, however    *)
(* long and however deep.                                                    *)
THEOREM MarkdownAgrees == Spec => []WalkersAgree
<1>1. IInv => WalkersAgree
  <2> SUFFICES ASSUME IInv PROVE WalkersAgree
    OBVIOUS
  <2>1. WellFormed(page)
    BY DEF IInv
  <2> QED
    BY <2>1, WalkersAgreeOn DEF WalkersAgree
<1> QED
  BY <1>1, Invariance, PTL

(* Every item of every such page is indented as its own lists want it.       *)
THEOREM DepthIsRight == Spec => []ItemsIndented
<1>1. IInv => ItemsIndented
  <2> SUFFICES ASSUME IInv PROVE ItemsIndented
    OBVIOUS
  <2>1. WellFormed(page)
    BY DEF IInv
  <2> QED
    BY <2>1, ItemsIndentedOn DEF ItemsIndented
<1> QED
  BY <1>1, Invariance, PTL
=============================================================================
