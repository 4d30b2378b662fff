--------------------------- MODULE Compaction_proofs ---------------------------
(* Why a session stays whole in its window: proofs about Compaction.         *)
(*                                                                           *)
(* Three invariants, each resting on the one before.                         *)
(*   LineInv     the path is a line of turns: it starts with a prompt, ends  *)
(*               with one or with the reply the request continues, and has a *)
(*               prompt between two replies.                                 *)
(*   CoverInv    every summary folds all that is before it, the part of a    *)
(*               reply does not fill the tail that is kept, and so the       *)
(*               prompt it answers is behind every cut; what is sent holds   *)
(*               the newest summary and all behind it.                       *)
(*   MeasureInv  a measure over the budget is of the conversation in memory: *)
(*               no row has one, and what replaces the conversation in       *)
(*               memory takes its measure from the rows.                     *)
(*                                                                           *)
(* Steps are compared by operators on rows and paths (NewestIn, UnderIn,     *)
(* FoldedIn...), so that one lemma speaks of the rows before and after: rows *)
(* only grow, and none changes its kind (Grown).                             *)
EXTENDS Compaction, FiniteSetTheorems, WellFoundedInduction, TLAPS

-----------------------------------------------------------------------------
(* Numbers and sequences                                                    *)

\* A set of natural numbers has a least one.
LEMMA LeastIsIn ==
    ASSUME NEW S \in SUBSET Nat, S # {}
    PROVE  \E x \in S : \A y \in S : x <= y
<1>1. PICK x \in S : \A y \in S : ~(<<y, x>> \in OpToRel(<, Nat))
  BY NatLessThanWellFounded, WFMin
<1>2. \A y \in S : ~(y < x)
  BY <1>1 DEF OpToRel
<1> QED BY <1>2

\* What Latest returns: the last place, or 0 of none.
LEMMA LatestIs ==
    ASSUME NEW n \in Nat, NEW S \in SUBSET (1..n)
    PROVE  /\ Latest(S) \in 0..n
           /\ S = {} => Latest(S) = 0
           /\ S # {} => Latest(S) \in S
           /\ \A j \in S : j <= Latest(S)
           /\ Latest(S) # 0 => Latest(S) \in S
<1>1. CASE S = {}
  BY <1>1 DEF Latest
<1>2. CASE S # {}
  <2> DEFINE T == {k \in Nat : \A j \in S : j <= k}
  <2>1. n \in T /\ T \in SUBSET Nat
    OBVIOUS
  <2>2. PICK k \in T : \A l \in T : k <= l
    <3> HIDE DEF T
    <3> QED BY <2>1, LeastIsIn
  <2>3. k \in Nat /\ \A j \in S : j <= k
    BY <2>2
  <2>4. k \in S
    <3> SUFFICES ASSUME k \notin S PROVE FALSE
      OBVIOUS
    <3>0. \A j \in S : j \in 1..n /\ j # k
      OBVIOUS
    <3>1. \A j \in S : j \in Nat /\ j # 0 /\ j <= k - 1
      BY <2>3, <3>0
    <3>2. k - 1 \in Nat
      <4> PICK j \in S : j \in Nat /\ j # 0 /\ j <= k - 1
        BY <1>2, <3>1
      <4> QED BY <2>3
    <3>3. k - 1 \in T
      BY <3>1, <3>2
    <3> HIDE DEF T
    <3> QED BY <2>2, <2>3, <3>3
  <2>5. \E i \in S : \A j \in S : j <= i
    BY <2>3, <2>4
  <2>6. Latest(S) = CHOOSE i \in S : \A j \in S : j <= i
    BY <1>2 DEF Latest
  <2>7. Latest(S) \in S /\ \A j \in S : j <= Latest(S)
    BY <2>5, <2>6
  <2>8. Latest(S) \in 1..n
    BY <2>7
  <2> QED BY <1>2, <2>7, <2>8
<1> QED BY <1>1, <1>2

\* A piece of a sequence.
LEMMA PieceIs ==
    ASSUME NEW S, NEW q \in Seq(S), NEW m \in Nat \ {0}, NEW n \in Nat, n <= Len(q), m <= n + 1
    PROVE  /\ SubSeq(q, m, n) \in Seq(S) /\ Len(SubSeq(q, m, n)) = n - m + 1
           /\ \A i \in 1..n - m + 1 : SubSeq(q, m, n)[i] = q[i + m - 1]
OBVIOUS

\* A sequence with one element more, with another in its place, and two joined.
LEMMA AppendIs ==
    ASSUME NEW T, NEW q \in Seq(T), NEW e \in T
    PROVE  /\ Append(q, e) \in Seq(T) /\ Len(Append(q, e)) = Len(q) + 1
           /\ \A k \in 1..Len(q) + 1 :
                 Append(q, e)[k] = IF k = Len(q) + 1 THEN e ELSE q[k]
OBVIOUS

LEMMA ReplaceIs ==
    ASSUME NEW T, NEW q \in Seq(T), NEW n \in 1..Len(q), NEW e \in T
    PROVE  /\ [q EXCEPT ![n] = e] \in Seq(T) /\ Len([q EXCEPT ![n] = e]) = Len(q)
           /\ \A k \in 1..Len(q) : [q EXCEPT ![n] = e][k] = IF k = n THEN e ELSE q[k]
OBVIOUS

LEMMA JoinIs ==
    ASSUME NEW S, NEW a \in Seq(S), NEW b \in Seq(S)
    PROVE  /\ a \o b \in Seq(S) /\ Len(a \o b) = Len(a) + Len(b)
           /\ DOMAIN (a \o b) = 1..Len(a) + Len(b)
           /\ \A i \in 1..Len(a) + Len(b) :
                 (a \o b)[i] = IF i <= Len(a) THEN a[i] ELSE b[i - Len(a)]
<1>1. ASSUME NEW i \in 1..Len(a) + Len(b), i <= Len(a) PROVE (a \o b)[i] = a[i]
  BY <1>1
<1>2. ASSUME NEW i \in 1..Len(a) + Len(b), ~(i <= Len(a)) PROVE (a \o b)[i] = b[i - Len(a)]
  BY <1>2
<1> QED BY <1>1, <1>2

LEMMA WiderSeq ==
    ASSUME NEW S, NEW T, S \subseteq T, NEW q \in Seq(S)
    PROVE  q \in Seq(T)
OBVIOUS

-----------------------------------------------------------------------------
(* Folding                                                                  *)

\* A step from every value leads from the first value to an L-th.
LEMMA StepsExist ==
    ASSUME NEW V, NEW z \in V, NEW L \in Nat, NEW st \in [1..L -> [V -> V]]
    PROVE  \E f \in [0..L -> V] : f[0] = z /\ \A i \in 1..L : f[i] = st[i][f[i - 1]]
<1> DEFINE Stepped(n, f) == f[0] = z /\ \A i \in 1..n : f[i] = st[i][f[i - 1]]
           Bad == {n \in 0..L : ~ \E f \in [0..n -> V] : Stepped(n, f)}
<1>1. Bad = {}
  <2> SUFFICES ASSUME Bad # {} PROVE FALSE
    OBVIOUS
  <2>1. Bad \in SUBSET Nat
    OBVIOUS
  <2>2. PICK n \in Bad : \A y \in Bad : n <= y
    <3> HIDE DEF Bad
    <3> QED BY <2>1, LeastIsIn
  <2>3. n \in 0..L /\ ~ \E f \in [0..n -> V] : Stepped(n, f)
    BY <2>2
  <2>4. CASE n = 0
    <3> DEFINE f == [i \in 0..0 |-> z]
    <3>1. f \in [0..0 -> V] /\ Stepped(0, f)
      OBVIOUS
    <3> QED BY <3>1, <2>3, <2>4
  <2>5. CASE n # 0
    <3> DEFINE m == n - 1
    <3>1. m \in 0..L /\ n = m + 1 /\ m < n /\ n \in 1..L
      BY <2>3, <2>5
    <3>2. m \notin Bad
      <4> HIDE DEF Bad
      <4> QED BY <3>1, <2>2, <2>1
    <3>3. PICK f \in [0..m -> V] : Stepped(m, f)
      <4> HIDE DEF Stepped, m
      <4> QED BY <3>1, <3>2
    <3> HIDE DEF m
    <3>4. f[m] \in V
      BY <3>1
    <3> DEFINE v == st[n][f[m]]
               g == [i \in 0..n |-> IF i = n THEN v ELSE f[i]]
    <3>5. v \in V
      BY <3>1, <3>4
    <3>6. v = st[n][f[m]]
      OBVIOUS
    <3> HIDE DEF v
    <3>7. \A i \in 0..n : i # n => i \in 0..m
      BY <3>1
    <3>8. g \in [0..n -> V]
      BY <3>5, <3>7
    <3>9. g[n] = v /\ \A i \in 0..m : g[i] = f[i]
      BY <3>1
    <3> HIDE DEF g
    <3>10. g[0] = z
      BY <3>1, <3>3, <3>9
    <3>11. ASSUME NEW i \in 1..n PROVE g[i] = st[i][g[i - 1]]
      <4>1. CASE i = n
        <5>1. i - 1 = m /\ m \in 0..m
          BY <4>1, <3>1
        <5> QED BY <4>1, <5>1, <3>6, <3>9
      <4>2. CASE i # n
        <5>1. i \in 1..m /\ i \in 0..m /\ i - 1 \in 0..m
          BY <4>2, <3>1
        <5> QED BY <5>1, <3>3, <3>9
      <4> QED BY <4>1, <4>2
    <3>12. Stepped(n, g)
      BY <3>10, <3>11
    <3> QED BY <3>8, <3>12, <2>3
  <2> QED BY <2>4, <2>5
<1>2. L \in 0..L /\ L \notin Bad
  BY <1>1
<1>3. \E f \in [0..L -> V] : Stepped(L, f)
  BY <1>2
<1> QED BY <1>3

\* The same as a formula, for a set whose name is hidden; and for the numbers.
LEMMA StepsFrom ==
    ASSUME NEW V
    PROVE  \A z \in V, M \in Nat : \A u \in [1..M -> [V -> V]] :
              \E f \in [0..M -> V] : f[0] = z /\ \A i \in 1..M : f[i] = u[i][f[i - 1]]
<1> TAKE z \in V, M \in Nat
<1> TAKE u \in [1..M -> [V -> V]]
<1> QED BY StepsExist, SMTT(30)

LEMMA NatSteps ==
    \A z \in Nat, M \in Nat : \A u \in [1..M -> [Nat -> Nat]] :
       \E f \in [0..M -> Nat] : f[0] = z /\ \A i \in 1..M : f[i] = u[i][f[i - 1]]
<1> DEFINE V == Nat
<1> HIDE DEF V
<1>1. \A z \in V, M \in Nat : \A u \in [1..M -> [V -> V]] :
         \E f \in [0..M -> V] : f[0] = z /\ \A i \in 1..M : f[i] = u[i][f[i - 1]]
  BY StepsFrom
<1> QED BY <1>1 DEF V

\* What starts the same and steps the same is the same.
LEMMA StepsAgree ==
    ASSUME NEW L \in Nat, NEW f, NEW g, g[0] = f[0],
           \A i \in 1..L : g[i - 1] = f[i - 1] => g[i] = f[i]
    PROVE  \A i \in 0..L : g[i] = f[i]
<1> DEFINE Bad == {i \in 0..L : g[i] # f[i]}
<1>1. Bad = {}
  <2> SUFFICES ASSUME Bad # {} PROVE FALSE
    OBVIOUS
  <2>1. Bad \in SUBSET Nat
    OBVIOUS
  <2>2. PICK n \in Bad : \A y \in Bad : n <= y
    <3> HIDE DEF Bad
    <3> QED BY <2>1, LeastIsIn
  <2>3. n \in 0..L /\ g[n] # f[n] /\ n # 0
    BY <2>2
  <2>4. n \in 1..L /\ n - 1 \in 0..L /\ n - 1 < n
    BY <2>3
  <2>5. n - 1 \notin Bad
    <3> HIDE DEF Bad
    <3> QED BY <2>2, <2>4, <2>1
  <2>6. g[n - 1] = f[n - 1]
    BY <2>4, <2>5
  <2> QED BY <2>3, <2>4, <2>6
<1> QED BY <1>1

\* The sum of numbers: they are added one after the other.
LEMMA SumSteps ==
    ASSUME NEW s \in Seq(Nat)
    PROVE  \E f \in [0..Len(s) -> Nat] :
              /\ f[0] = 0 /\ \A i \in 1..Len(s) : f[i] = f[i - 1] + s[i]
              /\ Sum(s) = f[Len(s)]
<1> DEFINE L == Len(s)
           st == [i \in 1..L |-> [v \in Nat |-> v + s[i]]]
           Is(g) == g = [n \in 0..L |-> IF n = 0 THEN 0 ELSE g[n - 1] + s[n]]
           g == CHOOSE h : Is(h)
<1>1. L \in Nat /\ \A i \in 1..L : s[i] \in Nat
  OBVIOUS
<1>2. Sum(s) = g[L]
  BY DEF Sum
<1> HIDE DEF L
<1>3. st \in [1..L -> [Nat -> Nat]]
  BY <1>1
<1>4. \A i \in 1..L : \A v \in Nat : st[i][v] = v + s[i]
  OBVIOUS
<1> HIDE DEF st
<1>5. PICK f \in [0..L -> Nat] : f[0] = 0 /\ \A i \in 1..L : f[i] = st[i][f[i - 1]]
  BY <1>1, <1>3, NatSteps
<1>6. ASSUME NEW i \in 1..L PROVE f[i] = f[i - 1] + s[i]
  <2>1. i - 1 \in 0..L
    BY <1>1
  <2>2. f[i - 1] \in Nat
    BY <2>1
  <2> QED BY <2>2, <1>4, <1>5
<1>7. Is(f)
  <2> DEFINE F(n) == IF n = 0 THEN 0 ELSE f[n - 1] + s[n]
  <2>1. \A n \in 0..L : f[n] = F(n)
    <3> SUFFICES ASSUME NEW n \in 0..L PROVE f[n] = F(n)
      OBVIOUS
    <3>1. CASE n = 0
      BY <3>1, <1>5
    <3>2. CASE n # 0
      <4>1. n \in 1..L
        BY <3>2, <1>1
      <4> QED BY <4>1, <3>2, <1>6
    <3> QED BY <3>1, <3>2
  <2>2. f = [n \in 0..L |-> F(n)]
    <3> HIDE DEF F
    <3> QED BY <2>1
  <2> QED BY <2>2
<1>8. Is(g)
  <2> HIDE DEF Is
  <2> QED BY <1>7
<1>9. \A n \in 0..L : g[n] = IF n = 0 THEN 0 ELSE g[n - 1] + s[n]
  <2>1. g = [n \in 0..L |-> IF n = 0 THEN 0 ELSE g[n - 1] + s[n]]
    BY <1>8
  <2> HIDE DEF g
  <2> QED BY <2>1, Zenon
<1> HIDE DEF g
<1>10. g[0] = f[0]
  BY <1>1, <1>5, <1>9
<1>11. ASSUME NEW i \in 1..L, g[i - 1] = f[i - 1] PROVE g[i] = f[i]
  <2>1. i \in 0..L /\ i # 0
    BY <1>1
  <2> QED BY <2>1, <1>6, <1>9, <1>11
<1>12. g[L] = f[L]
  <2>1. \A i \in 0..L : g[i] = f[i]
    BY <1>1, <1>10, <1>11, StepsAgree
  <2> QED BY <2>1, <1>1
<1> QED BY <1>2, <1>5, <1>6, <1>12 DEF L

LEMMA SumType ==
    ASSUME NEW s \in Seq(Nat)
    PROVE  Sum(s) \in Nat
<1>1. Len(s) \in Nat /\ Len(s) \in 0..Len(s)
  OBVIOUS
<1> QED BY <1>1, SumSteps

\* The sum of one number is that number.
LEMMA SumOne ==
    ASSUME NEW s \in Seq(Nat), Len(s) = 1
    PROVE  Sum(s) = s[1]
<1>1. PICK f \in [0..Len(s) -> Nat] :
              /\ f[0] = 0 /\ \A i \in 1..Len(s) : f[i] = f[i - 1] + s[i]
              /\ Sum(s) = f[Len(s)]
  BY SumSteps
<1>2. 1 \in 1..Len(s) /\ 1 - 1 = 0
  OBVIOUS
<1>3. f[1] = 0 + s[1]
  BY <1>1, <1>2
<1>4. s[1] \in Nat
  OBVIOUS
<1> QED BY <1>1, <1>3, <1>4

\* Sequences put one behind the other are a sequence.
LEMMA FlatType ==
    ASSUME NEW S, NEW ss \in Seq(Seq(S))
    PROVE  FlattenSeq(ss) \in Seq(S)
<1>1. CASE Len(ss) = 0
  <2>1. ss = <<>>
    BY <1>1
  <2> QED BY <1>1, <2>1 DEF FlattenSeq
<1>2. CASE Len(ss) # 0
  <2> DEFINE L == Len(ss)
             V == Seq(S)
             st == [i \in 1..L |-> [v \in V |-> v \o ss[i]]]
             Is(g) == g = [i \in 1..L |-> IF i = 1 THEN ss[i] ELSE g[i - 1] \o ss[i]]
             g == CHOOSE h : Is(h)
  <2>1. L \in Nat \ {0} /\ \A i \in 1..L : ss[i] \in V
    BY <1>2
  <2>2. FlattenSeq(ss) = g[L]
    BY <1>2 DEF FlattenSeq
  <2> HIDE DEF L
  <2>3. \A a, b \in V : a \o b \in V
    OBVIOUS
  <2>4. <<>> \in V /\ \A b \in V : <<>> \o b = b
    OBVIOUS
  <2> HIDE DEF V
  <2>5. st \in [1..L -> [V -> V]]
    BY <2>1, <2>3
  <2>6. \A i \in 1..L : \A v \in V : st[i][v] = v \o ss[i]
    OBVIOUS
  <2> HIDE DEF st
  <2>7. PICK f \in [0..L -> V] : f[0] = <<>> /\ \A i \in 1..L : f[i] = st[i][f[i - 1]]
    <3>1. <<>> \in V /\ L \in Nat
      BY <2>1, <2>4
    <3> HIDE DEF Is, g
    <3>2. \A z \in V : \A M \in Nat : \A u \in [1..M -> [V -> V]] :
             \E f \in [0..M -> V] : f[0] = z /\ \A i \in 1..M : f[i] = u[i][f[i - 1]]
      BY StepsFrom
    <3> QED BY <3>2, <3>1, <2>5
  <2>8. ASSUME NEW i \in 1..L PROVE f[i] = f[i - 1] \o ss[i]
    <3>1. i - 1 \in 0..L
      BY <2>1
    <3>2. f[i - 1] \in V
      BY <3>1
    <3> QED BY <3>2, <2>6, <2>7
  <2>9. 1 \in 1..L /\ L \in 1..L /\ L \in 0..L
    BY <2>1
  <2>10. f[1] = ss[1]
    <3>0. f[1] = f[1 - 1] \o ss[1]
      BY <2>8, <2>9, Zenon
    <3>1. f[1] = f[1 - 1] \o ss[1] /\ 1 - 1 = 0
      BY <3>0
    <3>2. f[1] = <<>> \o ss[1] /\ ss[1] \in V
      BY <3>1, <2>1, <2>7, <2>9
    <3> QED BY <3>2, <2>4
  <2> DEFINE e == [i \in 1..L |-> f[i]]
  <2>11. Is(e)
    <3> DEFINE E(i) == IF i = 1 THEN ss[i] ELSE e[i - 1] \o ss[i]
    <3>1. \A i \in 1..L : e[i] = f[i]
      OBVIOUS
    <3>2. \A i \in 1..L : e[i] = E(i)
      <4> SUFFICES ASSUME NEW i \in 1..L PROVE e[i] = E(i)
        OBVIOUS
      <4>1. CASE i = 1
        BY <4>1, <3>1, <2>10
      <4>2. CASE i # 1
        <5>1. i - 1 \in 1..L
          BY <4>2, <2>1
        <5> HIDE DEF e
        <5> QED BY <5>1, <4>2, <3>1, <2>8
      <4> QED BY <4>1, <4>2
    <3>3. e = [i \in 1..L |-> e[i]]
      OBVIOUS
    <3>4. [i \in 1..L |-> e[i]] = [i \in 1..L |-> E(i)]
      <4> HIDE DEF e, E
      <4> QED BY <3>2
    <3> HIDE DEF e
    <3> QED BY <3>3, <3>4
  <2>12. Is(g)
    <3> HIDE DEF Is, e
    <3> QED BY <2>11
  <2>13. \A i \in 1..L : g[i] = IF i = 1 THEN ss[i] ELSE g[i - 1] \o ss[i]
    <3>1. g = [i \in 1..L |-> IF i = 1 THEN ss[i] ELSE g[i - 1] \o ss[i]]
      BY <2>12
    <3> HIDE DEF g
    <3> QED BY <3>1, Zenon
  <2> HIDE DEF g
  <2> DEFINE k == [i \in 0..L |-> IF i = 0 THEN <<>> ELSE g[i]]
  <2>14. k[0] = <<>> /\ \A i \in 1..L : k[i] = g[i]
    BY <2>1
  <2> HIDE DEF k
  <2>15. ASSUME NEW i \in 1..L, k[i - 1] = f[i - 1] PROVE k[i] = f[i]
    <3>1. CASE i = 1
      <4>1. k[1] = g[1] /\ g[1] = ss[1]
        BY <2>9, <2>13, <2>14
      <4> QED BY <4>1, <3>1, <2>10
    <3>2. CASE i # 1
      <4>1. i \in 1..L /\ i - 1 \in 1..L
        BY <3>2, <2>1, <2>15
      <4>2. k[i] = g[i] /\ k[i - 1] = g[i - 1]
        BY <4>1, <2>14
      <4>3. g[i] = g[i - 1] \o ss[i]
        BY <4>1, <3>2, <2>13
      <4>4. f[i] = f[i - 1] \o ss[i]
        BY <4>1, <2>8
      <4> QED BY <4>2, <4>3, <4>4, <2>15
    <3> QED BY <3>1, <3>2
  <2>16. \A i \in 0..L : k[i] = f[i]
    <3>1. L \in Nat /\ k[0] = f[0]
      BY <2>1, <2>7, <2>14
    <3> QED BY <3>1, <2>15, StepsAgree
  <2>17. g[L] = f[L] /\ f[L] \in V
    BY <2>9, <2>14, <2>16
  <2> QED BY <2>2, <2>17 DEF V
<1> QED BY <1>1, <1>2

-----------------------------------------------------------------------------
(* Conversations                                                            *)

Usages == [tokens : Nat, under : Nat]

Rows == [kind : {"prompt", "reply", "summary"}, calls : Seq(Nat), text : Nat,
         usage : Usages, folds : SUBSET Nat]

Ids(r) == 1..Len(r)

\* Newest, and what follows, of any rows: the definitions a step is about are
\* those of two states.
NewestIn(r, p, n) == Latest({i \in 1..n : r[p[i]].kind = "summary"})

\* The newest summary of a path, or 0.
UnderIn(r, p) ==
    IF NewestIn(r, p, Len(p)) = 0 THEN 0 ELSE p[NewestIn(r, p, Len(p))]

OpeningIn(r, b) == IF r[b[1]].kind = "summary" THEN b[1] ELSE 0

\* Between two replies there is a prompt.
OneReplyIn(r, p) ==
    \A i, j \in 1..Len(p) :
        i < j /\ r[p[i]].kind = "reply" /\ r[p[j]].kind = "reply"
            => \E k \in i + 1..j - 1 : r[p[k]].kind = "prompt"

\* Every summary of a path folds what is before it.
FoldedIn(r, p) ==
    \A n \in 1..Len(p) : r[p[n]].kind = "summary" =>
        \A i \in 1..n - 1 : p[i] \in r[p[n]].folds

\* Rows that got more: none changed its kind, and no summary what it folds.
Grown(r, s) ==
    /\ Len(r) <= Len(s)
    /\ \A id \in 1..Len(r) :
         /\ s[id].kind = r[id].kind
         /\ r[id].kind = "summary" => s[id].folds = r[id].folds

LEMMA PathIds ==
    ASSUME NEW r, NEW p \in Seq(Ids(r))
    PROVE  /\ Len(p) \in Nat /\ \A i \in 1..Len(p) : p[i] \in 1..Len(r)
           /\ p # <<>> <=> Len(p) # 0
           /\ DOMAIN p = 1..Len(p)
BY DEF Ids

LEMMA NewestIs ==
    ASSUME NEW r, NEW p, NEW n \in Nat
    PROVE  /\ NewestIn(r, p, n) \in 0..n
           /\ NewestIn(r, p, n) # 0 => r[p[NewestIn(r, p, n)]].kind = "summary"
           /\ \A i \in 1..n : r[p[i]].kind = "summary" => i <= NewestIn(r, p, n)
<1> DEFINE S == {i \in 1..n : r[p[i]].kind = "summary"}
<1>1. /\ S \in SUBSET (1..n) /\ NewestIn(r, p, n) = Latest(S)
      /\ \A i : i \in S <=> i \in 1..n /\ r[p[i]].kind = "summary"
  BY DEF NewestIn
<1> HIDE DEF S
<1> QED BY <1>1, LatestIs

\* The newest summary of what has the same summaries.
LEMMA NewestSame ==
    ASSUME NEW r, NEW p, NEW s, NEW q, NEW n \in Nat,
           \A i \in 1..n : r[p[i]].kind = "summary" <=> s[q[i]].kind = "summary"
    PROVE  NewestIn(r, p, n) = NewestIn(s, q, n)
<1>1. {i \in 1..n : r[p[i]].kind = "summary"} = {i \in 1..n : s[q[i]].kind = "summary"}
  OBVIOUS
<1> QED BY <1>1 DEF NewestIn

\* A message that is no summary makes none newer.
LEMMA NewestBefore ==
    ASSUME NEW r, NEW p, NEW n \in Nat \ {0}, r[p[n]].kind # "summary"
    PROVE  NewestIn(r, p, n) = NewestIn(r, p, n - 1)
<1>1. {i \in 1..n : r[p[i]].kind = "summary"} = {i \in 1..n - 1 : r[p[i]].kind = "summary"}
  OBVIOUS
<1> QED BY <1>1 DEF NewestIn

\* What is true of a path stays true of grown rows.
LEMMA GrownKeeps ==
    ASSUME NEW r, NEW s, NEW p \in Seq(Ids(r)), Grown(r, s), Len(r) \in Nat, Len(s) \in Nat
    PROVE  /\ p \in Seq(Ids(s))
           /\ FoldedIn(r, p) => FoldedIn(s, p)
           /\ OneReplyIn(r, p) => OneReplyIn(s, p)
           /\ UnderIn(s, p) = UnderIn(r, p)
<1>1. Len(p) \in Nat /\ \A i \in 1..Len(p) : p[i] \in 1..Len(r)
  BY PathIds
<1>2. \A i \in 1..Len(p) : /\ s[p[i]].kind = r[p[i]].kind
                           /\ r[p[i]].kind = "summary" => s[p[i]].folds = r[p[i]].folds
  BY <1>1 DEF Grown
<1>3. p \in Seq(Ids(s))
  <2>1. Ids(r) \subseteq Ids(s)
    BY DEF Grown, Ids
  <2> QED BY <2>1, WiderSeq
<1>4. FoldedIn(r, p) => FoldedIn(s, p)
  BY <1>1, <1>2 DEF FoldedIn
<1>5. OneReplyIn(r, p) => OneReplyIn(s, p)
  <2> SUFFICES ASSUME OneReplyIn(r, p), NEW i \in 1..Len(p), NEW j \in 1..Len(p),
                      i < j /\ s[p[i]].kind = "reply" /\ s[p[j]].kind = "reply"
               PROVE  \E k \in i + 1..j - 1 : s[p[k]].kind = "prompt"
    BY DEF OneReplyIn
  <2> PICK k \in i + 1..j - 1 : r[p[k]].kind = "prompt"
    BY <1>2 DEF OneReplyIn
  <2>1. k \in 1..Len(p)
    BY <1>1
  <2> QED BY <2>1, <1>2
<1>6. UnderIn(s, p) = UnderIn(r, p)
  <2>1. NewestIn(s, p, Len(p)) = NewestIn(r, p, Len(p))
    <3>1. \A i \in 1..Len(p) : s[p[i]].kind = "summary" <=> r[p[i]].kind = "summary"
      BY <1>2
    <3> QED BY <3>1, <1>1, NewestSame
  <2> QED BY <2>1 DEF UnderIn
<1> QED BY <1>3, <1>4, <1>5, <1>6

\* A row more, and a reply in the place of a reply.
LEMMA GrownOn ==
    ASSUME NEW r \in Seq(Rows), NEW row \in Rows
    PROVE  /\ Append(r, row) \in Seq(Rows) /\ Len(Append(r, row)) = Len(r) + 1
           /\ Append(r, row)[Len(r) + 1] = row /\ Len(r) + 1 \in Ids(Append(r, row))
           /\ \A id \in Ids(r) : id \in Ids(Append(r, row)) /\ Append(r, row)[id] = r[id]
           /\ Grown(r, Append(r, row)) /\ Len(r) \in Nat
<1> DEFINE s == Append(r, row)
<1>1. /\ s \in Seq(Rows) /\ Len(s) = Len(r) + 1 /\ Len(r) \in Nat
      /\ \A k \in 1..Len(r) + 1 : s[k] = IF k = Len(r) + 1 THEN row ELSE r[k]
  BY AppendIs
<1> HIDE DEF s
<1>2. \A id \in 1..Len(r) : id \in 1..Len(s) /\ s[id] = r[id]
  BY <1>1
<1>3. Grown(r, s)
  BY <1>1, <1>2 DEF Grown
<1>4. Len(r) + 1 \in 1..Len(s) /\ s[Len(r) + 1] = row
  BY <1>1
<1> QED BY <1>1, <1>2, <1>3, <1>4 DEF Ids, s

LEMMA GrownIn ==
    ASSUME NEW r \in Seq(Rows), NEW row \in Rows, NEW id \in Ids(r),
           r[id].kind = "reply", row.kind = "reply"
    PROVE  /\ [r EXCEPT ![id] = row] \in Seq(Rows) /\ Len([r EXCEPT ![id] = row]) = Len(r)
           /\ \A n \in Ids(r) : [r EXCEPT ![id] = row][n] = IF n = id THEN row ELSE r[n]
           /\ Grown(r, [r EXCEPT ![id] = row]) /\ Len(r) \in Nat
<1> DEFINE s == [r EXCEPT ![id] = row]
<1>1. /\ s \in Seq(Rows) /\ Len(s) = Len(r) /\ Len(r) \in Nat
      /\ \A n \in 1..Len(r) : s[n] = IF n = id THEN row ELSE r[n]
  BY ReplaceIs DEF Ids
<1> HIDE DEF s
<1>2. Grown(r, s)
  BY <1>1 DEF Grown
<1> QED BY <1>1, <1>2 DEF Ids, s

\* A message more at the end of a path.
LEMMA PathOn ==
    ASSUME NEW r, NEW p \in Seq(Ids(r)), NEW id \in Ids(r), r[id].kind # "summary"
    PROVE  /\ Append(p, id) \in Seq(Ids(r)) /\ Append(p, id) # <<>>
           /\ Len(Append(p, id)) = Len(p) + 1 /\ Append(p, id)[Len(p) + 1] = id
           /\ Len(p) \in Nat /\ \A i \in 1..Len(p) : Append(p, id)[i] = p[i]
           /\ FoldedIn(r, p) => FoldedIn(r, Append(p, id))
           /\ UnderIn(r, Append(p, id)) = UnderIn(r, p)
<1> DEFINE q == Append(p, id)
           n == Len(p)
<1>1. /\ q \in Seq(Ids(r)) /\ Len(q) = n + 1 /\ n \in Nat
      /\ \A k \in 1..n + 1 : q[k] = IF k = n + 1 THEN id ELSE p[k]
  BY AppendIs
<1> HIDE DEF q
<1>2. q # <<>> /\ n + 1 \in 1..n + 1 /\ q[n + 1] = id /\ \A i \in 1..n : q[i] = p[i]
  BY <1>1
<1>3. FoldedIn(r, p) => FoldedIn(r, q)
  <2> SUFFICES ASSUME FoldedIn(r, p), NEW m \in 1..n + 1, r[q[m]].kind = "summary",
                      NEW i \in 1..m - 1
               PROVE  q[i] \in r[q[m]].folds
    BY <1>1 DEF FoldedIn
  <2>1. m # n + 1
    BY <1>2
  <2>2. m \in 1..n /\ i \in 1..n /\ i \in 1..m - 1
    BY <1>1, <2>1
  <2> QED BY <2>2, <1>2 DEF FoldedIn
<1>4. UnderIn(r, q) = UnderIn(r, p)
  <2>1. NewestIn(r, q, n + 1) = NewestIn(r, q, n)
    <3>1. n + 1 \in Nat \ {0} /\ (n + 1) - 1 = n /\ r[q[n + 1]].kind # "summary"
      BY <1>1, <1>2
    <3> QED BY <3>1, NewestBefore
  <2>2. NewestIn(r, q, n) = NewestIn(r, p, n)
    BY <1>1, <1>2, NewestSame
  <2>3. NewestIn(r, p, n) \in 0..n
    BY <1>1, NewestIs
  <2>4. NewestIn(r, p, n) # 0 => NewestIn(r, p, n) \in 1..n
    BY <2>3, <1>1
  <2> QED BY <2>1, <2>2, <2>4, <1>1, <1>2 DEF UnderIn
<1> QED BY <1>1, <1>2, <1>3, <1>4 DEF q

\* One reply still: the new message is a prompt, or it follows one.
LEMMA OneReplyOn ==
    ASSUME NEW r, NEW p \in Seq(Ids(r)), NEW id \in Ids(r), OneReplyIn(r, p),
           \/ r[id].kind = "prompt"
           \/ p # <<>> /\ r[p[Len(p)]].kind = "prompt"
    PROVE  OneReplyIn(r, Append(p, id))
<1> DEFINE q == Append(p, id)
           n == Len(p)
<1>1. /\ Len(q) = n + 1 /\ n \in Nat
      /\ \A k \in 1..n + 1 : q[k] = IF k = n + 1 THEN id ELSE p[k]
  BY AppendIs
<1>2. p # <<>> => n # 0
  BY PathIds
<1> HIDE DEF q
<1> SUFFICES ASSUME NEW i \in 1..n + 1, NEW j \in 1..n + 1,
                    i < j /\ r[q[i]].kind = "reply" /\ r[q[j]].kind = "reply"
             PROVE  \E k \in i + 1..j - 1 : r[q[k]].kind = "prompt"
  BY <1>1 DEF OneReplyIn, q
<1>3. i \in 1..n /\ q[i] = p[i]
  BY <1>1
<1>4. CASE j = n + 1
  <2>1. q[j] = id
    BY <1>1, <1>4
  <2>2. n \in 1..n /\ r[p[n]].kind = "prompt" /\ q[n] = p[n]
    BY <2>1, <1>1, <1>2
  <2>3. i # n
    BY <2>2, <1>3
  <2>4. n \in i + 1..j - 1
    BY <2>2, <2>3, <1>3, <1>4
  <2> QED BY <2>2, <2>4
<1>5. CASE j # n + 1
  <2>1. j \in 1..n /\ q[j] = p[j]
    BY <1>1, <1>5
  <2>2. PICK k \in i + 1..j - 1 : r[p[k]].kind = "prompt"
    BY <2>1, <1>3 DEF OneReplyIn
  <2>3. k \in 1..n /\ q[k] = p[k]
    <3>1. k \in 1..n /\ k \in 1..n + 1 /\ k # n + 1
      BY <1>1, <1>3, <2>1
    <3> QED BY <3>1, <1>1
  <2> QED BY <2>2, <2>3
<1> QED BY <1>4, <1>5

\* What a path is sent as: its piece from the newest summary on.
LEMMA HistoryIs ==
    ASSUME NEW p \in Seq(Ids(rows)), NEW n \in 0..Len(p)
    PROVE  LET N == NewestIn(rows, p, n)
               h == HistoryUntil(p, n)
               first == IF N = 0 THEN 1 ELSE N
           IN /\ h \in Seq(Ids(rows)) /\ Len(h) = n - first + 1 /\ first \in 1..n + 1
              /\ \A i \in 1..n - first + 1 : h[i] = p[i + first - 1]
              /\ \A i \in first..n : i - first + 1 \in 1..Len(h) /\ h[i - first + 1] = p[i]
<1> DEFINE N == NewestIn(rows, p, n)
           h == HistoryUntil(p, n)
           first == IF N = 0 THEN 1 ELSE N
<1>1. n \in Nat /\ n <= Len(p) /\ Len(p) \in Nat
  BY PathIds
<1>2. N \in 0..n
  BY <1>1, NewestIs
<1>3. h = SubSeq(p, first, n)
  BY DEF HistoryUntil, Newest, NewestIn
<1> HIDE DEF N
<1>4. first \in Nat \ {0} /\ first <= n + 1 /\ first \in 1..n + 1
  BY <1>1, <1>2
<1> HIDE DEF first, h
<1>5. /\ h \in Seq(Ids(rows)) /\ Len(h) = n - first + 1
      /\ \A i \in 1..n - first + 1 : h[i] = p[i + first - 1]
  BY <1>1, <1>3, <1>4, PieceIs
<1>6. ASSUME NEW i \in first..n PROVE i - first + 1 \in 1..Len(h) /\ h[i - first + 1] = p[i]
  <2>1. i - first + 1 \in 1..n - first + 1 /\ (i - first + 1) + first - 1 = i
    BY <1>1, <1>4
  <2> QED BY <2>1, <1>5
<1> QED BY <1>4, <1>5, <1>6 DEF N, first, h

-----------------------------------------------------------------------------
(* What a compaction does                                                   *)

\* The span that is summarised starts before the tail that is kept.
LEMMA PlanIs ==
    ASSUME NEW p \in Seq(Ids(rows)), HasPlan(p)
    PROVE  LET N == NewestIn(rows, p, Len(p))
           IN /\ PlanStart(p) = IF N = 0 THEN 1 ELSE N
              /\ PlanStart(p) \in 1..Len(p) /\ PlanCut(p) \in 1..Len(p)
              /\ PlanStart(p) < PlanCut(p)
<1> DEFINE N == NewestIn(rows, p, Len(p))
           n == Len(p)
           a == PlanStart(p)
           tail(i) == Sum([k \in 1..n - i + 1 |-> Cost(p[i + k - 1])])
           reach == {i \in a..n : tail(i) >= Keep}
<1>1. n \in Nat /\ MinTail \in Nat /\ MinTail > 0 /\ n > MinTail /\ a < PlanCut(p)
  BY PathIds, CompactionAssumption DEF HasPlan
<1>2. N \in 0..n
  BY <1>1, NewestIs
<1>3. a = IF N = 0 THEN 1 ELSE N
  BY DEF PlanStart, Newest, NewestIn
<1>4. PlanCut(p) = IF reach = {} THEN n - MinTail + 1 ELSE Latest(reach)
  BY DEF PlanCut
<1> HIDE DEF N, n, a
<1>5. a \in 1..n
  BY <1>1, <1>2, <1>3
<1>6. reach \in SUBSET (1..n)
  BY <1>1, <1>5
<1> HIDE DEF reach
<1>7. reach # {} => PlanCut(p) \in 1..n
  BY <1>1, <1>4, <1>6, LatestIs
<1>8. reach = {} => PlanCut(p) \in 1..n
  BY <1>1, <1>4
<1> QED BY <1>1, <1>3, <1>5, <1>7, <1>8 DEF N, n, a

\* A reply that does not fill the tail is not all of it.
LEMMA PlanShort ==
    ASSUME NEW p \in Seq(Ids(rows)), HasPlan(p), rows \in Seq(Rows), MinTail > 1,
           rows[p[Len(p)]].text = 0, Sum(rows[p[Len(p)]].calls) < Keep
    PROVE  PlanCut(p) < Len(p)
<1> DEFINE n == Len(p)
           a == PlanStart(p)
           tail(i) == Sum([k \in 1..n - i + 1 |-> Cost(p[i + k - 1])])
           reach == {i \in a..n : tail(i) >= Keep}
           last == [k \in 1..n - n + 1 |-> Cost(p[n + k - 1])]
<1>1. n \in Nat /\ MinTail \in Nat /\ MinTail > 1 /\ n > MinTail /\ Keep \in Nat
  BY PathIds, CompactionAssumption DEF HasPlan
<1>2. a \in 1..n
  BY PlanIs
<1>3. PlanCut(p) = IF reach = {} THEN n - MinTail + 1 ELSE Latest(reach)
  BY DEF PlanCut
<1>4. tail(n) \in Nat /\ tail(n) < Keep
  <2>1. p[n] \in Ids(rows)
    BY <1>1
  <2>2. rows[p[n]] \in Rows
    BY <2>1 DEF Ids
  <2>3. rows[p[n]].calls \in Seq(Nat) /\ rows[p[n]].text = 0 /\ Sum(rows[p[n]].calls) < Keep
    BY <2>2 DEF Rows
  <2>4. Cost(p[n]) \in Nat /\ Cost(p[n]) < Keep
    BY <2>3, <1>1, SumType DEF Cost
  <2>5. last = [k \in 1..1 |-> Cost(p[n])]
    <3>1. n - n + 1 = 1 /\ \A k \in 1..1 : n + k - 1 = n
      BY <1>1
    <3> QED BY <3>1
  <2>6. tail(n) = Sum(last)
    OBVIOUS
  <2> DEFINE c == Cost(p[n])
             u == [k \in 1..1 |-> c]
  <2>7. c \in Nat /\ c < Keep /\ last = u
    BY <2>4, <2>5
  <2> HIDE DEF c, last
  <2>8. u \in Seq(Nat) /\ Len(u) = 1 /\ u[1] = c
    BY <2>7
  <2> HIDE DEF u
  <2>9. Sum(u) = c
    BY <2>8, SumOne
  <2>10. tail(n) = c
    BY <2>6, <2>7, <2>9
  <2> HIDE DEF tail
  <2> QED BY <2>7, <2>10
<1>5. n \notin reach
  <2> SUFFICES ASSUME n \in reach PROVE FALSE
    OBVIOUS
  <2>1. tail(n) >= Keep
    OBVIOUS
  <2> HIDE DEF tail
  <2> QED BY <2>1, <1>4, <1>1
<1>6. reach \in SUBSET (1..n)
  BY <1>1, <1>2
<1> HIDE DEF n, a, reach
<1>7. ASSUME reach = {} PROVE PlanCut(p) < n
  BY <1>1, <1>3, <1>7
<1>8. ASSUME reach # {} PROVE PlanCut(p) < n
  <2>1. Latest(reach) \in reach
    BY <1>1, <1>6, <1>8, LatestIs
  <2>2. Latest(reach) \in 1..n /\ Latest(reach) # n
    BY <2>1, <1>5, <1>6
  <2> QED BY <2>2, <1>1, <1>3, <1>8
<1> QED BY <1>7, <1>8 DEF n

\* The summary is a row, and the spliced path is the old one with it before
\* the tail.
LEMMA SplicedIs ==
    ASSUME NEW p \in Seq(Ids(rows)), HasPlan(p), rows \in Seq(Rows)
    PROVE  LET q == Spliced(p)
               c == PlanCut(p)
               s == Append(rows, Summary(p))
           IN /\ Summary(p) \in Rows /\ Summary(p).kind = "summary"
              /\ Summary(p).usage = NoUsage
              /\ q \in Seq(Ids(s)) /\ Len(q) = Len(p) + 1
              /\ \A i \in 1..Len(p) + 1 :
                    q[i] = IF i < c THEN p[i] ELSE IF i = c THEN Len(rows) + 1 ELSE p[i - 1]
<1> DEFINE c == PlanCut(p)
           n == Len(p)
           s == Append(rows, Summary(p))
           m == Len(rows) + 1
           folds == Span(p) \union UNION {rows[id].folds : id \in Span(p)}
<1>1. n \in Nat /\ c \in 1..n /\ PlanStart(p) \in 1..n
  BY PlanIs, PathIds
<1>2. folds \in SUBSET Nat
  <2>1. \A i \in 1..n : p[i] \in Ids(rows)
    BY <1>1
  <2>2. Span(p) \subseteq Ids(rows)
    <3>1. \A i \in PlanStart(p)..PlanCut(p) - 1 : i \in 1..n
      BY <1>1
    <3> QED BY <2>1, <3>1 DEF Span
  <2>3. \A id \in Ids(rows) : id \in Nat /\ rows[id].folds \subseteq Nat
    <3>1. \A id \in 1..Len(rows) : rows[id] \in Rows
      OBVIOUS
    <3>2. \A row \in Rows : row.folds \subseteq Nat
      BY DEF Rows
    <3> QED BY <3>1, <3>2 DEF Ids
  <2> QED BY <2>2, <2>3
<1>3. /\ Summary(p) = Row("summary", <<>>, SummarySize, NoUsage, folds)
  BY DEF Summary
<1> HIDE DEF folds
<1>4. NoUsage \in Usages /\ <<>> \in Seq(Nat) /\ SummarySize \in Nat
  BY CompactionAssumption DEF NoUsage, Usages
<1>5. Summary(p) \in Rows /\ Summary(p).kind = "summary" /\ Summary(p).usage = NoUsage
  BY <1>2, <1>3, <1>4 DEF Row, Rows
<1>6. /\ Len(s) = Len(rows) + 1 /\ Len(rows) \in Nat /\ m \in Ids(s)
      /\ Ids(rows) \subseteq Ids(s)
  BY <1>5, GrownOn
<1>7. p \in Seq(Ids(s))
  BY <1>6, WiderSeq
<1> DEFINE a == SubSeq(p, 1, c - 1)
           b == SubSeq(p, c, n)
           d == Append(a, m)
           q == d \o b
<1>8. Spliced(p) = q
  <2>1. Spliced(p) = a \o <<m>> \o b
    BY DEF Spliced
  <2>2. a \in Seq(Ids(s))
    BY <1>1, <1>7, PieceIs
  <2> HIDE DEF a, b, m
  <2>3. a \o <<m>> = Append(a, m)
    BY <2>2, <1>6
  <2> QED BY <2>1, <2>3
<1> HIDE DEF s, n, c, m
<1>9. /\ a \in Seq(Ids(s)) /\ Len(a) = c - 1 /\ c - 1 \in Nat
      /\ \A i \in 1..c - 1 : a[i] = p[i]
  <2>1. /\ 1 \in Nat \ {0} /\ c - 1 \in Nat /\ c - 1 <= Len(p) /\ 1 <= (c - 1) + 1
        /\ (c - 1) - 1 + 1 = c - 1 /\ \A i \in 1..c - 1 : i + 1 - 1 = i
    BY <1>1 DEF n
  <2> QED BY <2>1, <1>7, PieceIs
<1>10. /\ b \in Seq(Ids(s)) /\ Len(b) = n - c + 1
       /\ \A i \in 1..n - c + 1 : b[i] = p[i + c - 1]
  <2>1. c \in Nat \ {0} /\ n \in Nat /\ n <= Len(p) /\ c <= n + 1
    BY <1>1 DEF n
  <2> QED BY <2>1, <1>7, PieceIs
<1> HIDE DEF a, b
<1>11. /\ d \in Seq(Ids(s)) /\ Len(d) = c
       /\ \A i \in 1..c : d[i] = IF i = c THEN m ELSE p[i]
  <2>1. /\ d \in Seq(Ids(s)) /\ Len(d) = (c - 1) + 1
        /\ \A i \in 1..(c - 1) + 1 : d[i] = IF i = (c - 1) + 1 THEN m ELSE a[i]
    BY <1>6, <1>9, AppendIs
  <2>2. (c - 1) + 1 = c /\ \A i \in 1..c : i # c => i \in 1..c - 1
    BY <1>1
  <2> HIDE DEF d
  <2> QED BY <2>1, <2>2, <1>9
<1> HIDE DEF d
<1>12. /\ q \in Seq(Ids(s)) /\ Len(q) = c + (n - c + 1)
       /\ \A i \in 1..c + (n - c + 1) : q[i] = IF i <= c THEN d[i] ELSE b[i - c]
  <2>1. /\ q \in Seq(Ids(s)) /\ Len(q) = Len(d) + Len(b)
        /\ \A i \in 1..Len(d) + Len(b) : q[i] = IF i <= Len(d) THEN d[i] ELSE b[i - Len(d)]
    BY <1>10, <1>11, JoinIs
  <2> HIDE DEF q
  <2> QED BY <2>1, <1>10, <1>11
<1> HIDE DEF q
<1>13. Len(q) = n + 1
  BY <1>1, <1>12
<1>14. ASSUME NEW i \in 1..n + 1
       PROVE  q[i] = IF i < c THEN p[i] ELSE IF i = c THEN m ELSE p[i - 1]
  <2>1. i \in 1..c + (n - c + 1)
    BY <1>1
  <2>2. CASE i <= c
    <3>1. i \in 1..c /\ q[i] = d[i]
      BY <2>1, <2>2, <1>1, <1>12
    <3> QED BY <3>1, <1>1, <1>11
  <2>3. CASE ~(i <= c)
    <3>1. /\ i - c \in 1..n - c + 1 /\ (i - c) + c - 1 = i - 1
          /\ ~(i < c) /\ i # c
      BY <2>3, <1>1
    <3>2. q[i] = b[i - c]
      BY <2>1, <2>3, <1>12
    <3> QED BY <3>1, <3>2, <1>10
  <2> QED BY <2>2, <2>3
<1> QED BY <1>5, <1>8, <1>12, <1>13, <1>14 DEF s, n, c, m

\* A spliced path: every summary folds what is before it, there is still a
\* prompt between two replies, and it ends as before.
LEMMA SplicedKeeps ==
    ASSUME NEW p \in Seq(Ids(rows)), HasPlan(p), rows \in Seq(Rows)
    PROVE  LET q == Spliced(p)
               s == Append(rows, Summary(p))
           IN /\ FoldedIn(rows, p) => FoldedIn(s, q)
              /\ OneReplyIn(rows, p) => OneReplyIn(s, q)
              /\ q # <<>> /\ q[Len(q)] = p[Len(p)] /\ p # <<>>
              /\ PlanCut(p) < Len(p) => Len(q) > 1 /\ q[Len(q) - 1] = p[Len(p) - 1]
<1> DEFINE q == Spliced(p)
           s == Append(rows, Summary(p))
           c == PlanCut(p)
           a == PlanStart(p)
           n == Len(p)
           m == Len(rows) + 1
           N == NewestIn(rows, p, n)
           sum == Summary(p)
<1>1. /\ sum \in Rows /\ sum.kind = "summary" /\ q \in Seq(Ids(s)) /\ Len(q) = n + 1
      /\ \A i \in 1..n + 1 : q[i] = IF i < c THEN p[i] ELSE IF i = c THEN m ELSE p[i - 1]
  BY SplicedIs
<1>2. s[m] = sum /\ \A id \in Ids(rows) : s[id] = rows[id]
  BY <1>1, GrownOn
<1>3. /\ n \in Nat /\ c \in 1..n /\ a \in 1..n /\ a < c /\ a = IF N = 0 THEN 1 ELSE N
      /\ \A i \in 1..n : p[i] \in Ids(rows)
      /\ p # <<>> <=> n # 0
  BY PlanIs, PathIds DEF Ids
<1>4. sum.folds = Span(p) \union UNION {rows[id].folds : id \in Span(p)}
  BY DEF Summary, Row
<1>5. N \in 0..n /\ (N # 0 => rows[p[N]].kind = "summary")
      /\ \A i \in 1..n : rows[p[i]].kind = "summary" => i <= N
  BY <1>3, NewestIs
<1>6. \A i \in a..c - 1 : p[i] \in Span(p)
  BY DEF Span
<1> HIDE DEF q, s, c, a, n, m, N, sum
<1>7. ASSUME NEW i \in 1..n
      PROVE  /\ i < c => i \in 1..n + 1 /\ q[i] = p[i]
             /\ i >= c => i + 1 \in 1..n + 1 /\ q[i + 1] = p[i]
  <2>1. CASE i < c
    BY <2>1, <1>1, <1>3
  <2>2. CASE i >= c
    <3>1. i + 1 \in 1..n + 1 /\ ~(i + 1 < c) /\ i + 1 # c /\ (i + 1) - 1 = i
      BY <2>2, <1>3
    <3> QED BY <2>2, <3>1, <1>1, <1>3
  <2> QED BY <2>1, <2>2, <1>3
<1>8. q[c] = m /\ s[q[c]] = sum /\ c \in 1..n + 1
  BY <1>1, <1>2, <1>3
\* Where an old message of the new path was.
<1>9. ASSUME NEW i \in 1..n + 1, i # c
      PROVE  \E o \in 1..n : /\ q[i] = p[o] /\ s[q[i]] = rows[p[o]]
                             /\ i < c => o = i
                             /\ i > c => o = i - 1
  <2>1. CASE i < c
    <3>1. i \in 1..n /\ q[i] = p[i]
      BY <2>1, <1>1, <1>3
    <3> QED BY <3>1, <2>1, <1>2, <1>3
  <2>2. CASE i > c
    <3>1. i - 1 \in 1..n /\ q[i] = p[i - 1] /\ ~(i < c)
      BY <2>2, <1>1, <1>3
    <3> QED BY <3>1, <2>2, <1>2, <1>3
  <2> QED BY <2>1, <2>2, <1>9, <1>3
<1>10. ASSUME FoldedIn(rows, p) PROVE FoldedIn(s, q)
  <2> SUFFICES ASSUME NEW j \in 1..n + 1, s[q[j]].kind = "summary", NEW i \in 1..j - 1
               PROVE  q[i] \in s[q[j]].folds
    BY <1>1 DEF FoldedIn
  <2>1. CASE j = c
    <3>1. i \in 1..n /\ i < c /\ q[i] = p[i]
      BY <2>1, <1>3, <1>7
    <3>2. CASE i >= a
      <4>1. p[i] \in Span(p)
        BY <3>1, <3>2, <1>3, <1>6
      <4> QED BY <4>1, <3>1, <2>1, <1>4, <1>8
    <3>3. CASE i < a
      <4>1. N # 0 /\ N = a /\ N \in 1..n /\ rows[p[N]].kind = "summary" /\ i \in 1..N - 1
        BY <3>1, <3>3, <1>3, <1>5
      <4>2. p[i] \in rows[p[N]].folds
        BY <4>1, <1>10 DEF FoldedIn, n
      <4>3. p[N] \in Span(p)
        BY <4>1, <1>3, <1>6
      <4> QED BY <4>2, <4>3, <3>1, <2>1, <1>4, <1>8
    <3> QED BY <3>1, <3>2, <3>3, <1>3
  <2>2. CASE j # c
    <3>1. PICK o \in 1..n : /\ q[j] = p[o] /\ s[q[j]] = rows[p[o]]
                            /\ j < c => o = j
                            /\ j > c => o = j - 1
      BY <2>2, <1>9
    <3>2. o <= N /\ rows[p[o]].kind = "summary"
      BY <3>1, <1>5
    <3>3. o < c /\ o = j
      BY <3>1, <3>2, <2>2, <1>3, <1>5
    <3>4. i \in 1..n /\ i < c /\ i \in 1..o - 1
      BY <3>3, <1>3
    <3>5. q[i] = p[i]
      BY <3>4, <1>7
    <3>6. p[i] \in rows[p[o]].folds
      BY <3>2, <3>4, <1>10 DEF FoldedIn, n
    <3> QED BY <3>1, <3>5, <3>6
  <2> QED BY <2>1, <2>2
<1>11. ASSUME OneReplyIn(rows, p) PROVE OneReplyIn(s, q)
  <2> SUFFICES ASSUME NEW i \in 1..n + 1, NEW j \in 1..n + 1,
                      i < j, s[q[i]].kind = "reply", s[q[j]].kind = "reply"
               PROVE  \E k \in i + 1..j - 1 : s[q[k]].kind = "prompt"
    BY <1>1 DEF OneReplyIn
  <2>1. i # c /\ j # c
    BY <1>1, <1>8
  <2>2. PICK io \in 1..n : /\ s[q[i]] = rows[p[io]]
                           /\ i < c => io = i
                           /\ i > c => io = i - 1
    BY <2>1, <1>9
  <2>3. PICK jo \in 1..n : /\ s[q[j]] = rows[p[jo]]
                           /\ j < c => jo = j
                           /\ j > c => jo = j - 1
    BY <2>1, <1>9
  <2>4. io < jo
    BY <2>1, <2>2, <2>3, <1>3
  <2>5. PICK ko \in io + 1..jo - 1 : rows[p[ko]].kind = "prompt"
    BY <2>2, <2>3, <2>4, <1>11 DEF OneReplyIn, n
  <2>6. ko \in 1..n
    BY <1>3
  <2>7. CASE ko < c
    <3>1. q[ko] = p[ko] /\ s[q[ko]] = rows[p[ko]]
      BY <2>6, <2>7, <1>2, <1>3, <1>7
    <3>2. ko \in i + 1..j - 1
      BY <2>1, <2>2, <2>3, <2>7, <1>3
    <3> QED BY <3>1, <3>2, <2>5
  <2>8. CASE ko >= c
    <3>1. q[ko + 1] = p[ko] /\ s[q[ko + 1]] = rows[p[ko]]
      BY <2>6, <2>8, <1>2, <1>3, <1>7
    <3>2. ko + 1 \in i + 1..j - 1
      BY <2>1, <2>2, <2>3, <2>8, <1>3
    <3> QED BY <3>1, <3>2, <2>5
  <2> QED BY <2>6, <2>7, <2>8, <1>3
<1>12. q # <<>> /\ q[Len(q)] = p[n] /\ p # <<>>
  <2>1. n \in 1..n /\ n >= c
    BY <1>3
  <2>2. q # <<>>
    BY <1>1, <1>3
  <2> QED BY <2>1, <2>2, <1>1, <1>3, <1>7
<1>13. ASSUME c < n PROVE Len(q) > 1 /\ q[Len(q) - 1] = p[n - 1]
  <2>1. n - 1 \in 1..n /\ n - 1 >= c /\ (n - 1) + 1 = n /\ (n + 1) - 1 = n
    BY <1>3, <1>13
  <2>2. q[n] = p[n - 1]
    BY <2>1, <1>7
  <2> QED BY <2>1, <2>2, <1>1, <1>3
<1> QED BY <1>10, <1>11, <1>12, <1>13 DEF q, s, c, n

-----------------------------------------------------------------------------
(* What a request opens with, and covers                                    *)

\* What holds the newest summary and all behind it covers the path.
LEMMA CoversAll ==
    ASSUME NEW r, NEW p \in Seq(Ids(r)), NEW b, NEW N \in 0..Len(p), FoldedIn(r, p),
           N # 0 => r[p[N]].kind = "summary",
           \A i \in 1..Len(p) : i >= N => \E k \in 1..Len(b) : b[k] = p[i]
    PROVE  \A i \in 1..Len(p) :
              \/ \E k \in 1..Len(b) : b[k] = p[i]
              \/ \E k \in 1..Len(b) : r[b[k]].kind = "summary" /\ p[i] \in r[b[k]].folds
<1> TAKE i \in 1..Len(p)
<1>1. Len(p) \in Nat
  BY PathIds
<1>2. CASE i >= N
  BY <1>2
<1>3. CASE i < N
  <2>1. N \in 1..Len(p) /\ N # 0 /\ i \in 1..N - 1 /\ N >= N
    BY <1>1, <1>3
  <2>2. p[i] \in r[p[N]].folds /\ r[p[N]].kind = "summary"
    BY <2>1 DEF FoldedIn
  <2>3. PICK k \in 1..Len(b) : b[k] = p[N]
    BY <2>1
  <2> QED BY <2>2, <2>3
<1> QED BY <1>1, <1>2, <1>3

\* The whole history: what is sent of a path that goes out again.
LEMMA HistoryWhole ==
    ASSUME NEW p \in Seq(Ids(rows)), p # <<>>
    PROVE  LET h == HistoryUntil(p, Len(p))
               N == NewestIn(rows, p, Len(p))
           IN /\ h \in Seq(Ids(rows)) /\ h # <<>>
              /\ OpeningIn(rows, h) = UnderIn(rows, p)
              /\ \A i \in 1..Len(p) : i >= N => \E k \in 1..Len(h) : h[k] = p[i]
<1> DEFINE n == Len(p)
           N == NewestIn(rows, p, n)
           h == HistoryUntil(p, n)
           first == IF N = 0 THEN 1 ELSE N
<1>1. n \in Nat \ {0} /\ n \in 0..n
  BY PathIds
<1>2. /\ h \in Seq(Ids(rows)) /\ Len(h) = n - first + 1 /\ first \in 1..n + 1
      /\ \A i \in first..n : i - first + 1 \in 1..Len(h) /\ h[i - first + 1] = p[i]
  BY <1>1, HistoryIs
<1>3. /\ N \in 0..n /\ (N # 0 => rows[p[N]].kind = "summary")
      /\ \A i \in 1..n : rows[p[i]].kind = "summary" => i <= N
  BY <1>1, NewestIs
<1>4. UnderIn(rows, p) = IF N = 0 THEN 0 ELSE p[N]
  BY DEF UnderIn
<1>5. OpeningIn(rows, h) = IF rows[h[1]].kind = "summary" THEN h[1] ELSE 0
  BY DEF OpeningIn
<1> HIDE DEF n, N, h
<1>6. first \in 1..n /\ first \in first..n /\ first - first + 1 = 1
  <2>1. first \in Nat /\ 1 <= first /\ first <= n
    BY <1>1, <1>3
  <2> HIDE DEF first
  <2> QED BY <2>1, <1>1
<1>7. h[1] = p[first] /\ 1 \in 1..Len(h)
  <2> HIDE DEF first
  <2>1. first - first + 1 \in 1..Len(h) /\ h[first - first + 1] = p[first]
    BY <1>2, <1>6
  <2> QED BY <2>1, <1>6
<1>8. h # <<>>
  BY <1>7
<1>9. OpeningIn(rows, h) = UnderIn(rows, p)
  <2>1. CASE N = 0
    <3>1. rows[p[1]].kind # "summary" /\ first = 1
      BY <2>1, <1>1, <1>3
    <3> QED BY <3>1, <2>1, <1>4, <1>5, <1>7
  <2>2. CASE N # 0
    BY <2>2, <1>3, <1>4, <1>5, <1>7
  <2> QED BY <2>1, <2>2
<1>10. ASSUME NEW i \in 1..n, i >= N PROVE \E k \in 1..Len(h) : h[k] = p[i]
  <2>1. i \in first..n
    BY <1>1, <1>3, <1>10
  <2> QED BY <2>1, <1>2
<1> QED BY <1>2, <1>8, <1>9, <1>10 DEF n, N, h

\* The history of a path and then one message, which is none of its summaries.
LEMMA HistoryAnd ==
    ASSUME NEW p \in Seq(Ids(rows)), NEW n \in 0..Len(p), NEW s, Grown(rows, s),
           NEW id \in Ids(s), s[id].kind # "summary", Len(rows) \in Nat, Len(s) \in Nat
    PROVE  LET b == Append(HistoryUntil(p, n), id)
               N == NewestIn(rows, p, n)
           IN /\ b \in Seq(Ids(s)) /\ b # <<>>
              /\ OpeningIn(s, b) = IF N = 0 THEN 0 ELSE p[N]
              /\ \A i \in 1..n : i >= N => \E k \in 1..Len(b) : b[k] = p[i]
              /\ \E k \in 1..Len(b) : b[k] = id
<1> DEFINE N == NewestIn(rows, p, n)
           h == HistoryUntil(p, n)
           b == Append(h, id)
           first == IF N = 0 THEN 1 ELSE N
           l == Len(h)
<1>1. n \in Nat /\ n <= Len(p) /\ Len(p) \in Nat /\ \A i \in 1..n : p[i] \in 1..Len(rows)
  BY PathIds
<1>2. /\ h \in Seq(Ids(rows)) /\ l = n - first + 1 /\ first \in 1..n + 1
      /\ \A i \in first..n : i - first + 1 \in 1..l /\ h[i - first + 1] = p[i]
  BY <1>1, HistoryIs
<1>3. /\ N \in 0..n /\ (N # 0 => rows[p[N]].kind = "summary")
      /\ \A i \in 1..n : rows[p[i]].kind = "summary" => i <= N
  BY <1>1, NewestIs
<1>4. h \in Seq(Ids(s))
  <2>1. Ids(rows) \subseteq Ids(s)
    BY DEF Grown, Ids
  <2> QED BY <2>1, <1>2, WiderSeq
<1>5. OpeningIn(s, b) = IF s[b[1]].kind = "summary" THEN b[1] ELSE 0
  BY DEF OpeningIn
<1> HIDE DEF h, N
<1>6. /\ b \in Seq(Ids(s)) /\ Len(b) = l + 1
      /\ \A k \in 1..l + 1 : b[k] = IF k = l + 1 THEN id ELSE h[k]
  BY <1>4, AppendIs
<1> HIDE DEF b, l
<1>7. l \in Nat /\ l + 1 \in 1..l + 1
  BY <1>1, <1>2, <1>3
<1>8. b # <<>> /\ \E k \in 1..Len(b) : b[k] = id
  BY <1>6, <1>7
<1>9. ASSUME NEW i \in 1..n, i >= N
      PROVE  \E k \in 1..Len(b) : b[k] = p[i]
  <2>1. i \in first..n
    BY <1>1, <1>3, <1>9
  <2>2. i - first + 1 \in 1..l /\ h[i - first + 1] = p[i]
    BY <2>1, <1>2
  <2>3. i - first + 1 \in 1..l + 1 /\ i - first + 1 # l + 1
    BY <2>2, <1>7
  <2> QED BY <2>2, <2>3, <1>6
<1>10. OpeningIn(s, b) = IF N = 0 THEN 0 ELSE p[N]
  <2>1. CASE first \in 1..n
    <3>1. first \in first..n /\ first - first + 1 = 1
      BY <2>1, <1>1
    <3>2. 1 \in 1..l /\ h[1] = p[first]
      BY <3>1, <1>2
    <3>3. b[1] = p[first]
      BY <3>2, <1>6, <1>7
    <3>4. s[p[first]].kind = rows[p[first]].kind
      BY <2>1, <1>1 DEF Grown
    <3>5. CASE N = 0
      <4>1. rows[p[1]].kind # "summary" /\ first = 1
        BY <3>5, <2>1, <1>3
      <4> QED BY <4>1, <3>3, <3>4, <3>5, <1>5
    <3>6. CASE N # 0
      BY <3>3, <3>4, <3>6, <1>3, <1>5
    <3> QED BY <3>5, <3>6
  <2>2. CASE first \notin 1..n
    <3>1. n = 0 /\ N = 0 /\ l = 0
      BY <2>2, <1>1, <1>2, <1>3
    <3>2. b[1] = id
      BY <3>1, <1>6
    <3> QED BY <3>1, <3>2, <1>5
  <2> QED BY <2>1, <2>2
<1> QED BY <1>6, <1>8, <1>9, <1>10 DEF N, h, b

-----------------------------------------------------------------------------
(* The path is a line of turns, each with one reply                         *)

Phases == {"idle", "ready", "called", "stopped", "rejected", "failed", "compacting",
           "compacted", "over"}

\* A request that is being made, or has come to the end of its own.
Asking == {"ready", "called", "stopped", "rejected"}

Runs(r) == [at : Phases, base : Seq(Ids(r)), reply : {0} \cup Ids(r),
            own : Seq(Nat), usage : Usages]

TypeOK ==
    /\ rows \in Seq(Rows)
    /\ path \in Seq(Ids(rows)) /\ memory \in Seq(Ids(rows))
    /\ anchor \in Usages /\ tracker \in Usages
    /\ run \in Runs(rows)
    /\ seen \in Nat /\ overflows \in 0..MaxOverflows
    /\ prompts \in 0..MaxPrompts /\ failures \in 0..MaxFailures /\ commands \in 0..MaxCommands

LastKind == rows[path[Len(path)]].kind

FirstKind == rows[path[1]].kind

\* The path starts with a prompt, and ends with one or with the reply that the request continues.
EndsWell ==
    /\ run.at # "idle" => path # <<>>
    /\ path # <<>> => FirstKind = "prompt" /\ LastKind # "summary"
    /\ run.at \in Asking =>
         \/ run.reply = 0 /\ LastKind = "prompt"
         \/ run.reply = path[Len(path)] /\ LastKind = "reply"
    /\ run.at \in Asking => run.base # <<>>

LineInv == TypeOK /\ EndsWell /\ OneReplyIn(rows, path)

-----------------------------------------------------------------------------
(* Sizes                                                                    *)

Message == [size : Nat, tool : BOOLEAN]

LEMMA ResultsType ==
    ASSUME NEW calls \in Seq(Nat)
    PROVE  Results(calls) \in Seq(Message)
<1>1. Len(calls) \in Nat /\ DOMAIN calls = 1..Len(calls)
      /\ \A i \in 1..Len(calls) : calls[i] \in Nat
  OBVIOUS
<1> DEFINE n == Len(calls)
           f == [i \in 1..n |-> [size |-> calls[i], tool |-> TRUE]]
<1>2. Results(calls) = f
  BY <1>1 DEF Results
<1> HIDE DEF n
<1>3. \A i \in 1..n : [size |-> calls[i], tool |-> TRUE] \in Message
  BY <1>1 DEF n, Message
<1>4. f \in Seq(Message)
  BY <1>1, <1>3 DEF n
<1> QED BY <1>2, <1>4

LEMMA MessagesType ==
    ASSUME NEW row \in Rows
    PROVE  Messages(row) \in Seq(Message)
<1>1. row.calls \in Seq(Nat) /\ row.text \in Nat
  BY DEF Rows
<1>2. Results(row.calls) \in Seq(Message)
  BY <1>1, ResultsType
<1> DEFINE m == [size |-> row.text, tool |-> FALSE]
<1>3. m \in Message
  BY <1>1 DEF Message
<1> HIDE DEF m
<1>4. <<>> \in Seq(Message) /\ <<m>> \in Seq(Message)
  BY <1>3
<1>5. (IF row.text = 0 THEN <<>> ELSE <<m>>) \in Seq(Message)
  BY <1>4
<1>6. Messages(row) = Results(row.calls) \o (IF row.text = 0 THEN <<>> ELSE <<m>>)
  BY DEF Messages, m
<1> QED BY <1>2, <1>5, <1>6, JoinIs

LEMMA RequestType ==
    ASSUME TypeOK
    PROVE  Request \in Seq(Message)
<1>1. run.base \in Seq(Ids(rows)) /\ run.own \in Seq(Nat) /\ rows \in Seq(Rows)
  BY DEF TypeOK, Runs
<1> DEFINE n == Len(run.base)
           f == [i \in 1..n |-> Messages(rows[run.base[i]])]
<1>2. n \in Nat /\ DOMAIN run.base = 1..n /\ \A i \in 1..n : run.base[i] \in 1..Len(rows)
  BY <1>1, PathIds
<1>3. \A i \in 1..n : Messages(rows[run.base[i]]) \in Seq(Message)
  <2> SUFFICES ASSUME NEW i \in 1..n PROVE Messages(rows[run.base[i]]) \in Seq(Message)
    OBVIOUS
  <2>1. rows[run.base[i]] \in Rows
    BY <1>1, <1>2
  <2> QED BY <2>1, MessagesType
<1>4. f \in Seq(Seq(Message))
  <2> HIDE DEF n
  <2> QED BY <1>2, <1>3
<1>5. FlattenSeq(f) \in Seq(Message)
  <2> HIDE DEF f
  <2> QED BY <1>4, FlatType
<1>6. Request = FlattenSeq(f) \o Results(run.own)
  BY <1>2 DEF Request
<1>7. Results(run.own) \in Seq(Message)
  BY <1>1, ResultsType
<1> HIDE DEF f
<1> QED BY <1>5, <1>6, <1>7, JoinIs

LEMMA SizeType ==
    ASSUME NEW messages \in Seq(Message)
    PROVE  Size(messages) \in Nat
<1> DEFINE n == Len(messages)
           f == [i \in 1..n |-> messages[i].size]
<1>1. n \in Nat /\ DOMAIN messages = 1..n /\ \A i \in 1..n : messages[i] \in Message
  OBVIOUS
<1>2. \A i \in 1..n : messages[i].size \in Nat
  BY <1>1 DEF Message
<1>3. Size(messages) = Sum(f)
  BY <1>1 DEF Size
<1> HIDE DEF n
<1>4. f \in Seq(Nat)
  BY <1>1, <1>2
<1> HIDE DEF f
<1> QED BY <1>3, <1>4, SumType

LEMMA SentType ==
    ASSUME NEW messages \in Seq(Message)
    PROVE  Sent(messages) \in Seq(Message)
<1> DEFINE n == Len(messages) - 1
           old(i) == i <= n /\ Size(SubSeq(messages, i, n)) > Keep
           F(i) == IF messages[i].tool /\ old(i)
                   THEN [messages[i] EXCEPT !.size = 0] ELSE messages[i]
           l == Len(messages)
           f == [i \in 1..l |-> F(i)]
<1>1. l \in Nat /\ DOMAIN messages = 1..l /\ \A i \in 1..l : messages[i] \in Message
  OBVIOUS
<1>2. \A i \in 1..l : F(i) \in Message
  <2> HIDE DEF old
  <2> QED BY <1>1 DEF Message
<1>3. Trimmed(messages) = f
  BY <1>1 DEF Trimmed
<1> HIDE DEF F, l
<1>4. f \in Seq(Message)
  BY <1>1, <1>2
<1> QED BY <1>3, <1>4 DEF Sent

\* What a request costs is a number.
LEMMA CostType ==
    ASSUME TypeOK
    PROVE  Size(Sent(Request)) \in Nat
BY RequestType, SentType, SizeType

-----------------------------------------------------------------------------
(* Writing the reply                                                        *)

\* What every write of a reply, and every request that leaves none, brings.
Landed ==
    /\ rows' \in Seq(Rows) /\ Grown(rows, rows')
    /\ path' \in Seq(Ids(rows')) /\ memory' \in Seq(Ids(rows'))
    /\ path' # <<>> /\ FirstKind' = "prompt" /\ LastKind' # "summary"
    /\ OneReplyIn(rows', path')
    /\ FoldedIn(rows, path) => FoldedIn(rows', path')
    /\ FoldedIn(rows, memory) => FoldedIn(rows', memory')
    /\ UnderIn(rows', memory') = UnderIn(rows, memory)

LEMMA AskingIs ==
    ASSUME LineInv, run.at \in Asking
    PROVE  /\ rows \in Seq(Rows) /\ Len(rows) \in Nat
           /\ path \in Seq(Ids(rows)) /\ memory \in Seq(Ids(rows))
           /\ path # <<>> /\ Len(path) \in Nat \ {0} /\ path[Len(path)] \in Ids(rows)
           /\ run \in Runs(rows)
           /\ Earlier \in Seq(Nat) /\ run.own \in Seq(Nat) /\ Earlier \o run.own \in Seq(Nat)
           /\ run.usage \in Usages
           /\ OneReplyIn(rows, path) /\ FirstKind = "prompt" /\ path[1] \in Ids(rows)
           /\ \/ run.reply = 0 /\ LastKind = "prompt"
              \/ run.reply # 0 /\ run.reply = path[Len(path)] /\ LastKind = "reply"
<1>1. /\ rows \in Seq(Rows) /\ Len(rows) \in Nat
      /\ path \in Seq(Ids(rows)) /\ memory \in Seq(Ids(rows))
      /\ run \in Runs(rows) /\ OneReplyIn(rows, path)
  BY DEF LineInv, TypeOK
<1>2. path # <<>>
  BY DEF LineInv, EndsWell, Asking
<1>9. FirstKind = "prompt"
  BY <1>2 DEF LineInv, EndsWell
<1>3. path[1] \in Ids(rows) /\ Len(path) \in Nat \ {0} /\ path[Len(path)] \in Ids(rows)
  BY <1>1, <1>2, PathIds DEF Ids
<1>4. run.own \in Seq(Nat) /\ run.usage \in Usages /\ run.reply \in {0} \cup Ids(rows)
  BY <1>1 DEF Runs
<1>5. Earlier \in Seq(Nat)
  <2>1. CASE run.reply = 0
    BY <2>1 DEF Earlier
  <2>2. CASE run.reply # 0
    <3>1. rows[run.reply] \in Rows
      BY <2>2, <1>1, <1>4 DEF Ids
    <3> QED BY <3>1, <2>2 DEF Rows, Earlier
  <2> QED BY <2>1, <2>2
<1>6. Earlier \o run.own \in Seq(Nat)
  BY <1>4, <1>5, JoinIs
<1>7. \/ run.reply = 0 /\ LastKind = "prompt"
      \/ run.reply = path[Len(path)] /\ LastKind = "reply"
  BY DEF LineInv, EndsWell
<1>8. path[Len(path)] # 0
  BY <1>3 DEF Ids
<1> QED BY <1>1, <1>2, <1>3, <1>4, <1>5, <1>6, <1>7, <1>8, <1>9

LEMMA WriteIs ==
    ASSUME LineInv, run.at \in Asking, NEW text \in Nat, NEW usage \in Usages,
           Write(text, usage)
    PROVE  /\ Landed
           /\ rows'[path'[Len(path')]] = Row("reply", Earlier \o run.own, text, usage, {})
           /\ \/ run.reply = 0 /\ Len(path') = Len(path) + 1
                 /\ rows'[path'[Len(path)]] = rows[path[Len(path)]]
              \/ /\ run.reply # 0 /\ path' = path
                 /\ \A id \in Ids(rows) : rows'[id].kind = rows[id].kind
           /\ \A id \in Ids(rows') : \/ rows'[id].usage = usage
                                     \/ id \in Ids(rows) /\ rows'[id].usage = rows[id].usage
<1> DEFINE row == Row("reply", Earlier \o run.own, text, usage, {})
           n == Len(path)
           m == Len(rows) + 1
           u == Len(memory)
<1>1. /\ rows \in Seq(Rows) /\ Len(rows) \in Nat
      /\ path \in Seq(Ids(rows)) /\ memory \in Seq(Ids(rows))
      /\ path # <<>> /\ n \in Nat \ {0} /\ path[n] \in Ids(rows)
      /\ Earlier \o run.own \in Seq(Nat)
      /\ OneReplyIn(rows, path) /\ FirstKind = "prompt" /\ path[1] \in Ids(rows)
      /\ \/ run.reply = 0 /\ LastKind = "prompt"
         \/ run.reply # 0 /\ run.reply = path[n] /\ LastKind = "reply"
  BY AskingIs
<1>2. row \in Rows /\ row.kind = "reply" /\ row.usage = usage
  BY <1>1 DEF Rows, Row
<1>3. \/ run.reply # 0 /\ rows' = [rows EXCEPT ![run.reply] = row]
         /\ path' = path /\ memory' = memory
      \/ run.reply = 0 /\ rows' = Append(rows, row)
         /\ path' = Append(path, m) /\ memory' = Append(memory, m)
  BY DEF Write, Reply
<1> HIDE DEF row
<1>4. CASE run.reply # 0
  <2> DEFINE id == run.reply
  <2>1. id \in Ids(rows) /\ rows[id].kind = "reply" /\ id = path[n]
    BY <1>1, <1>4 DEF LastKind
  <2>2. /\ rows' \in Seq(Rows) /\ Len(rows') = Len(rows)
        /\ \A k \in Ids(rows) : rows'[k] = IF k = id THEN row ELSE rows[k]
        /\ Grown(rows, rows')
    <3>1. rows' = [rows EXCEPT ![id] = row]
      BY <1>3, <1>4
    <3> HIDE DEF id
    <3> DEFINE s == [rows EXCEPT ![id] = row]
    <3>2. /\ s \in Seq(Rows) /\ Len(s) = Len(rows)
          /\ \A k \in Ids(rows) : s[k] = IF k = id THEN row ELSE rows[k]
          /\ Grown(rows, s)
      <4>1. rows \in Seq(Rows) /\ row \in Rows /\ row.kind = "reply"
        BY <1>1, <1>2
      <4>2. id \in Ids(rows) /\ rows[id].kind = "reply"
        BY <2>1
      <4> QED BY <4>1, <4>2, GrownIn
    <3> HIDE DEF s
    <3> QED BY <3>1, <3>2 DEF s
  <2>3. path' = path /\ memory' = memory
    BY <1>3, <1>4
  <2>4. \A k \in Ids(rows) : rows'[k].kind = rows[k].kind
    BY <2>2 DEF Grown, Ids
  <2>5. rows'[path'[Len(path')]] = row
    BY <2>1, <2>2, <2>3
  <2>6. LastKind' = "reply"
    BY <2>5, <1>2 DEF LastKind
  <2>7. Ids(rows') = Ids(rows)
    BY <2>2 DEF Ids
  <2>8. \A k \in Ids(rows') : \/ rows'[k].usage = usage
                              \/ k \in Ids(rows) /\ rows'[k].usage = rows[k].usage
    <3> SUFFICES ASSUME NEW k \in Ids(rows')
                 PROVE  \/ rows'[k].usage = usage
                        \/ k \in Ids(rows) /\ rows'[k].usage = rows[k].usage
      OBVIOUS
    <3>0. k \in Ids(rows)
      BY <2>7
    <3>1. rows'[k] = row \/ rows'[k] = rows[k]
      BY <3>0, <2>2
    <3> QED BY <3>0, <3>1, <1>2
  <2>10. FirstKind' = "prompt"
    BY <2>3, <2>4, <1>1 DEF FirstKind
  <2>9. Landed
    BY <2>2, <2>3, <2>6, <2>10, <1>1, GrownKeeps DEF Landed
  <2> QED BY <2>3, <2>4, <2>5, <2>8, <2>9, <1>4 DEF row
<1>5. CASE run.reply = 0
  <2>1. rows' = Append(rows, row) /\ path' = Append(path, m) /\ memory' = Append(memory, m)
    BY <1>3, <1>5
  <2>2. /\ rows' \in Seq(Rows) /\ Len(rows') = m /\ rows'[m] = row /\ m \in Ids(rows')
        /\ \A id \in Ids(rows) : id \in Ids(rows') /\ rows'[id] = rows[id]
        /\ Grown(rows, rows')
    BY <2>1, <1>1, <1>2, GrownOn
  <2>3. Len(rows') \in Nat
    BY <2>2, <1>1
  <2>4. /\ path \in Seq(Ids(rows')) /\ memory \in Seq(Ids(rows'))
        /\ FoldedIn(rows, path) => FoldedIn(rows', path)
        /\ FoldedIn(rows, memory) => FoldedIn(rows', memory)
        /\ OneReplyIn(rows', path)
        /\ UnderIn(rows', memory) = UnderIn(rows, memory)
    BY <2>2, <2>3, <1>1, GrownKeeps
  <2> HIDE DEF m
  <2>5. rows'[m].kind = "reply"
    BY <2>2, <1>2
  <2>6. /\ path' \in Seq(Ids(rows')) /\ path' # <<>>
        /\ Len(path') = n + 1 /\ path'[n + 1] = m
        /\ \A i \in 1..n : path'[i] = path[i]
        /\ FoldedIn(rows', path) => FoldedIn(rows', path')
    <3> DEFINE q == Append(path, m)
    <3>1. /\ q \in Seq(Ids(rows')) /\ q # <<>>
          /\ Len(q) = n + 1 /\ q[n + 1] = m
          /\ \A i \in 1..n : q[i] = path[i]
          /\ FoldedIn(rows', path) => FoldedIn(rows', q)
      BY <2>2, <2>4, <2>5, PathOn
    <3> HIDE DEF q
    <3> QED BY <3>1, <2>1 DEF q
  <2>7. /\ memory' \in Seq(Ids(rows'))
        /\ FoldedIn(rows', memory) => FoldedIn(rows', memory')
        /\ UnderIn(rows', memory') = UnderIn(rows', memory)
    BY <2>1, <2>2, <2>4, <2>5, PathOn
  <2>8. rows'[path[n]].kind = "prompt"
    BY <2>2, <1>1, <1>5 DEF LastKind
  <2>9. OneReplyIn(rows', path')
    BY <2>1, <2>2, <2>4, <2>8, <1>1, OneReplyOn
  <2>10. rows'[path'[Len(path')]] = row
    BY <2>2, <2>6
  <2>11. LastKind' = "reply"
    BY <2>10, <1>2 DEF LastKind
  <2>12. rows'[path'[n]] = rows[path[n]]
    <3>1. n \in 1..n
      BY <1>1
    <3> QED BY <3>1, <2>2, <2>6, <1>1
  <2>16. FirstKind' = "prompt"
    <3>1. path'[1] = path[1]
      BY <2>6, <1>1
    <3> QED BY <3>1, <2>2, <1>1 DEF FirstKind
  <2>13. Landed
    BY <2>16, <2>2, <2>4, <2>6, <2>7, <2>9, <2>11 DEF Landed
  <2>14. \A id \in Ids(rows') : id = m \/ id \in Ids(rows)
    BY <2>2, <1>1 DEF Ids, m
  <2>15. \A id \in Ids(rows') : \/ rows'[id].usage = usage
                                \/ id \in Ids(rows) /\ rows'[id].usage = rows[id].usage
    <3> SUFFICES ASSUME NEW id \in Ids(rows')
                 PROVE  \/ rows'[id].usage = usage
                        \/ id \in Ids(rows) /\ rows'[id].usage = rows[id].usage
      OBVIOUS
    <3>1. CASE id = m
      <4>1. rows'[id] = row
        BY <3>1, <2>2
      <4> QED BY <4>1, <1>2
    <3>2. CASE id \in Ids(rows)
      BY <3>2, <2>2
    <3> QED BY <3>1, <3>2, <2>14
  <2> QED BY <2>6, <2>10, <2>12, <2>13, <2>15, <1>5 DEF row
<1> QED BY <1>4, <1>5

\* A request that gathered nothing leaves everything as it was.
LEMMA PersistIs ==
    ASSUME LineInv, run.at \in Asking, Persist
    PROVE  /\ Landed
           /\ \/ /\ Earlier \o run.own = <<>>
                 /\ rows' = rows /\ path' = path /\ memory' = memory
              \/ /\ Earlier \o run.own # <<>>
                 /\ Write(0, NoUsage)
<1>1. CASE Earlier \o run.own = <<>>
  <2>1. rows' = rows /\ path' = path /\ memory' = memory
    BY <1>1 DEF Persist
  <2>2. Grown(rows, rows)
    BY AskingIs DEF Grown
  <2>3. LastKind # "summary"
    BY AskingIs
  <2>4. LastKind' = LastKind /\ FirstKind' = "prompt"
    BY <2>1, AskingIs DEF LastKind, FirstKind
  <2>5. Landed
    BY <2>1, <2>2, <2>3, <2>4, AskingIs DEF Landed
  <2> QED BY <2>1, <2>5, <1>1
<1>2. CASE Earlier \o run.own # <<>>
  <2>1. Write(0, NoUsage)
    BY <1>2 DEF Persist
  <2>2. 0 \in Nat /\ NoUsage \in Usages
    BY DEF NoUsage, Usages
  <2> QED BY <2>1, <2>2, <1>2, WriteIs
<1> QED BY <1>1, <1>2

-----------------------------------------------------------------------------
(* Resuming                                                                 *)

LEMMA BoundsAre ==
    /\ MaxOverflows \in Nat /\ MaxPrompts \in Nat /\ MaxCalls \in Nat
    /\ MaxFailures \in Nat /\ MaxCommands \in Nat
    /\ Window \in Nat /\ Reserved \in Nat /\ Preamble \in Nat /\ Keep \in Nat
    /\ Reserved <= Window
BY CompactionAssumption

\* What LastUsage returns, of any rows.
LastUsageIn(r, p) ==
    LET n == Latest({i \in NewestIn(r, p, Len(p)) + 1..Len(p) : r[p[i]].usage.tokens > 0})
    IN IF n = 0 THEN NoUsage ELSE r[p[n]].usage

LEMMA LastUsageSame ==
    /\ LastUsage(path) = LastUsageIn(rows, path)
    /\ LastUsage(path)' = LastUsageIn(rows', path')
BY DEF LastUsage, LastUsageIn, Newest, NewestIn

\* It is the usage of a row, or none.
LEMMA LastUsageIs ==
    ASSUME NEW r \in Seq(Rows), NEW p \in Seq(Ids(r))
    PROVE  /\ LastUsageIn(r, p) \in Usages
           /\ \/ LastUsageIn(r, p) = NoUsage
              \/ \E id \in Ids(r) : LastUsageIn(r, p) = r[id].usage
<1> DEFINE N == NewestIn(r, p, Len(p))
           S == {i \in N + 1..Len(p) : r[p[i]].usage.tokens > 0}
           n == Latest(S)
<1>1. /\ Len(p) \in Nat /\ \A i \in 1..Len(p) : p[i] \in Ids(r)
      /\ N \in 0..Len(p)
  BY PathIds, NewestIs DEF Ids
<1>2. S \in SUBSET (1..Len(p))
  <2> HIDE DEF N
  <2> QED BY <1>1
<1>3. LastUsageIn(r, p) = IF n = 0 THEN NoUsage ELSE r[p[n]].usage
  BY DEF LastUsageIn
<1> HIDE DEF S
<1>4. n # 0 => n \in 1..Len(p)
  BY <1>1, <1>2, LatestIs
<1> HIDE DEF n
<1>5. NoUsage \in Usages
  BY DEF NoUsage, Usages
<1>6. n # 0 => p[n] \in Ids(r) /\ r[p[n]] \in Rows
  BY <1>1, <1>4 DEF Ids
<1>7. n # 0 => r[p[n]].usage \in Usages
  BY <1>6 DEF Rows
<1> QED BY <1>3, <1>5, <1>6, <1>7

\* A path that starts with a prompt has a last one.
LEMMA LastPromptIs ==
    ASSUME path \in Seq(Ids(rows)), path # <<>>, FirstKind = "prompt"
    PROVE  /\ LastPrompt \in 1..Len(path) /\ rows[path[LastPrompt]].kind = "prompt"
           /\ LastPrompt - 1 \in 0..Len(path)
           /\ LastKind = "prompt" => LastPrompt = Len(path)
<1> DEFINE n == Len(path)
           S == {i \in 1..n : rows[path[i]].kind = "prompt"}
<1>1. n \in Nat \ {0} /\ DOMAIN path = 1..n
  BY PathIds
<1>2. S \in SUBSET (1..n) /\ 1 \in S
  BY <1>1 DEF FirstKind
<1>3. LastPrompt = Latest(S)
  BY <1>1 DEF LastPrompt
<1>4. LastKind = "prompt" => n \in S
  BY <1>1 DEF LastKind
<1>5. \A i : i \in S => i \in 1..n /\ rows[path[i]].kind = "prompt"
  OBVIOUS
<1> HIDE DEF S
<1>6. LastPrompt \in S /\ \A j \in S : j <= LastPrompt
  BY <1>1, <1>2, <1>3, LatestIs
<1>7. LastPrompt \in 1..n /\ rows[path[LastPrompt]].kind = "prompt"
  BY <1>5, <1>6
<1> HIDE DEF n
<1>8. LastKind = "prompt" => LastPrompt = n
  <2> SUFFICES ASSUME LastKind = "prompt" PROVE LastPrompt = n
    OBVIOUS
  <2>1. n <= LastPrompt
    BY <1>4, <1>6
  <2> QED BY <2>1, <1>1, <1>7
<1>9. LastPrompt - 1 \in 0..n
  BY <1>1, <1>7
<1> QED BY <1>7, <1>8, <1>9 DEF n

LEMMA BaseType ==
    ASSUME rows \in Seq(Rows), path \in Seq(Ids(rows)), path # <<>>, FirstKind = "prompt"
    PROVE  ResumeBase \in Seq(Ids(rows)) /\ ResumeBase # <<>> /\ Continuation \in {0} \cup Ids(rows)
<1>1. ASSUME Continues PROVE ResumeBase \in Seq(Ids(rows)) /\ ResumeBase # <<>>
  <2>1. ResumeBase = HistoryUntil(path, Len(path))
    BY <1>1 DEF ResumeBase
  <2>2. HistoryUntil(path, Len(path)) \in Seq(Ids(rows)) /\ HistoryUntil(path, Len(path)) # <<>>
    BY HistoryWhole
  <2> QED BY <2>1, <2>2
<1>2. ASSUME ~Continues PROVE ResumeBase \in Seq(Ids(rows)) /\ ResumeBase # <<>>
  <2> DEFINE id == path[LastPrompt]
             n == LastPrompt - 1
             h == HistoryUntil(path, n)
  <2>1. id \in Ids(rows) /\ n \in 0..Len(path)
    BY LastPromptIs, PathIds DEF Ids
  <2>2. h \in Seq(Ids(rows))
    <3> HIDE DEF n
    <3> QED BY <2>1, HistoryIs
  <2>3. ResumeBase = Append(h, id)
    BY <1>2 DEF ResumeBase
  <2> HIDE DEF h, id
  <2>4. Append(h, id) # <<>>
    BY <2>1, <2>2
  <2> QED BY <2>1, <2>2, <2>3, <2>4, AppendIs
<1>3. Continuation \in {0} \cup Ids(rows)
  <2>1. path[Len(path)] \in Ids(rows)
    BY PathIds DEF Ids
  <2>2. Last(path) = path[Len(path)]
    BY DEF Last
  <2> QED BY <2>1, <2>2 DEF Continuation
<1> QED BY <1>1, <1>2, <1>3

LEMMA StartIs ==
    ASSUME NEW base, NEW reply, NEW seed, Start(base, reply, seed)
    PROVE  /\ run' = [at |-> "ready", base |-> base, reply |-> reply, own |-> <<>>,
                      usage |-> NoUsage]
           /\ tracker' = seed \/ tracker' = NoUsage
           /\ seen' = 0
BY DEF Start, Idle

LEMMA StartType ==
    ASSUME NEW r, NEW base \in Seq(Ids(r)), NEW reply \in {0} \cup Ids(r),
           NEW seed \in Usages, Start(base, reply, seed)
    PROVE  /\ run' \in Runs(r) /\ tracker' \in Usages /\ seen' \in Nat
           /\ run'.at = "ready" /\ run'.base = base /\ run'.reply = reply
           /\ run'.own = <<>> /\ run'.usage = NoUsage
           /\ tracker' = seed \/ tracker' = NoUsage
<1>1. NoUsage \in Usages /\ <<>> \in Seq(Nat)
  BY DEF NoUsage, Usages
<1>2. /\ run' = [at |-> "ready", base |-> base, reply |-> reply, own |-> <<>>,
                 usage |-> NoUsage]
      /\ tracker' = seed \/ tracker' = NoUsage
      /\ seen' = 0
  BY StartIs
<1>3. run' \in Runs(r)
  BY <1>1, <1>2 DEF Runs, Phases
<1> QED BY <1>1, <1>2, <1>3

\* A run among more rows.
LEMMA RunGrown ==
    ASSUME NEW r, NEW s, Len(r) \in Nat, Len(s) \in Nat, Len(r) <= Len(s), NEW u \in Runs(r)
    PROVE  u \in Runs(s)
<1>1. Ids(r) \subseteq Ids(s)
  BY DEF Ids
<1>2. Seq(Ids(r)) \subseteq Seq(Ids(s))
  BY <1>1, WiderSeq
<1> HIDE DEF Ids
<1> QED BY <1>1, <1>2 DEF Runs

LEMMA IdleType ==
    ASSUME NEW r
    PROVE  Idle \in Runs(r) /\ Idle.at = "idle"
<1>1. NoUsage \in Usages /\ <<>> \in Seq(Nat) /\ <<>> \in Seq(Ids(r))
  BY DEF NoUsage, Usages
<1> QED BY <1>1 DEF Idle, Runs, Phases

-----------------------------------------------------------------------------
(* One reply                                                                *)

LEMMA SendMessageLine == ASSUME LineInv, SendMessage PROVE LineInv'
<1> DEFINE m == Len(rows) + 1
           n == Len(path)
<1>1. PICK size \in Texts : rows' = Append(rows, Row("prompt", <<>>, size, NoUsage, {}))
  BY DEF SendMessage
<1> DEFINE row == Row("prompt", <<>>, size, NoUsage, {})
<1>2. /\ rows \in Seq(Rows) /\ path \in Seq(Ids(rows)) /\ memory \in Seq(Ids(rows))
      /\ anchor \in Usages /\ run \in Runs(rows) /\ OneReplyIn(rows, path)
      /\ overflows \in 0..MaxOverflows /\ failures \in 0..MaxFailures
      /\ commands \in 0..MaxCommands /\ prompts \in 0..MaxPrompts
  BY DEF LineInv, TypeOK
<1>3. row \in Rows /\ row.kind = "prompt"
  <2>1. size \in Nat /\ NoUsage \in Usages /\ <<>> \in Seq(Nat)
    BY CompactionAssumption DEF NoUsage, Usages
  <2> QED BY <2>1 DEF Row, Rows
<1> HIDE DEF row
<1>4. /\ rows' \in Seq(Rows) /\ Len(rows') = m /\ rows'[m] = row /\ m \in Ids(rows')
      /\ \A id \in Ids(rows) : id \in Ids(rows') /\ rows'[id] = rows[id]
      /\ Grown(rows, rows') /\ Len(rows) \in Nat
  BY <1>1, <1>2, <1>3, GrownOn DEF row
<1>5. /\ path' = Append(path, m) /\ memory' = Append(memory, m)
      /\ Start(Append(HistoryUntil(memory, Len(memory)), m), 0, anchor)
      /\ prompts' = prompts + 1 /\ prompts < MaxPrompts
      /\ anchor' = anchor /\ overflows' = overflows
      /\ failures' = failures /\ commands' = commands
  BY <1>4 DEF SendMessage
<1>6. Len(rows') \in Nat
  BY <1>4
<1> HIDE DEF m
<1>7. /\ path \in Seq(Ids(rows')) /\ memory \in Seq(Ids(rows')) /\ OneReplyIn(rows', path)
  BY <1>2, <1>4, <1>6, GrownKeeps
<1>8. rows'[m].kind = "prompt"
  BY <1>3, <1>4
<1>9. /\ path' \in Seq(Ids(rows')) /\ path' # <<>>
      /\ Len(path') = n + 1 /\ path'[n + 1] = m /\ n \in Nat
      /\ \A i \in 1..n : path'[i] = path[i]
  <2> DEFINE q == Append(path, m)
  <2>1. /\ q \in Seq(Ids(rows')) /\ q # <<>>
        /\ Len(q) = n + 1 /\ q[n + 1] = m /\ n \in Nat
        /\ \A i \in 1..n : q[i] = path[i]
    BY <1>4, <1>7, <1>8, PathOn
  <2> HIDE DEF q
  <2> QED BY <2>1, <1>5 DEF q
<1>10. memory' \in Seq(Ids(rows'))
  BY <1>4, <1>5, <1>7, AppendIs
<1>11. OneReplyIn(rows', path')
  BY <1>4, <1>5, <1>7, <1>8, OneReplyOn
<1>12. LastKind' = "prompt"
  BY <1>8, <1>9 DEF LastKind
<1>13. FirstKind' = "prompt"
  <2>1. CASE path = <<>>
    <3>1. n = 0
      BY <2>1
    <3> QED BY <3>1, <1>8, <1>9 DEF FirstKind
  <2>2. CASE path # <<>>
    <3>1. FirstKind = "prompt"
      BY <2>2 DEF LineInv, EndsWell
    <3>2. 1 \in 1..n /\ path[1] \in Ids(rows)
      BY <2>2, <1>2, PathIds DEF Ids
    <3>3. path'[1] = path[1] /\ rows'[path[1]] = rows[path[1]]
      BY <3>2, <1>4, <1>9
    <3> QED BY <3>1, <3>3 DEF FirstKind
  <2> QED BY <2>1, <2>2
<1>14. /\ run' \in Runs(rows') /\ tracker' \in Usages /\ seen' \in Nat
       /\ run'.at = "ready" /\ run'.reply = 0 /\ run'.base # <<>>
  <2> DEFINE k == Len(memory)
             h == HistoryUntil(memory, k)
             b == Append(h, m)
  <2>1. k \in 0..k
    BY <1>2, PathIds
  <2>2. h \in Seq(Ids(rows))
    <3> HIDE DEF k
    <3> QED BY <2>1, <1>2, HistoryIs DEF k
  <2>3. Ids(rows) \subseteq Ids(rows')
    BY <1>4
  <2> HIDE DEF h
  <2>7. h \in Seq(Ids(rows'))
    BY <2>2, <2>3, WiderSeq
  <2>4. b \in Seq(Ids(rows')) /\ b # <<>>
    BY <2>7, <1>4
  <2> HIDE DEF b
  <2>5. Start(b, 0, anchor)
    BY <1>5 DEF b, h
  <2>6. 0 \in {0} \cup Ids(rows')
    OBVIOUS
  <2> QED BY <2>4, <2>5, <2>6, <1>2, StartType
<1>15. TypeOK'
  <2>1. overflows' \in 0..MaxOverflows /\ failures' \in 0..MaxFailures
        /\ commands' \in 0..MaxCommands
    BY <1>2, <1>5
  <2>2. prompts' \in 0..MaxPrompts
    BY <1>2, <1>5, BoundsAre
  <2>3. anchor' \in Usages
    BY <1>2, <1>5
  <2> QED BY <2>1, <2>2, <2>3, <1>4, <1>9, <1>10, <1>14 DEF TypeOK
<1>16. EndsWell'
  BY <1>9, <1>12, <1>13, <1>14 DEF EndsWell
<1> QED BY <1>11, <1>15, <1>16 DEF LineInv

\* A path spliced: shared by the two commands that compact.
LEMMA SpliceLine ==
    ASSUME LineInv, HasPlan(path), rows' = Append(rows, Summary(path)), path' = Spliced(path)
    PROVE  /\ rows' \in Seq(Rows) /\ Len(rows) \in Nat /\ Len(rows') = Len(rows) + 1
           /\ Grown(rows, rows')
           /\ path' \in Seq(Ids(rows')) /\ memory \in Seq(Ids(rows')) /\ run \in Runs(rows')
           /\ path # <<>> /\ path' # <<>>
           /\ FirstKind' = "prompt" /\ LastKind' # "summary" /\ LastKind' = LastKind
           /\ OneReplyIn(rows', path')
           /\ \A id \in Ids(rows) : id \in Ids(rows') /\ rows'[id] = rows[id]
           /\ \A id \in Ids(rows') : id \in Ids(rows) \/ rows'[id].usage = NoUsage
<1> DEFINE s == Append(rows, Summary(path))
           q == Spliced(path)
           n == Len(path)
           c == PlanCut(path)
<1>1. /\ rows \in Seq(Rows) /\ path \in Seq(Ids(rows)) /\ memory \in Seq(Ids(rows))
      /\ run \in Runs(rows) /\ OneReplyIn(rows, path)
  BY DEF LineInv, TypeOK
<1>2. /\ Summary(path) \in Rows /\ Summary(path).usage = NoUsage
      /\ q \in Seq(Ids(s)) /\ Len(q) = n + 1
      /\ \A i \in 1..n + 1 :
            q[i] = IF i < c THEN path[i] ELSE IF i = c THEN Len(rows) + 1 ELSE path[i - 1]
  BY <1>1, SplicedIs
<1>3. OneReplyIn(s, q) /\ q # <<>> /\ q[Len(q)] = path[n] /\ path # <<>>
  BY <1>1, SplicedKeeps
<1>4. /\ s \in Seq(Rows) /\ Len(s) = Len(rows) + 1 /\ s[Len(rows) + 1] = Summary(path)
      /\ \A id \in Ids(rows) : id \in Ids(s) /\ s[id] = rows[id]
      /\ Grown(rows, s) /\ Len(rows) \in Nat
  BY <1>1, <1>2, GrownOn
<1>5. /\ PlanStart(path) \in 1..n /\ c \in 1..n /\ PlanStart(path) < c /\ n \in Nat
  BY <1>1, PlanIs, PathIds
<1> HIDE DEF s, q, c
<1>6. Len(s) \in Nat /\ Len(rows) <= Len(s)
  BY <1>4
<1>7. memory \in Seq(Ids(s)) /\ run \in Runs(s)
  BY <1>1, <1>4, <1>6, GrownKeeps, RunGrown
<1>8. q[1] = path[1]
  <2>1. 1 \in 1..n + 1 /\ 1 < c
    BY <1>5
  <2> QED BY <2>1, <1>2
<1>9. path[1] \in Ids(rows) /\ path[n] \in Ids(rows)
  BY <1>1, <1>3, PathIds DEF Ids
<1>10. FirstKind = "prompt" /\ LastKind # "summary"
  BY <1>3 DEF LineInv, EndsWell
<1>11. rows' = s /\ path' = q
  BY DEF s, q
<1>12. FirstKind' = "prompt" /\ LastKind' = LastKind
  BY <1>3, <1>4, <1>8, <1>9, <1>10, <1>11 DEF FirstKind, LastKind
<1>13. \A id \in Ids(s) : id \in Ids(rows) \/ s[id].usage = NoUsage
  <2>1. \A id \in Ids(s) : id \in Ids(rows) \/ id = Len(rows) + 1
    BY <1>4 DEF Ids
  <2> QED BY <2>1, <1>2, <1>4
<1> QED BY <1>2, <1>3, <1>4, <1>7, <1>10, <1>11, <1>12, <1>13

LEMMA CompactSessionLine == ASSUME LineInv, CompactSession PROVE LineInv'
<1>1. /\ HasPlan(path) /\ rows' = Append(rows, Summary(path)) /\ path' = Spliced(path)
      /\ memory' = path' /\ anchor' = LastUsage(path)' /\ run' = run /\ tracker' = tracker
      /\ seen' = seen /\ overflows' = overflows /\ prompts' = prompts /\ failures' = failures
      /\ commands < MaxCommands /\ commands' = commands + 1 /\ run.at = "idle"
  BY DEF CompactSession, request
<1>2. /\ rows' \in Seq(Rows) /\ path' \in Seq(Ids(rows')) /\ run \in Runs(rows')
      /\ path' # <<>> /\ FirstKind' = "prompt" /\ LastKind' # "summary"
      /\ OneReplyIn(rows', path')
  BY <1>1, SpliceLine
<1>3. anchor' \in Usages
  <2>1. anchor' = LastUsageIn(rows', path')
    BY <1>1, LastUsageSame
  <2> QED BY <2>1, <1>2, LastUsageIs
<1>4. TypeOK'
  <2>1. commands' \in 0..MaxCommands
    <3>1. commands \in 0..MaxCommands
      BY DEF LineInv, TypeOK
    <3> QED BY <3>1, <1>1, BoundsAre
  <2>2. /\ tracker' \in Usages /\ seen' \in Nat /\ overflows' \in 0..MaxOverflows
        /\ prompts' \in 0..MaxPrompts /\ failures' \in 0..MaxFailures
    BY <1>1 DEF LineInv, TypeOK
  <2>3. memory' \in Seq(Ids(rows')) /\ run' \in Runs(rows')
    BY <1>1, <1>2
  <2> QED BY <2>1, <2>2, <2>3, <1>2, <1>3 DEF TypeOK
<1>5. run'.at \notin Asking /\ run'.at = "idle"
  BY <1>1 DEF Asking
<1>6. EndsWell'
  BY <1>2, <1>5 DEF EndsWell
<1> QED BY <1>2, <1>4, <1>6 DEF LineInv

LEMMA LoadSessionLine == ASSUME LineInv, LoadSession PROVE LineInv'
<1>1. /\ rows' = rows /\ path' = path /\ memory' = path /\ anchor' = LastUsage(path)
      /\ run' = run /\ tracker' = tracker /\ seen' = seen /\ overflows' = 0
      /\ prompts' = prompts /\ failures' = failures
      /\ commands < MaxCommands /\ commands' = commands + 1
  BY DEF LoadSession, request
<1>2. anchor' \in Usages
  <2>1. rows \in Seq(Rows) /\ path \in Seq(Ids(rows))
    BY DEF LineInv, TypeOK
  <2> QED BY <2>1, <1>1, LastUsageIs, LastUsageSame
<1>3. TypeOK'
  <2>1. commands' \in 0..MaxCommands /\ overflows' \in 0..MaxOverflows
    <3>1. commands \in 0..MaxCommands
      BY DEF LineInv, TypeOK
    <3> QED BY <3>1, <1>1, BoundsAre
  <2>2. /\ tracker' \in Usages /\ seen' \in Nat /\ rows' \in Seq(Rows)
        /\ prompts' \in 0..MaxPrompts /\ failures' \in 0..MaxFailures
        /\ memory' \in Seq(Ids(rows')) /\ path' \in Seq(Ids(rows')) /\ run' \in Runs(rows')
    BY <1>1 DEF LineInv, TypeOK
  <2> QED BY <2>1, <2>2, <1>2 DEF TypeOK
<1>4. EndsWell'
  <2>1. FirstKind' = FirstKind /\ LastKind' = LastKind
    BY <1>1 DEF FirstKind, LastKind
  <2> QED BY <2>1, <1>1 DEF LineInv, EndsWell
<1>5. OneReplyIn(rows', path')
  BY <1>1 DEF LineInv
<1> QED BY <1>3, <1>4, <1>5 DEF LineInv

\* What a request opens with is a row, or 0.
LEMMA OpeningIs ==
    ASSUME NEW b \in Seq(Ids(rows)), b # <<>>
    PROVE  Opening(b) = OpeningIn(rows, b) /\ Opening(b) \in Nat
<1>1. Head(b) = b[1] /\ b[1] \in Ids(rows)
  <2>1. Len(b) \in Nat /\ 1 \in 1..Len(b)
    OBVIOUS
  <2> QED BY <2>1
<1>2. b[1] \in Nat
  BY <1>1 DEF Ids
<1> QED BY <1>1, <1>2 DEF Opening, OpeningIn

LEMMA CallModelLine == ASSUME LineInv, CallModel PROVE LineInv'
<1>1. /\ run.at = "ready" /\ rows' = rows /\ path' = path /\ memory' = memory
      /\ overflows' = overflows /\ prompts' = prompts /\ failures' = failures
      /\ commands' = commands
  BY DEF CallModel, bounds
<1> DEFINE size == Size(Sent(Request))
           usage == [tokens |-> size + Preamble, under |-> Opening(run.base)]
<1>2. \/ /\ run' = [run EXCEPT !.at = "stopped"]
         /\ tracker' = tracker /\ anchor' = anchor /\ seen' = seen
      \/ /\ seen' = size
         /\ \/ /\ run' = [run EXCEPT !.at = "rejected"]
               /\ tracker' = tracker /\ anchor' = anchor
            \/ /\ run' = [run EXCEPT !.at = "called", !.usage = usage]
               /\ tracker' = usage /\ anchor' = usage
            \/ /\ run' = [run EXCEPT !.at = "called"]
               /\ tracker' = tracker /\ anchor' = anchor
  BY DEF CallModel
<1>3. /\ run \in Runs(rows) /\ tracker \in Usages /\ anchor \in Usages /\ seen \in Nat
      /\ rows \in Seq(Rows) /\ run.at \in Asking
  BY <1>1 DEF LineInv, TypeOK, Asking
<1>4. size \in Nat
  BY CostType DEF LineInv
<1>5. Opening(run.base) \in Nat
  <2>1. run.base \in Seq(Ids(rows)) /\ run.base # <<>>
    BY <1>3 DEF Runs, LineInv, EndsWell
  <2> QED BY <2>1, OpeningIs
<1> HIDE DEF size
<1>6. usage \in Usages
  <2>1. size + Preamble \in Nat
    BY <1>4, BoundsAre
  <2> QED BY <2>1, <1>5 DEF Usages
<1> HIDE DEF usage
<1>7. /\ run' \in Runs(rows) /\ tracker' \in Usages /\ anchor' \in Usages /\ seen' \in Nat
      /\ run'.base = run.base /\ run'.reply = run.reply
  BY <1>2, <1>3, <1>4, <1>6 DEF Runs, Phases
<1>8. TypeOK'
  <2>1. /\ rows' \in Seq(Rows) /\ path' \in Seq(Ids(rows')) /\ memory' \in Seq(Ids(rows'))
        /\ overflows' \in 0..MaxOverflows /\ prompts' \in 0..MaxPrompts
        /\ failures' \in 0..MaxFailures /\ commands' \in 0..MaxCommands
    BY <1>1 DEF LineInv, TypeOK
  <2>2. run' \in Runs(rows')
    BY <1>1, <1>7
  <2> QED BY <2>1, <2>2, <1>7 DEF TypeOK
<1>9. EndsWell'
  <2>1. FirstKind' = FirstKind /\ LastKind' = LastKind
    BY <1>1 DEF FirstKind, LastKind
  <2>2. run.at # "idle"
    BY <1>1
  <2> QED BY <2>1, <2>2, <1>1, <1>3, <1>7 DEF LineInv, EndsWell
<1> QED BY <1>1, <1>8, <1>9 DEF LineInv

LEMMA CallToolLine == ASSUME LineInv, CallTool PROVE LineInv'
<1>1. PICK size \in Outputs : run' = [run EXCEPT !.at = "ready", !.own = Append(@, size)]
  BY DEF CallTool
<1>2. /\ run.at = "called" /\ rows' = rows /\ path' = path /\ memory' = memory
      /\ anchor' = anchor /\ tracker' = tracker /\ seen' = seen
      /\ overflows' = overflows /\ prompts' = prompts /\ failures' = failures
      /\ commands' = commands
  BY DEF CallTool, bounds, session
<1>3. run \in Runs(rows) /\ run.at \in Asking
  BY <1>2 DEF LineInv, TypeOK, Asking
<1>4. Append(run.own, size) \in Seq(Nat)
  <2>1. size \in Nat /\ run.own \in Seq(Nat)
    BY <1>3, CompactionAssumption DEF Runs
  <2> QED BY <2>1
<1>5. run' \in Runs(rows) /\ run'.base = run.base /\ run'.reply = run.reply
  <2> DEFINE o == Append(run.own, size)
  <2>1. run' = [run EXCEPT !.at = "ready", !.own = o] /\ o \in Seq(Nat)
    BY <1>1, <1>3, <1>4 DEF Runs
  <2> HIDE DEF o
  <2> QED BY <2>1, <1>3 DEF Runs, Phases
<1>6. TypeOK'
  <2>1. /\ rows' \in Seq(Rows) /\ path' \in Seq(Ids(rows')) /\ memory' \in Seq(Ids(rows'))
        /\ overflows' \in 0..MaxOverflows /\ prompts' \in 0..MaxPrompts
        /\ failures' \in 0..MaxFailures /\ commands' \in 0..MaxCommands
        /\ tracker' \in Usages /\ anchor' \in Usages /\ seen' \in Nat
    BY <1>2 DEF LineInv, TypeOK
  <2>2. run' \in Runs(rows')
    BY <1>2, <1>5
  <2> QED BY <2>1, <2>2 DEF TypeOK
<1>7. EndsWell'
  <2>1. FirstKind' = FirstKind /\ LastKind' = LastKind
    BY <1>2 DEF FirstKind, LastKind
  <2>2. run.at # "idle"
    BY <1>2
  <2> QED BY <2>1, <2>2, <1>2, <1>3, <1>5 DEF LineInv, EndsWell
<1> QED BY <1>2, <1>6, <1>7 DEF LineInv

\* A request that has written what it had, and is over.
LEMMA LandedLine ==
    ASSUME LineInv, Landed,
           \/ run' = Idle
           \/ run' = [run EXCEPT !.at = "failed"]
           \/ run' = [run EXCEPT !.at = "compacting"],
           anchor' = anchor, tracker' = tracker, seen' = seen, prompts' = prompts,
           overflows' \in 0..MaxOverflows, failures' \in 0..MaxFailures,
           commands' \in 0..MaxCommands
    PROVE  LineInv'
<1>1. /\ rows' \in Seq(Rows) /\ Grown(rows, rows')
      /\ path' \in Seq(Ids(rows')) /\ memory' \in Seq(Ids(rows'))
      /\ path' # <<>> /\ FirstKind' = "prompt" /\ LastKind' # "summary"
      /\ OneReplyIn(rows', path')
  BY DEF Landed
<1>2. /\ rows \in Seq(Rows) /\ run \in Runs(rows) /\ anchor \in Usages
      /\ tracker \in Usages /\ seen \in Nat /\ prompts \in 0..MaxPrompts
  BY DEF LineInv, TypeOK
<1>3. run \in Runs(rows')
  <2>1. Len(rows) \in Nat /\ Len(rows') \in Nat /\ Len(rows) <= Len(rows')
    BY <1>1, <1>2 DEF Grown
  <2> QED BY <2>1, <1>2, RunGrown
<1>4. run' \in Runs(rows') /\ run'.at \notin Asking
  <2>1. CASE run' = Idle
    BY <2>1, IdleType DEF Asking
  <2>2. CASE run' # Idle
    <3>1. \/ run' = [run EXCEPT !.at = "failed"]
          \/ run' = [run EXCEPT !.at = "compacting"]
      BY <2>2
    <3> QED BY <3>1, <1>3 DEF Runs, Phases, Asking
  <2> QED BY <2>1, <2>2
<1>5. TypeOK'
  <2>1. anchor' \in Usages /\ tracker' \in Usages /\ seen' \in Nat /\ prompts' \in 0..MaxPrompts
    BY <1>2
  <2> QED BY <2>1, <1>1, <1>4 DEF TypeOK
<1>6. EndsWell'
  BY <1>1, <1>4 DEF EndsWell
<1> QED BY <1>1, <1>5, <1>6 DEF LineInv

LEMMA CountsAre ==
    ASSUME LineInv
    PROVE  /\ overflows \in 0..MaxOverflows /\ failures \in 0..MaxFailures
           /\ commands \in 0..MaxCommands /\ 0 \in 0..MaxOverflows
           /\ overflows < MaxOverflows => overflows + 1 \in 0..MaxOverflows
           /\ failures < MaxFailures => failures + 1 \in 0..MaxFailures
           /\ commands < MaxCommands => commands + 1 \in 0..MaxCommands
<1>1. /\ overflows \in 0..MaxOverflows /\ failures \in 0..MaxFailures
      /\ commands \in 0..MaxCommands
  BY DEF LineInv, TypeOK
<1> QED BY <1>1, BoundsAre

LEMMA ReplyDoneWrites ==
    ASSUME LineInv, ReplyDone
    PROVE  /\ run.at \in Asking
           /\ \E text \in Nat : text # 0 /\ Write(text, run.usage)
           /\ run.usage \in Usages /\ Landed
<1>1. PICK text \in Texts : Write(text, run.usage)
  BY DEF ReplyDone
<1>2. text \in Nat /\ text # 0
  BY CompactionAssumption
<1>3. run.at \in Asking
  BY DEF ReplyDone, Asking
<1>4. run.usage \in Usages
  BY <1>3, AskingIs
<1> QED BY <1>1, <1>2, <1>3, <1>4, WriteIs

LEMMA ReplyDoneLine == ASSUME LineInv, ReplyDone PROVE LineInv'
<1>1. /\ run' = Idle /\ overflows' = 0 /\ anchor' = anchor /\ tracker' = tracker
      /\ seen' = seen /\ prompts' = prompts /\ failures' = failures /\ commands' = commands
  BY DEF ReplyDone, bounds
<1> QED BY <1>1, ReplyDoneWrites, LandedLine, CountsAre

LEMMA CancelStreamLine == ASSUME LineInv, CancelStream PROVE LineInv'
<1>1. /\ run' = Idle /\ overflows' = 0 /\ anchor' = anchor /\ tracker' = tracker
      /\ seen' = seen /\ prompts' = prompts /\ failures' = failures
      /\ commands < MaxCommands /\ commands' = commands + 1
      /\ run.at \in Asking /\ Persist
  BY DEF CancelStream, Asking
<1> QED BY <1>1, PersistIs, LandedLine, CountsAre

LEMMA RequestFailsLine == ASSUME LineInv, RequestFails PROVE LineInv'
<1>1. /\ run' = [run EXCEPT !.at = "failed"] \/ run' = Idle
      /\ overflows' = overflows /\ anchor' = anchor /\ tracker' = tracker
      /\ seen' = seen /\ prompts' = prompts /\ failures < MaxFailures
      /\ failures' = failures + 1 /\ commands' = commands
      /\ run.at \in Asking /\ Persist
  BY DEF RequestFails, Asking
<1> QED BY <1>1, PersistIs, LandedLine, CountsAre

LEMMA PersistOverflowLine == ASSUME LineInv, PersistOverflow PROVE LineInv'
<1>1. /\ run' = [run EXCEPT !.at = "compacting"]
      /\ overflows' = overflows /\ anchor' = anchor /\ tracker' = tracker
      /\ seen' = seen /\ prompts' = prompts /\ failures' = failures
      /\ commands' = commands /\ run.at \in Asking /\ Persist
  BY DEF PersistOverflow, bounds, Asking
<1> QED BY <1>1, PersistIs, LandedLine, CountsAre

LEMMA CompactActivePathLine == ASSUME LineInv, CompactActivePath PROVE LineInv'
<1>1. /\ run.at = "compacting" /\ memory' = memory /\ anchor' = anchor
      /\ tracker' = tracker /\ seen' = seen /\ overflows' = overflows
      /\ prompts' = prompts /\ commands' = commands
  BY DEF CompactActivePath
<1>2. \/ /\ HasPlan(path) /\ rows' = Append(rows, Summary(path)) /\ path' = Spliced(path)
         /\ run' = [run EXCEPT !.at = "compacted"] /\ failures' = failures
      \/ /\ rows' = rows /\ path' = path /\ run' = [run EXCEPT !.at = "over"]
         /\ failures' = failures \/ (failures < MaxFailures /\ failures' = failures + 1)
  BY DEF CompactActivePath
<1>3. /\ rows \in Seq(Rows) /\ run \in Runs(rows) /\ anchor \in Usages
      /\ path \in Seq(Ids(rows)) /\ memory \in Seq(Ids(rows))
      /\ tracker \in Usages /\ seen \in Nat /\ prompts \in 0..MaxPrompts
      /\ overflows \in 0..MaxOverflows /\ commands \in 0..MaxCommands
      /\ OneReplyIn(rows, path)
  BY DEF LineInv, TypeOK
<1>4. path # <<>> /\ FirstKind = "prompt" /\ LastKind # "summary"
  BY <1>1 DEF LineInv, EndsWell
<1>5. failures' \in 0..MaxFailures
  BY <1>2, CountsAre
<1>6. /\ rows' \in Seq(Rows) /\ path' \in Seq(Ids(rows')) /\ memory \in Seq(Ids(rows'))
      /\ run \in Runs(rows') /\ path' # <<>> /\ FirstKind' = "prompt"
      /\ LastKind' # "summary" /\ OneReplyIn(rows', path')
  <2>1. CASE rows' = rows /\ path' = path
    <3>1. FirstKind' = FirstKind /\ LastKind' = LastKind
      BY <2>1 DEF FirstKind, LastKind
    <3> QED BY <3>1, <2>1, <1>3, <1>4
  <2>2. CASE HasPlan(path) /\ rows' = Append(rows, Summary(path)) /\ path' = Spliced(path)
    BY <2>2, SpliceLine
  <2> QED BY <2>1, <2>2, <1>2
<1>7. run' \in Runs(rows') /\ run'.at \notin Asking
  <2>1. \/ run' = [run EXCEPT !.at = "compacted"]
        \/ run' = [run EXCEPT !.at = "over"]
    BY <1>2
  <2> QED BY <2>1, <1>6 DEF Runs, Phases, Asking
<1>8. TypeOK'
  <2>1. /\ memory' \in Seq(Ids(rows')) /\ anchor' \in Usages /\ tracker' \in Usages
        /\ seen' \in Nat /\ prompts' \in 0..MaxPrompts
        /\ overflows' \in 0..MaxOverflows /\ commands' \in 0..MaxCommands
    BY <1>1, <1>3, <1>6
  <2> QED BY <2>1, <1>5, <1>6, <1>7 DEF TypeOK
<1>9. EndsWell'
  BY <1>6, <1>7 DEF EndsWell
<1> QED BY <1>6, <1>8, <1>9 DEF LineInv

\* The new request of a turn that goes on.
LEMMA ResumeIs ==
    ASSUME LineInv, run.at # "idle", ResumeLastTurn
    PROVE  /\ rows' = rows /\ path' = path /\ memory' = path
           /\ anchor' = LastUsageIn(rows, path) /\ anchor' \in Usages
           /\ run' \in Runs(rows) /\ run'.at = "ready" /\ run'.base = ResumeBase
           /\ run'.reply = Continuation /\ run'.own = <<>> /\ ResumeBase # <<>>
           /\ tracker' \in Usages
           /\ tracker' = anchor' \/ tracker' = NoUsage
           /\ seen' \in Nat
           /\ rows \in Seq(Rows) /\ path \in Seq(Ids(rows)) /\ path # <<>>
           /\ FirstKind = "prompt" /\ LastKind # "summary"
<1>1. rows \in Seq(Rows) /\ path \in Seq(Ids(rows)) /\ run \in Runs(rows)
  BY DEF LineInv, TypeOK
<1>2. path # <<>> /\ FirstKind = "prompt" /\ LastKind # "summary"
  BY DEF LineInv, EndsWell
<1>3. /\ memory' = path /\ rows' = rows /\ path' = path /\ anchor' = LastUsage(path)
      /\ Start(ResumeBase, Continuation, anchor')
  BY DEF ResumeLastTurn
<1>4. anchor' = LastUsageIn(rows, path) /\ anchor' \in Usages
  BY <1>1, <1>3, LastUsageSame, LastUsageIs
<1>5. /\ ResumeBase \in Seq(Ids(rows)) /\ ResumeBase # <<>>
      /\ Continuation \in {0} \cup Ids(rows)
  BY <1>1, <1>2, BaseType
<1> DEFINE u == anchor'
<1>6. u \in Usages /\ Start(ResumeBase, Continuation, u)
  BY <1>3, <1>4
<1>7. /\ run' \in Runs(rows) /\ tracker' \in Usages /\ seen' \in Nat
      /\ run'.at = "ready" /\ run'.base = ResumeBase /\ run'.reply = Continuation
      /\ run'.own = <<>>
      /\ tracker' = u \/ tracker' = NoUsage
  <2> HIDE DEF u
  <2> QED BY <1>5, <1>6, StartType
<1> QED BY <1>1, <1>2, <1>3, <1>4, <1>5, <1>7

LEMMA ResumeLine ==
    ASSUME LineInv, run.at # "idle", ResumeLastTurn, prompts' = prompts,
           failures' = failures, commands' = commands, overflows' \in 0..MaxOverflows
    PROVE  LineInv'
<1>1. /\ rows' = rows /\ path' = path /\ memory' = path /\ anchor' \in Usages
      /\ run' \in Runs(rows) /\ run'.at = "ready" /\ run'.reply = Continuation
      /\ run'.base # <<>>
      /\ tracker' \in Usages /\ seen' \in Nat
      /\ rows \in Seq(Rows) /\ path \in Seq(Ids(rows)) /\ path # <<>>
      /\ FirstKind = "prompt" /\ LastKind # "summary"
  BY ResumeIs
<1>2. TypeOK'
  <2>1. prompts' \in 0..MaxPrompts /\ failures' \in 0..MaxFailures /\ commands' \in 0..MaxCommands
    BY DEF LineInv, TypeOK
  <2>2. /\ rows' \in Seq(Rows) /\ path' \in Seq(Ids(rows')) /\ memory' \in Seq(Ids(rows'))
        /\ run' \in Runs(rows')
    BY <1>1
  <2> QED BY <2>1, <2>2, <1>1 DEF TypeOK
<1>3. FirstKind' = FirstKind /\ LastKind' = LastKind
  BY <1>1 DEF FirstKind, LastKind
<1>4. \/ run'.reply = 0 /\ LastKind = "prompt"
      \/ run'.reply = path[Len(path)] /\ LastKind = "reply"
  <2>1. Last(path) = path[Len(path)]
    BY DEF Last
  <2>2. Continuation = IF LastKind = "reply" THEN path[Len(path)] ELSE 0
    BY <2>1 DEF Continuation, LastKind
  <2>3. LastKind \in {"prompt", "reply", "summary"}
    <3>1. path[Len(path)] \in 1..Len(rows)
      BY <1>1, PathIds
    <3>2. rows[path[Len(path)]] \in Rows
      BY <3>1, <1>1
    <3> QED BY <3>2 DEF Rows, LastKind
  <2> QED BY <2>2, <2>3, <1>1
<1>5. EndsWell'
  BY <1>1, <1>3, <1>4 DEF EndsWell
<1>6. OneReplyIn(rows', path')
  BY <1>1 DEF LineInv
<1> QED BY <1>2, <1>5, <1>6 DEF LineInv

LEMMA RetryFiresLine == ASSUME LineInv, RetryFires PROVE LineInv'
<1>1. /\ run.at # "idle" /\ ResumeLastTurn /\ prompts' = prompts /\ failures' = failures
      /\ commands' = commands /\ overflows' = overflows
  BY DEF RetryFires, bounds
<1> QED BY <1>1, CountsAre, ResumeLine

LEMMA HandleOverflowLine == ASSUME LineInv, HandleOverflow PROVE LineInv'
<1>1. /\ run.at # "idle" /\ prompts' = prompts /\ failures' = failures
      /\ commands' = commands
  BY DEF HandleOverflow, bounds
<1>2. CASE ResumeLastTurn /\ overflows < MaxOverflows /\ overflows' = overflows + 1
  BY <1>1, <1>2, CountsAre, ResumeLine
<1>3. CASE /\ overflows' = 0 /\ run' = Idle /\ UNCHANGED <<session, tracker, seen>>
  <2>1. /\ rows' = rows /\ path' = path /\ memory' = memory /\ anchor' = anchor
        /\ tracker' = tracker /\ seen' = seen
    BY <1>3 DEF session
  <2>2. TypeOK'
    <3>1. /\ rows' \in Seq(Rows) /\ path' \in Seq(Ids(rows')) /\ memory' \in Seq(Ids(rows'))
          /\ anchor' \in Usages /\ tracker' \in Usages /\ seen' \in Nat
          /\ prompts' \in 0..MaxPrompts /\ failures' \in 0..MaxFailures
          /\ commands' \in 0..MaxCommands
      BY <2>1, <1>1 DEF LineInv, TypeOK
    <3>2. overflows' \in 0..MaxOverflows /\ run' \in Runs(rows')
      BY <1>3, CountsAre, IdleType
    <3> QED BY <3>1, <3>2 DEF TypeOK
  <2>3. EndsWell'
    <3>1. FirstKind' = FirstKind /\ LastKind' = LastKind
      BY <2>1 DEF FirstKind, LastKind
    <3>2. run'.at = "idle" /\ run'.at \notin Asking
      BY <1>3, IdleType DEF Asking
    <3>3. path # <<>> => FirstKind = "prompt" /\ LastKind # "summary"
      BY DEF LineInv, EndsWell
    <3> QED BY <3>1, <3>2, <3>3, <2>1 DEF EndsWell
  <2>4. OneReplyIn(rows', path')
    BY <2>1 DEF LineInv
  <2> QED BY <2>2, <2>3, <2>4 DEF LineInv
<1> QED BY <1>2, <1>3 DEF HandleOverflow

LEMMA InitLine == Init => LineInv
<1> SUFFICES ASSUME Init PROVE LineInv
  OBVIOUS
<1>1. /\ rows = <<>> /\ path = <<>> /\ memory = <<>> /\ anchor = NoUsage /\ run = Idle
      /\ tracker = NoUsage /\ seen = 0 /\ overflows = 0 /\ prompts = 0 /\ failures = 0
      /\ commands = 0
  BY DEF Init
<1>2. TypeOK
  <2>1. NoUsage \in Usages
    BY DEF NoUsage, Usages
  <2>2. overflows \in 0..MaxOverflows /\ prompts \in 0..MaxPrompts
        /\ failures \in 0..MaxFailures /\ commands \in 0..MaxCommands
    BY <1>1, BoundsAre
  <2>3. rows \in Seq(Rows) /\ path \in Seq(Ids(rows)) /\ memory \in Seq(Ids(rows))
    BY <1>1
  <2>4. run \in Runs(rows) /\ seen \in Nat
    BY <1>1, IdleType
  <2> QED BY <2>1, <2>2, <2>3, <2>4, <1>1 DEF TypeOK
<1>3. EndsWell
  BY <1>1, IdleType DEF EndsWell, Asking
<1>4. OneReplyIn(rows, path)
  <2>1. Len(path) = 0
    BY <1>1
  <2> QED BY <2>1 DEF OneReplyIn
<1> QED BY <1>2, <1>3, <1>4 DEF LineInv

LEMMA StutterLine == ASSUME LineInv, UNCHANGED vars PROVE LineInv'
<1>1. /\ rows' = rows /\ path' = path /\ memory' = memory /\ anchor' = anchor
      /\ run' = run /\ tracker' = tracker /\ seen' = seen /\ overflows' = overflows
      /\ prompts' = prompts /\ failures' = failures /\ commands' = commands
  BY DEF vars, session, request, bounds
<1> QED BY <1>1 DEF LineInv, TypeOK, EndsWell, FirstKind, LastKind

LEMMA NextLine == LineInv /\ [Next]_vars => LineInv'
<1> SUFFICES ASSUME LineInv, [Next]_vars PROVE LineInv'
  OBVIOUS
<1>1. CASE User
  BY <1>1, SendMessageLine, CompactSessionLine, LoadSessionLine, CancelStreamLine DEF User
<1>2. CASE Work
  BY <1>2, CallModelLine, CallToolLine, ReplyDoneLine, RequestFailsLine, RetryFiresLine,
     PersistOverflowLine, CompactActivePathLine, HandleOverflowLine DEF Work
<1>3. CASE UNCHANGED vars
  BY <1>3, StutterLine
<1> QED BY <1>1, <1>2, <1>3 DEF Next

LEMMA Lines == Spec => []LineInv
BY InitLine, NextLine, PTL DEF Spec

\* However often a turn is retried, stopped, compacted and gone on with, by
\* whatever interleaving with the user's commands, it has one reply: what a
\* request adds goes into the row it continues.
THEOREM OneReplyCorrect == Spec => []OneReply
<1>1. LineInv => OneReply
  <2> SUFFICES ASSUME LineInv PROVE OneReply
    OBVIOUS
  <2>1. OneReplyIn(rows, path) /\ DOMAIN path = 1..Len(path)
    BY PathIds DEF LineInv, TypeOK
  <2> QED BY <2>1 DEF OneReply, OneReplyIn
<1> QED BY <1>1, Lines, PTL

-----------------------------------------------------------------------------
(* What a request accounts for                                              *)

\* A turn does not fill the tail that a compaction keeps: its reply, while it
\* is not complete, is smaller, and there is room for its prompt.
TailTold == "long" \notin Upsets /\ MinTail > 1

\* The messages b account for the path p.
CoversIn(r, b, p) ==
    \A i \in 1..Len(p) :
        \/ \E k \in 1..Len(b) : b[k] = p[i]
        \/ \E k \in 1..Len(b) : r[b[k]].kind = "summary" /\ p[i] \in r[b[k]].folds

\* The turn is not answered: the path ends with its prompt, or with its prompt
\* and the part of a reply, which alone does not fill the tail.
PartialIn(r, p) ==
    \/ r[p[Len(p)]].kind = "prompt"
    \/ /\ Len(p) > 1
       /\ r[p[Len(p) - 1]].kind = "prompt"
       /\ r[p[Len(p)]].kind = "reply"
       /\ r[p[Len(p)]].text = 0
       /\ Sum(r[p[Len(p)]].calls) < Keep

\* What the request has of the reply does not fill the tail.
SmallReply == Earlier \o run.own = <<>> \/ Sum(Earlier \o run.own) < Keep

CoverInv ==
    /\ FoldedIn(rows, path) /\ FoldedIn(rows, memory)
    /\ run.at # "idle" => PartialIn(rows, path)
    /\ run.at \in Asking => SmallReply
    /\ run.at \in {"ready", "called"} => CoversIn(rows, run.base, memory)

\* The whole history and then one message.
LEMMA HistoryThen ==
    ASSUME NEW p \in Seq(Ids(rows)), NEW s, Grown(rows, s), NEW id \in Ids(s),
           s[id].kind # "summary", Len(rows) \in Nat, Len(s) \in Nat
    PROVE  LET b == Append(HistoryUntil(p, Len(p)), id)
               N == NewestIn(rows, p, Len(p))
           IN /\ b # <<>> /\ OpeningIn(s, b) = UnderIn(rows, p)
              /\ \A i \in 1..Len(p) : i >= N => \E k \in 1..Len(b) : b[k] = p[i]
              /\ \E k \in 1..Len(b) : b[k] = id
<1> DEFINE n == Len(p)
           N == NewestIn(rows, p, n)
           b == Append(HistoryUntil(p, n), id)
<1>1. n \in 0..Len(p)
  BY PathIds
<1>2. UnderIn(rows, p) = IF N = 0 THEN 0 ELSE p[N]
  BY DEF UnderIn
<1> HIDE DEF n
<1>3. /\ b # <<>> /\ OpeningIn(s, b) = IF N = 0 THEN 0 ELSE p[N]
      /\ \A i \in 1..n : i >= N => \E k \in 1..Len(b) : b[k] = p[i]
      /\ \E k \in 1..Len(b) : b[k] = id
  BY <1>1, HistoryAnd
<1> HIDE DEF b, N
<1> QED BY <1>2, <1>3 DEF b, N, n

LEMMA SendMessageCover == ASSUME LineInv, CoverInv, SendMessage PROVE CoverInv'
<1> DEFINE m == Len(rows) + 1
           n == Len(memory)
           h == HistoryUntil(memory, n)
           b == Append(h, m)
           N == NewestIn(rows, memory, n)
<1>1. PICK size \in Texts : rows' = Append(rows, Row("prompt", <<>>, size, NoUsage, {}))
  BY DEF SendMessage
<1> DEFINE row == Row("prompt", <<>>, size, NoUsage, {})
<1>2. rows \in Seq(Rows) /\ path \in Seq(Ids(rows)) /\ memory \in Seq(Ids(rows))
  BY DEF LineInv, TypeOK
<1>3. row \in Rows /\ row.kind = "prompt"
  <2>1. size \in Nat /\ NoUsage \in Usages /\ <<>> \in Seq(Nat)
    BY CompactionAssumption DEF NoUsage, Usages
  <2> QED BY <2>1 DEF Row, Rows
<1> HIDE DEF row
<1>4. /\ rows' \in Seq(Rows) /\ Len(rows') = m /\ rows'[m] = row /\ m \in Ids(rows')
      /\ \A id \in Ids(rows) : id \in Ids(rows') /\ rows'[id] = rows[id]
      /\ Grown(rows, rows') /\ Len(rows) \in Nat
  BY <1>1, <1>2, <1>3, GrownOn DEF row
<1>5. path' = Append(path, m) /\ memory' = Append(memory, m) /\ Start(b, 0, anchor)
  BY <1>4 DEF SendMessage
<1>6. Len(rows') \in Nat
  BY <1>4
<1> HIDE DEF m
<1>7. /\ path \in Seq(Ids(rows')) /\ memory \in Seq(Ids(rows'))
      /\ FoldedIn(rows', path) /\ FoldedIn(rows', memory)
  BY <1>2, <1>4, <1>6, GrownKeeps DEF CoverInv
<1>8. rows'[m].kind = "prompt" /\ rows'[m].kind # "summary"
  BY <1>3, <1>4
<1>9. FoldedIn(rows', path') /\ Len(path') = Len(path) + 1 /\ path'[Len(path) + 1] = m
  <2> DEFINE q == Append(path, m)
  <2>1. FoldedIn(rows', q) /\ Len(q) = Len(path) + 1 /\ q[Len(path) + 1] = m
    BY <1>4, <1>7, <1>8, PathOn
  <2> HIDE DEF q
  <2> QED BY <2>1, <1>5 DEF q
<1>10. /\ memory' \in Seq(Ids(rows')) /\ FoldedIn(rows', memory') /\ n \in Nat
       /\ Len(memory') = n + 1 /\ memory'[n + 1] = m
       /\ \A i \in 1..n : memory'[i] = memory[i]
  <2> DEFINE q == Append(memory, m)
  <2>1. /\ q \in Seq(Ids(rows')) /\ FoldedIn(rows', q) /\ n \in Nat
        /\ Len(q) = n + 1 /\ q[n + 1] = m
        /\ \A i \in 1..n : q[i] = memory[i]
    BY <1>4, <1>7, <1>8, PathOn
  <2> HIDE DEF q
  <2> QED BY <2>1, <1>5 DEF q
<1>11. PartialIn(rows', path')
  BY <1>8, <1>9 DEF PartialIn
<1>12. run'.at = "ready" /\ run'.base = b /\ run'.reply = 0 /\ run'.own = <<>>
  <2> HIDE DEF b
  <2> QED BY <1>5, StartIs
<1>13. SmallReply'
  <2>1. Earlier' = <<>>
    BY <1>12 DEF Earlier
  <2>2. Earlier' \o run'.own = <<>>
    BY <2>1, <1>12
  <2> QED BY <2>2 DEF SmallReply
<1>14. /\ N \in 0..n /\ (N # 0 => rows[memory[N]].kind = "summary")
  BY <1>10, NewestIs
<1>15. /\ \A i \in 1..n : i >= N => \E k \in 1..Len(b) : b[k] = memory[i]
       /\ \E k \in 1..Len(b) : b[k] = m
  <2> HIDE DEF N, n
  <2>0. /\ memory \in Seq(Ids(rows)) /\ Grown(rows, rows') /\ m \in Ids(rows')
        /\ rows'[m].kind # "summary" /\ Len(rows) \in Nat /\ Len(rows') \in Nat
    BY <1>2, <1>4, <1>6, <1>8
  <2>1. LET b0 == Append(HistoryUntil(memory, Len(memory)), m)
            N0 == NewestIn(rows, memory, Len(memory))
        IN /\ b0 # <<>> /\ OpeningIn(rows', b0) = UnderIn(rows, memory)
           /\ \A i \in 1..Len(memory) : i >= N0 => \E k \in 1..Len(b0) : b0[k] = memory[i]
           /\ \E k \in 1..Len(b0) : b0[k] = m
    BY ONLY <2>0, HistoryThen
  <2> QED BY <2>1 DEF N, n
<1> HIDE DEF b, N, n, h
<1>16. CoversIn(rows', b, memory')
  <2>1. N \in 0..Len(memory')
    BY <1>10, <1>14
  <2>2. N # 0 => rows'[memory'[N]].kind = "summary"
    <3> SUFFICES ASSUME N # 0 PROVE rows'[memory'[N]].kind = "summary"
      OBVIOUS
    <3>1. N \in 1..n
      BY <1>10, <1>14
    <3>2. memory[N] \in Ids(rows)
      BY <3>1, <1>2 DEF n
    <3> QED BY <3>1, <3>2, <1>4, <1>10, <1>14
  <2>3. \A i \in 1..Len(memory') : i >= N => \E k \in 1..Len(b) : b[k] = memory'[i]
    <3> SUFFICES ASSUME NEW i \in 1..n + 1, i >= N PROVE \E k \in 1..Len(b) : b[k] = memory'[i]
      BY <1>10
    <3>1. CASE i = n + 1
      BY <3>1, <1>10, <1>15
    <3>2. CASE i # n + 1
      <4>1. i \in 1..n
        BY <3>2, <1>10
      <4> QED BY <4>1, <1>10, <1>15
    <3> QED BY <3>1, <3>2
  <2> QED BY <2>1, <2>2, <2>3, <1>10, CoversAll DEF CoversIn
<1> QED BY <1>9, <1>10, <1>11, <1>12, <1>13, <1>16 DEF CoverInv

LEMMA CompactSessionCover == ASSUME LineInv, CoverInv, CompactSession PROVE CoverInv'
<1>1. /\ HasPlan(path) /\ rows' = Append(rows, Summary(path)) /\ path' = Spliced(path)
      /\ memory' = path' /\ run' = run /\ run.at = "idle"
  BY DEF CompactSession, request
<1>2. FoldedIn(rows', path')
  BY <1>1, SplicedKeeps DEF CoverInv, LineInv, TypeOK
<1> QED BY <1>1, <1>2 DEF CoverInv, Asking

LEMMA LoadSessionCover == ASSUME LineInv, CoverInv, LoadSession PROVE CoverInv'
<1>1. rows' = rows /\ path' = path /\ memory' = path /\ run' = run /\ run.at = "idle"
  BY DEF LoadSession, request
<1> QED BY <1>1 DEF CoverInv, Asking

LEMMA CallModelCover == ASSUME LineInv, CoverInv, CallModel PROVE CoverInv'
<1>1. run.at = "ready" /\ rows' = rows /\ path' = path /\ memory' = memory
  BY DEF CallModel
<1>2. PICK u : \/ run' = [run EXCEPT !.at = "stopped"]
               \/ run' = [run EXCEPT !.at = "rejected"]
               \/ run' = [run EXCEPT !.at = "called", !.usage = u]
               \/ run' = [run EXCEPT !.at = "called"]
  BY DEF CallModel
<1>3. run \in Runs(rows)
  BY DEF LineInv, TypeOK
<1>4. run'.base = run.base /\ run'.own = run.own /\ run'.reply = run.reply
  BY <1>2, <1>3 DEF Runs
<1>5. Earlier' = Earlier
  BY <1>1, <1>4 DEF Earlier
<1>6. SmallReply' = SmallReply
  BY <1>4, <1>5 DEF SmallReply
<1> QED BY <1>1, <1>4, <1>6 DEF CoverInv, Asking

LEMMA CallToolCover == ASSUME LineInv, CoverInv, CallTool, TailTold PROVE CoverInv'
<1>1. PICK size \in Outputs : /\ Short(Earlier \o Append(run.own, size))
                              /\ run' = [run EXCEPT !.at = "ready", !.own = Append(@, size)]
  BY DEF CallTool
<1>2. run.at = "called" /\ rows' = rows /\ path' = path /\ memory' = memory
  BY DEF CallTool, session
<1>3. run \in Runs(rows)
  BY DEF LineInv, TypeOK
<1>4. run'.base = run.base /\ run'.own = Append(run.own, size) /\ run'.reply = run.reply
  BY <1>1, <1>3 DEF Runs
<1>5. Earlier' = Earlier
  BY <1>2, <1>4 DEF Earlier
<1>6. SmallReply'
  BY <1>1, <1>4, <1>5 DEF SmallReply, Short, TailTold
<1> QED BY <1>2, <1>4, <1>6 DEF CoverInv, Asking

\* What a request leaves when it does not answer the turn.
LEMMA PersistPartial ==
    ASSUME LineInv, CoverInv, run.at \in Asking, Persist
    PROVE  PartialIn(rows', path')
<1>1. run.at # "idle" /\ PartialIn(rows, path) /\ SmallReply
  BY DEF CoverInv, Asking
<1>2. CASE rows' = rows /\ path' = path
  BY <1>1, <1>2
<1>3. CASE Earlier \o run.own # <<>> /\ Write(0, NoUsage)
  <2> DEFINE calls == Earlier \o run.own
             n == Len(path)
             last == rows'[path'[Len(path')]]
  <2>1. 0 \in Nat /\ NoUsage \in Usages
    BY DEF NoUsage, Usages
  <2>2. /\ last = Row("reply", calls, 0, NoUsage, {})
        /\ \/ run.reply = 0 /\ Len(path') = n + 1 /\ rows'[path'[n]] = rows[path[n]]
           \/ /\ run.reply # 0 /\ path' = path
              /\ \A id \in Ids(rows) : rows'[id].kind = rows[id].kind
    BY <2>1, <1>3, WriteIs
  <2>3. Sum(calls) < Keep
    BY <1>1, <1>3 DEF SmallReply
  <2>4. last.kind = "reply" /\ last.text = 0 /\ Sum(last.calls) < Keep
    <3> HIDE DEF last, calls
    <3> QED BY <2>2, <2>3 DEF Row
  <2>5. /\ n \in Nat \ {0} /\ path \in Seq(Ids(rows))
        /\ \/ run.reply = 0 /\ LastKind = "prompt"
           \/ run.reply # 0 /\ LastKind = "reply"
    BY AskingIs
  <2>6. CASE run.reply = 0
    <3>1. Len(path') > 1 /\ Len(path') - 1 = n
      BY <2>2, <2>5, <2>6
    <3>2. rows'[path'[n]].kind = "prompt"
      BY <2>2, <2>5, <2>6 DEF LastKind
    <3> QED BY <3>1, <3>2, <2>4 DEF PartialIn
  <2>7. CASE run.reply # 0
    <3>1. n > 1 /\ rows[path[n - 1]].kind = "prompt"
      BY <1>1, <2>5, <2>7 DEF PartialIn, LastKind
    <3>2. n - 1 \in 1..n
      BY <3>1, <2>5
    <3>3. path[n - 1] \in Ids(rows)
      BY <3>2, <2>5
    <3>4. Len(path') = n /\ rows'[path'[n - 1]].kind = "prompt"
      BY <3>1, <3>3, <2>2, <2>7
    <3> QED BY <3>1, <3>4, <2>4 DEF PartialIn
  <2> QED BY <2>6, <2>7
<1> QED BY <1>2, <1>3, PersistIs

LEMMA LandedCover ==
    ASSUME LineInv, CoverInv, Landed,
           \/ run' = Idle
           \/ /\ run' = [run EXCEPT !.at = "failed"] \/ run' = [run EXCEPT !.at = "compacting"]
              /\ PartialIn(rows', path')
    PROVE  CoverInv'
<1>1. FoldedIn(rows', path') /\ FoldedIn(rows', memory')
  BY DEF Landed, CoverInv
<1>2. run'.at \notin Asking /\ (run'.at # "idle" => PartialIn(rows', path'))
  <2>1. CASE run' = Idle
    BY <2>1, IdleType DEF Asking
  <2>2. CASE run' # Idle
    BY <2>2 DEF LineInv, TypeOK, Runs, Asking
  <2> QED BY <2>1, <2>2
<1> QED BY <1>1, <1>2 DEF CoverInv, Asking

LEMMA ReplyDoneCover == ASSUME LineInv, CoverInv, ReplyDone PROVE CoverInv'
BY ReplyDoneWrites, LandedCover DEF ReplyDone

LEMMA CancelStreamCover == ASSUME LineInv, CoverInv, CancelStream PROVE CoverInv'
<1>1. run.at \in Asking /\ Persist /\ run' = Idle
  BY DEF CancelStream, Asking
<1> QED BY <1>1, PersistIs, LandedCover

LEMMA RequestFailsCover == ASSUME LineInv, CoverInv, RequestFails PROVE CoverInv'
<1>1. /\ run.at \in Asking /\ Persist
      /\ run' = [run EXCEPT !.at = "failed"] \/ run' = Idle
  BY DEF RequestFails, Asking
<1> QED BY <1>1, PersistIs, PersistPartial, LandedCover

LEMMA PersistOverflowCover == ASSUME LineInv, CoverInv, PersistOverflow PROVE CoverInv'
<1>1. run.at \in Asking /\ Persist /\ run' = [run EXCEPT !.at = "compacting"]
  BY DEF PersistOverflow, Asking
<1> QED BY <1>1, PersistIs, PersistPartial, LandedCover

LEMMA CompactActivePathCover ==
    ASSUME LineInv, CoverInv, CompactActivePath, TailTold PROVE CoverInv'
<1>1. run.at = "compacting" /\ memory' = memory
  BY DEF CompactActivePath
<1>2. \/ /\ HasPlan(path) /\ rows' = Append(rows, Summary(path)) /\ path' = Spliced(path)
         /\ run' = [run EXCEPT !.at = "compacted"]
      \/ /\ rows' = rows /\ path' = path /\ run' = [run EXCEPT !.at = "over"]
  BY DEF CompactActivePath
<1>3. run'.at \notin Asking
  BY <1>2 DEF LineInv, TypeOK, Runs, Asking
<1>4. FoldedIn(rows, path) /\ FoldedIn(rows, memory) /\ PartialIn(rows, path)
  BY <1>1 DEF CoverInv
<1>5. CASE rows' = rows /\ path' = path
  BY <1>1, <1>3, <1>4, <1>5 DEF CoverInv, Asking
<1>6. CASE HasPlan(path) /\ rows' = Append(rows, Summary(path)) /\ path' = Spliced(path)
  <2> DEFINE n == Len(path)
  <2>1. /\ rows \in Seq(Rows) /\ path \in Seq(Ids(rows)) /\ memory \in Seq(Ids(rows))
    BY DEF LineInv, TypeOK
  <2>2. /\ FoldedIn(rows', path') /\ path'[Len(path')] = path[n] /\ path # <<>>
        /\ PlanCut(path) < n => Len(path') > 1 /\ path'[Len(path') - 1] = path[n - 1]
    BY <2>1, <1>4, <1>6, SplicedKeeps
  <2>3. /\ Grown(rows, rows') /\ Len(rows) \in Nat /\ Len(rows') = Len(rows) + 1
        /\ \A id \in Ids(rows) : rows'[id] = rows[id]
    BY <1>6, SpliceLine
  <2>4. FoldedIn(rows', memory)
    BY <2>1, <2>3, <1>4, GrownKeeps
  <2>5. n \in Nat \ {0} /\ path[n] \in Ids(rows)
        /\ (n > 1 => path[n - 1] \in Ids(rows))
    <3>1. n \in Nat \ {0} /\ \A i \in 1..n : path[i] \in Ids(rows)
      BY <2>1, <2>2, PathIds DEF Ids
    <3>2. n > 1 => n - 1 \in 1..n
      BY <3>1
    <3> QED BY <3>1, <3>2
  <2>6. PartialIn(rows', path')
    <3>1. CASE rows[path[n]].kind = "prompt"
      BY <3>1, <2>2, <2>3, <2>5 DEF PartialIn
    <3>2. CASE rows[path[n]].kind # "prompt"
      <4>1. /\ n > 1 /\ rows[path[n - 1]].kind = "prompt" /\ rows[path[n]].kind = "reply"
            /\ rows[path[n]].text = 0 /\ Sum(rows[path[n]].calls) < Keep
        BY <3>2, <1>4 DEF PartialIn
      <4>2. PlanCut(path) < n
        BY <4>1, <2>1, <1>6, PlanShort DEF TailTold
      <4>3. Len(path') > 1 /\ path'[Len(path') - 1] = path[n - 1]
        BY <4>2, <2>2
      <4> QED BY <4>1, <4>3, <2>2, <2>3, <2>5 DEF PartialIn
    <3> QED BY <3>1, <3>2
  <2> QED BY <2>2, <2>4, <2>6, <1>1, <1>3 DEF CoverInv, Asking
<1> QED BY <1>2, <1>5, <1>6

\* The request of a turn that goes on accounts for the path.
LEMMA ResumeCovers ==
    ASSUME rows \in Seq(Rows), path \in Seq(Ids(rows)), path # <<>>, FirstKind = "prompt",
           LastKind # "summary", FoldedIn(rows, path), PartialIn(rows, path)
    PROVE  /\ CoversIn(rows, ResumeBase, path)
           /\ OpeningIn(rows, ResumeBase) = UnderIn(rows, path)
<1> DEFINE n == Len(path)
           N == NewestIn(rows, path, n)
           h == HistoryUntil(path, n)
<1>1. n \in Nat \ {0} /\ \A i \in 1..n : path[i] \in Ids(rows)
  BY PathIds DEF Ids
<1>2. /\ h \in Seq(Ids(rows)) /\ OpeningIn(rows, h) = UnderIn(rows, path)
      /\ \A i \in 1..n : i >= N => \E k \in 1..Len(h) : h[k] = path[i]
  BY HistoryWhole
<1>3. /\ N \in 0..n /\ (N # 0 => rows[path[N]].kind = "summary")
      /\ \A i \in 1..n : rows[path[i]].kind = "summary" => i <= N
  BY <1>1, NewestIs
<1>4. CASE Continues
  <2>1. ResumeBase = h
    BY <1>4 DEF ResumeBase
  <2> HIDE DEF h, N
  <2>2. CoversIn(rows, h, path)
    BY <1>2, <1>3, CoversAll DEF CoversIn
  <2> QED BY <2>1, <2>2, <1>2
<1>5. CASE ~Continues
  <2>1. LastKind = "prompt"
    <3> SUFFICES ASSUME LastKind # "prompt" PROVE FALSE
      OBVIOUS
    <3>1. n > 1 /\ rows[path[n - 1]].kind = "prompt" /\ rows[path[n]].kind # "summary"
      BY DEF PartialIn, LastKind
    <3>2. n - 1 \in 1..n /\ n \in 1..n
      BY <3>1, <1>1
    <3>3. N # n /\ N # n - 1
      BY <3>1, <3>2, <1>1, <1>3
    <3>4. n - 1 >= N
      <4> HIDE DEF n, N
      <4> QED BY <3>3, <1>1, <1>3
    <3>5. PICK k \in 1..Len(h) : h[k] = path[n - 1]
      BY <3>2, <3>4, <1>2
    <3>6. h[k] \in ToSet(h)
      BY <1>2 DEF ToSet
    <3>7. rows[Last(path)].kind # "prompt"
      BY DEF Last, LastKind
    <3>8. Continues
      BY <3>1, <3>5, <3>6, <3>7 DEF Continues
    <3> QED BY <3>8, <1>5
  <2>2. LastPrompt = n
    BY <2>1, LastPromptIs
  <2> DEFINE m == n - 1
             M == NewestIn(rows, path, m)
             id == path[n]
             b == Append(HistoryUntil(path, m), id)
  <2>3. ResumeBase = b
    BY <2>2, <1>5 DEF ResumeBase
  <2>4. m \in 0..n /\ m \in Nat /\ n = m + 1 /\ id \in Ids(rows) /\ rows[id].kind # "summary"
    BY <2>1, <1>1 DEF LastKind
  <2>5. Grown(rows, rows) /\ Len(rows) \in Nat
    BY DEF Grown
  <2>6. N = M
    BY <2>4, <1>1, NewestBefore
  <2> HIDE DEF m, id
  <2>7. m \in 0..Len(path)
    BY <2>4
  <2>8. /\ b \in Seq(Ids(rows)) /\ OpeningIn(rows, b) = IF M = 0 THEN 0 ELSE path[M]
        /\ \A i \in 1..m : i >= M => \E k \in 1..Len(b) : b[k] = path[i]
        /\ \E k \in 1..Len(b) : b[k] = id
    BY <2>4, <2>5, <2>7, HistoryAnd
  <2>9. OpeningIn(rows, b) = UnderIn(rows, path)
    BY <2>6, <2>8 DEF UnderIn
  <2> HIDE DEF b, N, M
  <2>10. \A i \in 1..n : i >= N => \E k \in 1..Len(b) : b[k] = path[i]
    <3> SUFFICES ASSUME NEW i \in 1..n, i >= N PROVE \E k \in 1..Len(b) : b[k] = path[i]
      OBVIOUS
    <3>1. CASE i = n
      BY <3>1, <2>8 DEF id
    <3>2. CASE i # n
      <4>1. i \in 1..m
        BY <3>2, <2>4
      <4> QED BY <4>1, <2>6, <2>8
    <3> QED BY <3>1, <3>2
  <2>11. CoversIn(rows, b, path)
    BY <2>10, <1>3, CoversAll DEF CoversIn
  <2> QED BY <2>3, <2>9, <2>11
<1> QED BY <1>4, <1>5

LEMMA ResumeCover ==
    ASSUME LineInv, CoverInv, run.at # "idle", ResumeLastTurn
    PROVE  CoverInv'
<1>1. /\ rows' = rows /\ path' = path /\ memory' = path
      /\ run'.at = "ready" /\ run'.base = ResumeBase
      /\ run'.reply = Continuation /\ run'.own = <<>>
      /\ rows \in Seq(Rows) /\ path \in Seq(Ids(rows)) /\ path # <<>>
      /\ FirstKind = "prompt" /\ LastKind # "summary"
  BY ResumeIs
<1>2. FoldedIn(rows, path) /\ PartialIn(rows, path)
  BY DEF CoverInv
<1>3. CoversIn(rows, ResumeBase, path)
  BY <1>1, <1>2, ResumeCovers
<1>4. SmallReply'
  <2> DEFINE id == path[Len(path)]
  <2>1. Continuation = IF LastKind = "reply" THEN id ELSE 0
    BY DEF Continuation, LastKind, Last
  <2>2. id \in Ids(rows) /\ id # 0
    BY <1>1, PathIds DEF Ids
  <2>3. rows[id] \in Rows
    BY <2>2, <1>1 DEF Ids
  <2>4. rows[id].calls \in Seq(Nat)
    BY <2>3 DEF Rows
  <2>5. CASE LastKind = "reply"
    <3>1. Sum(rows[id].calls) < Keep
      BY <2>5, <1>2 DEF PartialIn, LastKind
    <3>2. Earlier' = rows[id].calls
      BY <2>1, <2>2, <2>5, <1>1 DEF Earlier
    <3>3. Earlier' \o run'.own = rows[id].calls
      <4> DEFINE c == rows[id].calls
      <4>1. Earlier' \o run'.own = c \o <<>> /\ c \in Seq(Nat)
        BY <3>2, <2>4, <1>1
      <4> HIDE DEF c
      <4>2. c \o <<>> = c
        BY <4>1
      <4> QED BY <4>1, <4>2 DEF c
    <3> QED BY <3>1, <3>3 DEF SmallReply
  <2>6. CASE LastKind # "reply"
    <3>1. Earlier' = <<>> /\ run'.own = <<>>
      BY <2>1, <2>6, <1>1 DEF Earlier
    <3>2. Earlier' \o run'.own = <<>>
      BY <3>1
    <3> QED BY <3>2 DEF SmallReply
  <2> QED BY <2>5, <2>6
<1> QED BY <1>1, <1>2, <1>3, <1>4 DEF CoverInv

LEMMA HandleOverflowCover == ASSUME LineInv, CoverInv, HandleOverflow PROVE CoverInv'
<1>1. run.at # "idle"
  BY DEF HandleOverflow
<1>2. CASE ResumeLastTurn
  BY <1>1, <1>2, ResumeCover
<1>3. CASE run' = Idle /\ UNCHANGED <<session, tracker, seen>>
  <2>1. rows' = rows /\ path' = path /\ memory' = memory /\ run'.at = "idle"
    BY <1>3, IdleType DEF session
  <2> QED BY <2>1 DEF CoverInv, Asking
<1> QED BY <1>2, <1>3 DEF HandleOverflow

LEMMA RetryFiresCover == ASSUME LineInv, CoverInv, RetryFires PROVE CoverInv'
BY ResumeCover DEF RetryFires

LEMMA InitCover == Init => CoverInv
<1> SUFFICES ASSUME Init PROVE CoverInv
  OBVIOUS
<1>1. path = <<>> /\ memory = <<>> /\ run.at = "idle" /\ Len(<<>>) = 0
  BY IdleType DEF Init
<1>2. FoldedIn(rows, path) /\ FoldedIn(rows, memory)
  BY <1>1 DEF FoldedIn
<1> QED BY <1>1, <1>2 DEF CoverInv, Asking

LEMMA StutterCover == ASSUME CoverInv, UNCHANGED vars PROVE CoverInv'
<1>1. rows' = rows /\ path' = path /\ memory' = memory /\ run' = run
  BY DEF vars, session, request
<1> QED BY <1>1 DEF CoverInv, SmallReply, Earlier

LEMMA NextCover == TailTold /\ LineInv /\ CoverInv /\ [Next]_vars => CoverInv'
<1> SUFFICES ASSUME TailTold, LineInv, CoverInv, [Next]_vars PROVE CoverInv'
  OBVIOUS
<1>1. CASE User
  BY <1>1, SendMessageCover, CompactSessionCover, LoadSessionCover, CancelStreamCover DEF User
<1>2. CASE Work
  BY <1>2, CallModelCover, CallToolCover, ReplyDoneCover, RequestFailsCover, RetryFiresCover,
     PersistOverflowCover, CompactActivePathCover, HandleOverflowCover DEF Work
<1>3. CASE UNCHANGED vars
  BY <1>3, StutterCover
<1> QED BY <1>1, <1>2, <1>3 DEF Next

LEMMA Covers == ASSUME TailTold PROVE Spec => []CoverInv
<1>1. Init => CoverInv
  BY InitCover
<1>2. LineInv /\ CoverInv /\ [Next]_vars => CoverInv'
  BY NextCover
<1> QED BY <1>1, <1>2, Lines, PTL DEF Spec

\* A request accounts for the whole conversation, however often it was
\* compacted, cut off and gone on with, where no turn alone fills the tail.
THEOREM CoverCorrect == ASSUME TailTold PROVE Spec => []RequestCovers
<1>1. LineInv /\ CoverInv => RequestCovers
  <2> SUFFICES ASSUME LineInv, CoverInv, run.at \in {"ready", "called"},
                      NEW id \in ToSet(memory)
               PROVE  \/ id \in ToSet(run.base)
                      \/ \E s \in ToSet(run.base) : id \in rows[s].folds
    BY DEF RequestCovers
  <2>1. memory \in Seq(Ids(rows)) /\ run.base \in Seq(Ids(rows))
    BY DEF LineInv, TypeOK, Runs
  <2>2. PICK i \in 1..Len(memory) : id = memory[i]
    BY <2>1 DEF ToSet
  <2>3. \A k \in 1..Len(run.base) : run.base[k] \in ToSet(run.base)
    BY <2>1 DEF ToSet
  <2>4. \/ \E k \in 1..Len(run.base) : run.base[k] = memory[i]
        \/ \E k \in 1..Len(run.base) : /\ rows[run.base[k]].kind = "summary"
                                       /\ memory[i] \in rows[run.base[k]].folds
    BY DEF CoverInv, CoversIn
  <2> QED BY <2>2, <2>3, <2>4
<1> QED BY <1>1, Lines, Covers, PTL

-----------------------------------------------------------------------------
(* What a stop measured                                                     *)

\* No reply is committed over the budget, and no turn fills the tail.
MeasureTold == TailTold /\ "full" \notin Upsets

Within(usage) == usage.tokens <= Usable

\* No row has a usage over the budget; one in memory measured the conversation
\* that the next request sends, or the one that is being made.
MeasureInv ==
    /\ \A id \in Ids(rows) : Within(rows[id].usage)
    /\ Within(anchor) \/ anchor.under = UnderIn(rows, memory)
    /\ run.at \in {"ready", "called"} => OpeningIn(rows, run.base) = UnderIn(rows, memory)
    /\ run.at \in {"ready", "called", "stopped"} =>
         Within(tracker) \/ tracker.under = OpeningIn(rows, run.base)
    /\ run.at = "stopped" => ~Within(tracker)

LEMMA NoneWithin == Within(NoUsage)
<1>1. NoUsage.tokens = 0
  BY DEF NoUsage
<1>2. 0 <= Usable
  BY BoundsAre DEF Usable
<1> QED BY <1>1, <1>2 DEF Within

\* A run that stops is over the budget, and one that is not is within it.
LEMMA StopIs == ASSUME LineInv PROVE Stop <=> ~Within(tracker)
<1>1. tracker.tokens \in Nat
  BY DEF LineInv, TypeOK, Usages
<1>2. Usable \in Int
  BY BoundsAre DEF Usable
<1> QED BY <1>1, <1>2 DEF Stop, Within

\* What is loaded from the rows is within the budget.
LEMMA LoadedWithin ==
    ASSUME NEW r \in Seq(Rows), NEW p \in Seq(Ids(r)), \A id \in Ids(r) : Within(r[id].usage)
    PROVE  Within(LastUsageIn(r, p))
BY LastUsageIs, NoneWithin

LEMMA SendMessageMeasure == ASSUME LineInv, MeasureInv, SendMessage PROVE MeasureInv'
<1> DEFINE m == Len(rows) + 1
           b == Append(HistoryUntil(memory, Len(memory)), m)
<1>1. PICK size \in Texts : rows' = Append(rows, Row("prompt", <<>>, size, NoUsage, {}))
  BY DEF SendMessage
<1> DEFINE row == Row("prompt", <<>>, size, NoUsage, {})
<1>2. rows \in Seq(Rows) /\ memory \in Seq(Ids(rows))
  BY DEF LineInv, TypeOK
<1>3. row \in Rows /\ row.kind = "prompt" /\ row.usage = NoUsage
  <2>1. size \in Nat /\ NoUsage \in Usages /\ <<>> \in Seq(Nat)
    BY CompactionAssumption DEF NoUsage, Usages
  <2> QED BY <2>1 DEF Row, Rows
<1> HIDE DEF row
<1>4. /\ rows' \in Seq(Rows) /\ Len(rows') = m /\ rows'[m] = row /\ m \in Ids(rows')
      /\ \A id \in Ids(rows) : id \in Ids(rows') /\ rows'[id] = rows[id]
      /\ Grown(rows, rows') /\ Len(rows) \in Nat
  BY <1>1, <1>2, <1>3, GrownOn DEF row
<1>5. memory' = Append(memory, m) /\ Start(b, 0, anchor) /\ anchor' = anchor
  BY <1>4 DEF SendMessage
<1>6. \A id \in Ids(rows') : id = m \/ id \in Ids(rows)
  BY <1>4 DEF Ids
<1>7. Len(rows') \in Nat
  BY <1>4
<1> HIDE DEF m
<1>8. \A id \in Ids(rows') : Within(rows'[id].usage)
  BY <1>3, <1>4, <1>6, NoneWithin DEF MeasureInv
<1>9. rows'[m].kind # "summary"
  BY <1>3, <1>4
<1>10. UnderIn(rows', memory') = UnderIn(rows, memory)
  <2>1. memory \in Seq(Ids(rows')) /\ UnderIn(rows', memory) = UnderIn(rows, memory)
    BY <1>2, <1>4, <1>7, GrownKeeps
  <2>2. UnderIn(rows', Append(memory, m)) = UnderIn(rows', memory)
    BY <2>1, <1>4, <1>9, PathOn
  <2> QED BY <2>1, <2>2, <1>5
<1>11. OpeningIn(rows', b) = UnderIn(rows, memory)
  <2>1. /\ memory \in Seq(Ids(rows)) /\ Grown(rows, rows') /\ m \in Ids(rows')
        /\ rows'[m].kind # "summary" /\ Len(rows) \in Nat /\ Len(rows') \in Nat
    BY <1>2, <1>4, <1>7, <1>9
  <2>2. LET b0 == Append(HistoryUntil(memory, Len(memory)), m)
        IN OpeningIn(rows', b0) = UnderIn(rows, memory)
    BY ONLY <2>1, HistoryThen
  <2> QED BY <2>2
<1> HIDE DEF b
<1>12. run'.at = "ready" /\ run'.base = b /\ (tracker' = anchor \/ tracker' = NoUsage)
  BY <1>5, StartIs
<1>13. Within(tracker') \/ tracker'.under = OpeningIn(rows', run'.base)
  BY <1>11, <1>12, NoneWithin DEF MeasureInv
<1>14. Within(anchor') \/ anchor'.under = UnderIn(rows', memory')
  BY <1>5, <1>10 DEF MeasureInv
<1> QED BY <1>8, <1>10, <1>11, <1>12, <1>13, <1>14 DEF MeasureInv, Within, Usable

LEMMA CompactSessionMeasure == ASSUME LineInv, MeasureInv, CompactSession PROVE MeasureInv'
<1>1. /\ HasPlan(path) /\ rows' = Append(rows, Summary(path)) /\ path' = Spliced(path)
      /\ anchor' = LastUsage(path)' /\ run' = run /\ run.at = "idle"
  BY DEF CompactSession, request
<1>2. /\ rows' \in Seq(Rows) /\ path' \in Seq(Ids(rows'))
      /\ \A id \in Ids(rows) : rows'[id] = rows[id]
      /\ \A id \in Ids(rows') : id \in Ids(rows) \/ rows'[id].usage = NoUsage
  BY <1>1, SpliceLine
<1>3. \A id \in Ids(rows') : Within(rows'[id].usage)
  BY <1>2, NoneWithin DEF MeasureInv
<1>4. anchor' = LastUsageIn(rows', path')
  BY <1>1, LastUsageSame
<1>5. Within(anchor')
  BY <1>2, <1>3, <1>4, LoadedWithin
<1> QED BY <1>1, <1>3, <1>5 DEF MeasureInv, Within, Usable

LEMMA LoadSessionMeasure == ASSUME LineInv, MeasureInv, LoadSession PROVE MeasureInv'
<1>1. /\ rows' = rows /\ anchor' = LastUsage(path) /\ run' = run /\ run.at = "idle"
      /\ rows \in Seq(Rows) /\ path \in Seq(Ids(rows))
  BY DEF LoadSession, request, LineInv, TypeOK
<1>2. \A id \in Ids(rows) : Within(rows[id].usage)
  BY DEF MeasureInv
<1>3. Within(anchor')
  BY <1>1, <1>2, LoadedWithin, LastUsageSame
<1> QED BY <1>1, <1>2, <1>3 DEF MeasureInv, Within, Usable

LEMMA CallModelMeasure == ASSUME LineInv, MeasureInv, CallModel PROVE MeasureInv'
<1>1. run.at = "ready" /\ rows' = rows /\ memory' = memory
  BY DEF CallModel
<1> DEFINE size == Size(Sent(Request))
           usage == [tokens |-> size + Preamble, under |-> Opening(run.base)]
<1>2. \/ /\ Stop
         /\ run' = [run EXCEPT !.at = "stopped"]
         /\ tracker' = tracker /\ anchor' = anchor
      \/ /\ run' = [run EXCEPT !.at = "rejected"]
         /\ tracker' = tracker /\ anchor' = anchor
      \/ /\ run' = [run EXCEPT !.at = "called", !.usage = usage]
         /\ tracker' = usage /\ anchor' = usage
      \/ /\ run' = [run EXCEPT !.at = "called"]
         /\ tracker' = tracker /\ anchor' = anchor
  BY DEF CallModel
<1>3. run \in Runs(rows) /\ run.base \in Seq(Ids(rows)) /\ run.base # <<>>
  BY <1>1 DEF LineInv, TypeOK, EndsWell, Asking, Runs
<1>4. usage.under = OpeningIn(rows, run.base)
  BY <1>3, OpeningIs
<1> HIDE DEF usage
<1>5. run'.base = run.base
  BY <1>2, <1>3 DEF Runs
<1>6. /\ \A id \in Ids(rows) : Within(rows[id].usage)
      /\ Within(anchor) \/ anchor.under = UnderIn(rows, memory)
      /\ OpeningIn(rows, run.base) = UnderIn(rows, memory)
      /\ Within(tracker) \/ tracker.under = OpeningIn(rows, run.base)
  BY <1>1 DEF MeasureInv
<1>7. Within(anchor') \/ anchor'.under = UnderIn(rows, memory)
  BY <1>2, <1>4, <1>6
<1>8. Within(tracker') \/ tracker'.under = OpeningIn(rows, run.base)
  BY <1>2, <1>4, <1>6
<1>9. run'.at = "stopped" => ~Within(tracker')
  <2>1. CASE Stop /\ tracker' = tracker
    BY <2>1, StopIs
  <2>2. CASE run'.at # "stopped"
    BY <2>2
  <2> QED BY <2>1, <2>2, <1>2, <1>3 DEF Runs
<1> QED BY <1>1, <1>5, <1>6, <1>7, <1>8, <1>9 DEF MeasureInv, Within, Usable

LEMMA CallToolMeasure == ASSUME LineInv, MeasureInv, CallTool PROVE MeasureInv'
<1>1. PICK size \in Outputs : run' = [run EXCEPT !.at = "ready", !.own = Append(@, size)]
  BY DEF CallTool
<1>2. /\ run.at = "called" /\ rows' = rows /\ memory' = memory
      /\ anchor' = anchor /\ tracker' = tracker
  BY DEF CallTool, session
<1>3. run \in Runs(rows)
  BY DEF LineInv, TypeOK
<1>4. run'.base = run.base /\ run'.at = "ready"
  BY <1>1, <1>3 DEF Runs
<1> QED BY <1>2, <1>4 DEF MeasureInv, Within, Usable

\* A request that is over, of whose rows none is over the budget.
LEMMA LandedMeasure ==
    ASSUME LineInv, MeasureInv, Landed, \A id \in Ids(rows') : Within(rows'[id].usage),
           anchor' = anchor,
           \/ run' = Idle
           \/ run' = [run EXCEPT !.at = "failed"]
           \/ run' = [run EXCEPT !.at = "compacting"]
    PROVE  MeasureInv'
<1>1. UnderIn(rows', memory') = UnderIn(rows, memory)
  BY DEF Landed
<1>2. run'.at \notin {"ready", "called", "stopped"}
  <2>1. CASE run' = Idle
    BY <2>1, IdleType
  <2>2. CASE run' # Idle
    BY <2>2 DEF LineInv, TypeOK, Runs
  <2> QED BY <2>1, <2>2
<1> QED BY <1>1, <1>2 DEF MeasureInv, Within, Usable

LEMMA WrittenWithin ==
    ASSUME LineInv, MeasureInv, run.at \in Asking, NEW text \in Nat, NEW usage \in Usages,
           Write(text, usage), Within(usage)
    PROVE  \A id \in Ids(rows') : Within(rows'[id].usage)
BY WriteIs DEF MeasureInv

LEMMA PersistWithin ==
    ASSUME LineInv, MeasureInv, run.at \in Asking, Persist
    PROVE  \A id \in Ids(rows') : Within(rows'[id].usage)
<1>1. CASE rows' = rows
  BY <1>1 DEF MeasureInv
<1>2. CASE Write(0, NoUsage)
  <2>1. 0 \in Nat /\ NoUsage \in Usages
    BY DEF NoUsage, Usages
  <2> QED BY <2>1, <1>2, NoneWithin, WrittenWithin
<1> QED BY <1>1, <1>2, PersistIs

LEMMA ReplyDoneMeasure ==
    ASSUME LineInv, MeasureInv, ReplyDone, MeasureTold PROVE MeasureInv'
<1>1. run' = Idle /\ anchor' = anchor /\ Within(run.usage)
  BY DEF ReplyDone, MeasureTold, Within
<1>2. /\ run.at \in Asking /\ Landed /\ run.usage \in Usages
      /\ \E text \in Nat : Write(text, run.usage)
  BY ReplyDoneWrites
<1>3. \A id \in Ids(rows') : Within(rows'[id].usage)
  BY <1>1, <1>2, WrittenWithin
<1> QED BY <1>1, <1>2, <1>3, LandedMeasure

LEMMA CancelStreamMeasure == ASSUME LineInv, MeasureInv, CancelStream PROVE MeasureInv'
<1>1. run.at \in Asking /\ Persist /\ run' = Idle /\ anchor' = anchor
  BY DEF CancelStream, Asking
<1> QED BY <1>1, PersistIs, PersistWithin, LandedMeasure

LEMMA RequestFailsMeasure == ASSUME LineInv, MeasureInv, RequestFails PROVE MeasureInv'
<1>1. /\ run.at \in Asking /\ Persist /\ anchor' = anchor
      /\ run' = [run EXCEPT !.at = "failed"] \/ run' = Idle
  BY DEF RequestFails, Asking
<1> QED BY <1>1, PersistIs, PersistWithin, LandedMeasure

LEMMA PersistOverflowMeasure == ASSUME LineInv, MeasureInv, PersistOverflow PROVE MeasureInv'
<1>1. /\ run.at \in Asking /\ Persist /\ anchor' = anchor
      /\ run' = [run EXCEPT !.at = "compacting"]
  BY DEF PersistOverflow, Asking
<1> QED BY <1>1, PersistIs, PersistWithin, LandedMeasure

LEMMA CompactActivePathMeasure ==
    ASSUME LineInv, MeasureInv, CompactActivePath PROVE MeasureInv'
<1>1. memory' = memory /\ anchor' = anchor /\ run.at = "compacting"
  BY DEF CompactActivePath
<1>2. \/ /\ HasPlan(path) /\ rows' = Append(rows, Summary(path)) /\ path' = Spliced(path)
         /\ run' = [run EXCEPT !.at = "compacted"]
      \/ /\ rows' = rows /\ run' = [run EXCEPT !.at = "over"]
  BY DEF CompactActivePath
<1>3. run'.at \notin {"ready", "called", "stopped"}
  BY <1>2 DEF LineInv, TypeOK, Runs
<1>4. /\ \A id \in Ids(rows') : Within(rows'[id].usage)
      /\ UnderIn(rows', memory) = UnderIn(rows, memory)
  <2>1. CASE rows' = rows
    BY <2>1 DEF MeasureInv
  <2>2. CASE HasPlan(path) /\ rows' = Append(rows, Summary(path)) /\ path' = Spliced(path)
    <3>1. /\ Grown(rows, rows') /\ Len(rows) \in Nat /\ Len(rows') = Len(rows) + 1
          /\ \A id \in Ids(rows) : rows'[id] = rows[id]
          /\ \A id \in Ids(rows') : id \in Ids(rows) \/ rows'[id].usage = NoUsage
      BY <2>2, SpliceLine
    <3>2. Len(rows') \in Nat /\ memory \in Seq(Ids(rows))
      BY <3>1 DEF LineInv, TypeOK
    <3>3. UnderIn(rows', memory) = UnderIn(rows, memory)
      BY <3>1, <3>2, GrownKeeps
    <3> QED BY <3>1, <3>3, NoneWithin DEF MeasureInv
  <2> QED BY <2>1, <2>2, <1>2
<1> QED BY <1>1, <1>3, <1>4 DEF MeasureInv, Within, Usable

LEMMA ResumeMeasure ==
    ASSUME LineInv, CoverInv, MeasureInv, run.at # "idle", ResumeLastTurn
    PROVE  MeasureInv'
<1>1. /\ rows' = rows /\ path' = path /\ memory' = path
      /\ anchor' = LastUsageIn(rows, path)
      /\ run'.at = "ready" /\ run'.base = ResumeBase
      /\ tracker' = anchor' \/ tracker' = NoUsage
      /\ rows \in Seq(Rows) /\ path \in Seq(Ids(rows)) /\ path # <<>>
      /\ FirstKind = "prompt" /\ LastKind # "summary"
  BY ResumeIs
<1>2. \A id \in Ids(rows) : Within(rows[id].usage)
  BY DEF MeasureInv
<1>3. Within(anchor') /\ Within(tracker')
  BY <1>1, <1>2, LoadedWithin, NoneWithin
<1>4. OpeningIn(rows, ResumeBase) = UnderIn(rows, path)
  BY <1>1, ResumeCovers DEF CoverInv
<1> QED BY <1>1, <1>2, <1>3, <1>4 DEF MeasureInv, Within, Usable

LEMMA HandleOverflowMeasure ==
    ASSUME LineInv, CoverInv, MeasureInv, HandleOverflow PROVE MeasureInv'
<1>1. run.at # "idle"
  BY DEF HandleOverflow
<1>2. CASE ResumeLastTurn
  BY <1>1, <1>2, ResumeMeasure
<1>3. CASE run' = Idle /\ UNCHANGED <<session, tracker, seen>>
  <2>1. rows' = rows /\ memory' = memory /\ anchor' = anchor /\ run'.at = "idle"
    BY <1>3, IdleType DEF session
  <2> QED BY <2>1 DEF MeasureInv, Within, Usable
<1> QED BY <1>2, <1>3 DEF HandleOverflow

LEMMA RetryFiresMeasure ==
    ASSUME LineInv, CoverInv, MeasureInv, RetryFires PROVE MeasureInv'
BY ResumeMeasure DEF RetryFires

LEMMA InitMeasure == Init => MeasureInv
<1> SUFFICES ASSUME Init PROVE MeasureInv
  OBVIOUS
<1>1. rows = <<>> /\ Len(<<>>) = 0 /\ anchor = NoUsage /\ run.at = "idle"
  BY IdleType DEF Init
<1>2. \A id \in Ids(rows) : Within(rows[id].usage)
  BY <1>1 DEF Ids
<1> QED BY <1>1, <1>2, NoneWithin DEF MeasureInv

LEMMA StutterMeasure == ASSUME MeasureInv, UNCHANGED vars PROVE MeasureInv'
<1>1. /\ rows' = rows /\ memory' = memory /\ run' = run /\ anchor' = anchor
      /\ tracker' = tracker
  BY DEF vars, session, request
<1> QED BY <1>1 DEF MeasureInv, Within, Usable

LEMMA NextMeasure ==
    MeasureTold /\ LineInv /\ CoverInv /\ MeasureInv /\ [Next]_vars => MeasureInv'
<1> SUFFICES ASSUME MeasureTold, LineInv, CoverInv, MeasureInv, [Next]_vars PROVE MeasureInv'
  OBVIOUS
<1>1. CASE User
  BY <1>1, SendMessageMeasure, CompactSessionMeasure, LoadSessionMeasure, CancelStreamMeasure
     DEF User
<1>2. CASE Work
  BY <1>2, CallModelMeasure, CallToolMeasure, ReplyDoneMeasure, RequestFailsMeasure,
     RetryFiresMeasure, PersistOverflowMeasure, CompactActivePathMeasure,
     HandleOverflowMeasure DEF Work
<1>3. CASE UNCHANGED vars
  BY <1>3, StutterMeasure
<1> QED BY <1>1, <1>2, <1>3 DEF Next

\* A run is only stopped by a measure of the very conversation it was about to
\* send, never by one taken before the conversation was compacted, where no
\* reply is committed over the budget and no turn alone fills the tail.
THEOREM StopCorrect == ASSUME MeasureTold PROVE Spec => []StopIsMeasured
<1>1. Init => MeasureInv
  BY InitMeasure
<1>2. LineInv /\ CoverInv /\ MeasureInv /\ [Next]_vars => MeasureInv'
  BY NextMeasure
<1>3. LineInv /\ MeasureInv => StopIsMeasured
  <2> SUFFICES ASSUME LineInv, MeasureInv, run.at = "stopped"
               PROVE  tracker.under = Opening(run.base)
    BY DEF StopIsMeasured
  <2>1. run.base \in Seq(Ids(rows)) /\ run.base # <<>>
    BY DEF LineInv, TypeOK, Runs, EndsWell, Asking
  <2>2. tracker.under = OpeningIn(rows, run.base)
    BY DEF MeasureInv
  <2> QED BY <2>1, <2>2, OpeningIs
<1>4. TailTold
  BY DEF MeasureTold
<1>5. Spec => []CoverInv
  BY <1>4, Covers
<1> QED BY <1>1, <1>2, <1>3, <1>5, Lines, PTL DEF Spec

================================================================================
