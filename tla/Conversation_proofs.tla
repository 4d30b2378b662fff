-------------------------- MODULE Conversation_proofs --------------------------
(* Why the screen shows the session: proofs about Conversation.              *)
(*                                                                           *)
(* The properties speak of a screen that has read its channel empty, and no  *)
(* step empties it at once.  So the invariant speaks of the screen to come:  *)
(* the one that reading every event of the channel makes of the present one  *)
(* (Reads), and says that it fits the core (Fits).  A handler of the core    *)
(* is then compared with what the screen makes of the handler's events only; *)
(* the screen's own step, which takes an event off the channel, changes      *)
(* nothing about the screen to come.                                         *)
(*                                                                           *)
(* The first part is about reading; the second about the grouping in which   *)
(* the two sides are compared (one block more on either side, the calls that *)
(* run beside it, a change of every block that keeps its kind); the third    *)
(* about what each handler of the screen makes of a screen that fits; the    *)
(* last goes through the actions.                                            *)
EXTENDS Conversation, FiniteSetTheorems, WellFoundedInduction, TLAPS

\* A set of natural numbers has a least one.
LEMMA LeastIsIn ==
    ASSUME NEW S \in SUBSET Nat, S # {}
    PROVE  \E x \in S : \A y \in S : x <= y
<1>1. PICK x \in S : \A y \in S : ~(<<y, x>> \in OpToRel(<, Nat))
  BY NatLessThanWellFounded, WFMin
<1>2. \A y \in S : ~(y < x)
  BY <1>1 DEF OpToRel
<1> QED BY <1>2

-----------------------------------------------------------------------------
(* Reading the channel                                                      *)

\* The screen becomes s once it has read the events es: the screens it is on
\* the way are a function from the number of events read.
Reads(scr, es, s) ==
    \E t : /\ t[0] = scr
           /\ t[Len(es)] = s
           /\ \A i \in 1..Len(es) : t[i] = Shown(t[i - 1], es[i])

\* With nothing to read it stays what it is.
LEMMA ReadsNothing ==
    ASSUME NEW scr, NEW s
    PROVE  Reads(scr, <<>>, s) <=> s = scr
<1>1. ASSUME Reads(scr, <<>>, s) PROVE s = scr
  <2> PICK t : t[0] = scr /\ t[Len(<<>>)] = s
    BY <1>1 DEF Reads
  <2> QED OBVIOUS
<1>2. ASSUME s = scr PROVE Reads(scr, <<>>, s)
  <2> DEFINE t == [i \in {0} |-> scr]
  <2>1. t[0] = scr /\ t[Len(<<>>)] = s
    BY <1>2
  <2>2. \A i \in 1..Len(<<>>) : t[i] = Shown(t[i - 1], <<>>[i])
    OBVIOUS
  <2> HIDE DEF t
  <2> QED BY <2>1, <2>2 DEF Reads
<1> QED BY <1>1, <1>2

\* One event more, and it makes of the screen what the event makes of it.
LEMMA ReadsOn ==
    ASSUME NEW S, NEW es \in Seq(S), NEW e \in S, NEW scr, NEW s, Reads(scr, es, s)
    PROVE  Reads(scr, Append(es, e), Shown(s, e))
<1> PICK t : /\ t[0] = scr
             /\ t[Len(es)] = s
             /\ \A i \in 1..Len(es) : t[i] = Shown(t[i - 1], es[i])
  BY DEF Reads
<1> DEFINE n == Len(es)
           fs == Append(es, e)
           u == [i \in 0..n + 1 |-> IF i = n + 1 THEN Shown(s, e) ELSE t[i]]
<1>1. n \in Nat /\ Len(fs) = n + 1 /\ fs[n + 1] = e /\ \A i \in 1..n : fs[i] = es[i]
  OBVIOUS
<1> HIDE DEF n, fs
<1>2. u[0] = scr /\ u[n] = s /\ u[n + 1] = Shown(s, e)
  BY <1>1 DEF n
<1>3. \A i \in 1..n : u[i] = t[i] /\ u[i - 1] = t[i - 1]
  BY <1>1
<1> HIDE DEF u
<1>4. \A i \in 1..n + 1 : u[i] = Shown(u[i - 1], fs[i])
  <2> SUFFICES ASSUME NEW i \in 1..n + 1 PROVE u[i] = Shown(u[i - 1], fs[i])
    OBVIOUS
  <2>1. CASE i = n + 1
    <3>1. i - 1 = n
      BY <2>1, <1>1
    <3> QED BY <2>1, <3>1, <1>1, <1>2
  <2>2. CASE i # n + 1
    <3>1. i \in 1..n
      BY <2>2, <1>1
    <3>2. t[i] = Shown(t[i - 1], es[i])
      BY <3>1 DEF n
    <3> QED BY <3>1, <3>2, <1>1, <1>3
  <2> QED BY <2>1, <2>2
<1> QED BY <1>1, <1>2, <1>4 DEF Reads, fs

\* The screen that has read the first of them becomes the same.
LEMMA ReadsFirst ==
    ASSUME NEW S, NEW es \in Seq(S), es # <<>>, NEW scr, NEW s, Reads(scr, es, s)
    PROVE  Reads(Shown(scr, Head(es)), Tail(es), s)
<1> PICK t : /\ t[0] = scr
             /\ t[Len(es)] = s
             /\ \A i \in 1..Len(es) : t[i] = Shown(t[i - 1], es[i])
  BY DEF Reads
<1> DEFINE n == Len(es) - 1
           fs == Tail(es)
           u == [i \in 0..n |-> t[i + 1]]
<1>1. n \in Nat /\ Len(fs) = n /\ Len(es) = n + 1 /\ Head(es) = es[1]
  OBVIOUS
<1>2. \A i \in 1..n : fs[i] = es[i + 1]
  OBVIOUS
<1> HIDE DEF n, fs
<1>3. \A i \in 0..n : u[i] = t[i + 1]
  OBVIOUS
<1> HIDE DEF u
<1>4. u[0] = Shown(scr, Head(es))
  <2>1. 1 \in 1..Len(es) /\ 0 \in 0..n /\ 0 + 1 = 1 /\ 1 - 1 = 0
    BY <1>1
  <2> QED BY <1>1, <1>3, <2>1
<1>5. u[Len(fs)] = s
  BY <1>1, <1>3
<1>6. \A i \in 1..n : u[i] = Shown(u[i - 1], fs[i])
  <2> SUFFICES ASSUME NEW i \in 1..n PROVE u[i] = Shown(u[i - 1], fs[i])
    OBVIOUS
  <2>1. i \in 0..n /\ i - 1 \in 0..n /\ i + 1 \in 1..Len(es) /\ (i + 1) - 1 = i /\ (i - 1) + 1 = i
    BY <1>1
  <2> QED BY <1>2, <1>3, <2>1
<1>7. Reads(u[0], fs, s)
  BY <1>1, <1>5, <1>6 DEF Reads
<1> QED BY <1>4, <1>7 DEF fs

\* The channel of one event, two, three, four.
LEMMA ReadsEach ==
    ASSUME NEW S, NEW es \in Seq(S), NEW a \in S, NEW b \in S, NEW c \in S, NEW d \in S,
           NEW scr, NEW s, Reads(scr, es, s)
    PROVE  /\ Reads(scr, es \o <<>>, s)
           /\ Reads(scr, es \o <<a>>, Shown(s, a))
           /\ Reads(scr, es \o <<a, b>>, Shown(Shown(s, a), b))
           /\ Reads(scr, es \o <<a, b, c>>, Shown(Shown(Shown(s, a), b), c))
           /\ Reads(scr, es \o <<a, b, c, d>>, Shown(Shown(Shown(Shown(s, a), b), c), d))
<1>1. /\ es \o <<>> = es
      /\ es \o <<a>> = Append(es, a)
  OBVIOUS
<1>2. es \o <<a, b>> = Append(Append(es, a), b)
  OBVIOUS
<1>3. es \o <<a, b, c>> = Append(Append(Append(es, a), b), c)
  OBVIOUS
<1>4. es \o <<a, b, c, d>> = Append(Append(Append(Append(es, a), b), c), d)
  OBVIOUS
<1>5. /\ Append(es, a) \in Seq(S)
      /\ Append(Append(es, a), b) \in Seq(S)
      /\ Append(Append(Append(es, a), b), c) \in Seq(S)
  OBVIOUS
<1>6. Reads(scr, Append(es, a), Shown(s, a))
  BY ReadsOn
<1>7. Reads(scr, Append(Append(es, a), b), Shown(Shown(s, a), b))
  BY <1>5, <1>6, ReadsOn
<1>8. Reads(scr, Append(Append(Append(es, a), b), c), Shown(Shown(Shown(s, a), b), c))
  BY <1>5, <1>7, ReadsOn
<1>9. Reads(scr, Append(Append(Append(Append(es, a), b), c), d),
            Shown(Shown(Shown(Shown(s, a), b), c), d))
  BY <1>5, <1>8, ReadsOn
<1> QED BY <1>1, <1>2, <1>3, <1>4, <1>6, <1>7, <1>8, <1>9

-----------------------------------------------------------------------------
(* Grouping                                                                 *)

Block == [kind : {"prompt", "text", "tool", "summary"}, id : Nat,
          state : {"sent", "said", "running", "ok", "killed"}]

Groups == Seq(SUBSET Block)

\* The function that Grouped writes as a recursive one.
Groupings(bs, f) ==
    f = [n \in 0..Len(bs) |-> IF n = 0 THEN <<>> ELSE Joined(f[n - 1], bs[n])]

\* There is at most one.
LEMMA GroupingsOnce ==
    ASSUME NEW bs \in Seq(Block), NEW f, NEW g, Groupings(bs, f), Groupings(bs, g)
    PROVE  f = g
<1> DEFINE Bad == {n \in 0..Len(bs) : f[n] # g[n]}
<1>1. /\ f = [n \in 0..Len(bs) |-> IF n = 0 THEN <<>> ELSE Joined(f[n - 1], bs[n])]
      /\ g = [n \in 0..Len(bs) |-> IF n = 0 THEN <<>> ELSE Joined(g[n - 1], bs[n])]
  BY DEF Groupings
<1>2. \A n \in 0..Len(bs) :
         /\ f[n] = IF n = 0 THEN <<>> ELSE Joined(f[n - 1], bs[n])
         /\ g[n] = IF n = 0 THEN <<>> ELSE Joined(g[n - 1], bs[n])
  BY <1>1, Zenon
<1>3. Bad = {}
  <2> SUFFICES ASSUME Bad # {} PROVE FALSE
    OBVIOUS
  <2>1. Bad \in SUBSET Nat
    OBVIOUS
  <2>2. PICK n \in Bad : \A y \in Bad : n <= y
    <3> HIDE DEF Bad
    <3> QED BY <2>1, LeastIsIn
  <2>3. n \in 0..Len(bs) /\ f[n] # g[n] /\ n # 0
    BY <1>2
  <2>4. n - 1 \in 0..Len(bs) /\ n - 1 < n
    BY <2>3
  <2>5. n - 1 \notin Bad
    <3> HIDE DEF Bad
    <3> QED BY <2>2, <2>4, <2>1
  <2>6. f[n - 1] = g[n - 1]
    BY <2>4, <2>5
  <2> QED BY <1>2, <2>3, <2>6
<1>4. \A n \in 0..Len(bs) : f[n] = g[n]
  BY <1>3
<1>5. f = [n \in 0..Len(bs) |-> f[n]] /\ g = [n \in 0..Len(bs) |-> g[n]]
  <2> DEFINE F(n) == IF n = 0 THEN <<>> ELSE Joined(f[n - 1], bs[n])
             G(n) == IF n = 0 THEN <<>> ELSE Joined(g[n - 1], bs[n])
  <2>1. f = [n \in 0..Len(bs) |-> F(n)] /\ g = [n \in 0..Len(bs) |-> G(n)]
    BY <1>1
  <2> HIDE DEF F, G
  <2> QED BY <2>1
<1> QED BY <1>4, <1>5

\* One block more: one step more.
LEMMA GroupingsOn ==
    ASSUME NEW bs \in Seq(Block), NEW b \in Block, NEW f, Groupings(bs, f)
    PROVE  \E g : /\ Groupings(Append(bs, b), g)
                  /\ g[Len(Append(bs, b))] = Joined(f[Len(bs)], b)
<1> DEFINE n == Len(bs)
           cs == Append(bs, b)
           g == [i \in 0..n + 1 |-> IF i = n + 1 THEN Joined(f[n], b) ELSE f[i]]
<1>1. n \in Nat /\ Len(cs) = n + 1 /\ cs[n + 1] = b /\ \A i \in 1..n : cs[i] = bs[i]
  OBVIOUS
<1>2. f = [i \in 0..n |-> IF i = 0 THEN <<>> ELSE Joined(f[i - 1], bs[i])]
  BY DEF Groupings
<1>3. \A i \in 0..n : f[i] = IF i = 0 THEN <<>> ELSE Joined(f[i - 1], bs[i])
  BY <1>2, Zenon
<1> HIDE DEF n, cs
<1>4. \A i \in 0..n + 1 : g[i] = IF i = n + 1 THEN Joined(f[n], b) ELSE f[i]
  OBVIOUS
<1>5. \A i \in 0..n + 1 : g[i] = IF i = 0 THEN <<>> ELSE Joined(g[i - 1], cs[i])
  <2> HIDE DEF g
  <2> SUFFICES ASSUME NEW i \in 0..n + 1
               PROVE  g[i] = IF i = 0 THEN <<>> ELSE Joined(g[i - 1], cs[i])
    OBVIOUS
  <2>1. CASE i = n + 1
    <3>1. i - 1 = n /\ n \in 0..n + 1 /\ n # n + 1 /\ i # 0
      BY <2>1, <1>1
    <3>2. g[n] = f[n]
      BY <3>1, <1>4
    <3> QED BY <2>1, <3>1, <3>2, <1>1, <1>4
  <2>2. CASE i = 0
    BY <2>2, <1>1, <1>3, <1>4
  <2>3. CASE i # 0 /\ i # n + 1
    <3>1. i \in 0..n /\ i \in 1..n /\ i - 1 \in 0..n + 1 /\ i - 1 # n + 1
      BY <2>3, <1>1
    <3>2. g[i] = f[i] /\ g[i - 1] = f[i - 1]
      BY <3>1, <2>3, <1>4
    <3> QED BY <2>3, <3>1, <3>2, <1>1, <1>3
  <2> QED BY <2>1, <2>2, <2>3
<1>6. g = [i \in 0..n + 1 |-> IF i = 0 THEN <<>> ELSE Joined(g[i - 1], cs[i])]
  <2> DEFINE G(i) == IF i = n + 1 THEN Joined(f[n], b) ELSE f[i]
             H(i) == IF i = 0 THEN <<>> ELSE Joined(g[i - 1], cs[i])
  <2>1. g = [i \in 0..n + 1 |-> G(i)]
    OBVIOUS
  <2>2. \A i \in 0..n + 1 : G(i) = H(i)
    BY <1>4, <1>5, Zenon
  <2>3. [i \in 0..n + 1 |-> G(i)] = [i \in 0..n + 1 |-> H(i)]
    <3> HIDE DEF G, H
    <3> QED BY <2>2
  <2> QED BY <2>1, <2>3
<1>7. g[n + 1] = Joined(f[n], b)
  BY <1>1, <1>4
<1> HIDE DEF g
<1>8. Groupings(cs, g)
  BY <1>1, <1>6 DEF Groupings
<1> QED BY <1>1, <1>7, <1>8 DEF n, cs

\* No blocks, no groups.
LEMMA GroupingsNone ==
    \E g : Groupings(<<>>, g) /\ g[Len(<<>>)] = <<>>
<1> DEFINE g == [n \in 0..Len(<<>>) |-> <<>>]
<1>1. \A n \in 0..Len(<<>>) : n = 0 /\ g[n] = <<>>
  OBVIOUS
<1>2. g = [n \in 0..Len(<<>>) |-> IF n = 0 THEN <<>> ELSE Joined(g[n - 1], <<>>[n])]
  <2> DEFINE H(n) == IF n = 0 THEN <<>> ELSE Joined(g[n - 1], <<>>[n])
  <2>1. \A n \in 0..Len(<<>>) : <<>> = H(n)
    BY <1>1
  <2> HIDE DEF H
  <2>2. [n \in 0..Len(<<>>) |-> <<>>] = [n \in 0..Len(<<>>) |-> H(n)]
    BY <2>1
  <2> QED BY <2>2 DEF H
<1>3. g[Len(<<>>)] = <<>>
  OBVIOUS
<1> HIDE DEF g
<1> QED BY <1>2, <1>3 DEF Groupings

\* A piece of a sequence.
LEMMA PieceIs ==
    ASSUME NEW S, NEW q \in Seq(S), NEW m \in Nat \ {0}, NEW n \in Nat, n <= Len(q), m <= n + 1
    PROVE  /\ SubSeq(q, m, n) \in Seq(S) /\ Len(SubSeq(q, m, n)) = n - m + 1
           /\ \A i \in 1..n - m + 1 : SubSeq(q, m, n)[i] = q[i + m - 1]
OBVIOUS

\* A sequence that is not empty is its front and its last.
LEMMA FrontLast ==
    ASSUME NEW S, NEW q \in Seq(S), Len(q) # 0
    PROVE  /\ SubSeq(q, 1, Len(q) - 1) \in Seq(S)
           /\ q[Len(q)] \in S
           /\ q = Append(SubSeq(q, 1, Len(q) - 1), q[Len(q)])
           /\ Len(SubSeq(q, 1, Len(q) - 1)) = Len(q) - 1
           /\ Len(q) \in Nat \ {0}
<1> DEFINE n == Len(q)
           m == n - 1
           p == SubSeq(q, 1, m)
           r == Append(p, q[n])
<1>1. n \in Nat \ {0} /\ \A i \in 1..n : q[i] \in S
  OBVIOUS
<1>2. m \in Nat /\ m <= n /\ 1 <= m + 1 /\ n = m + 1 /\ n \in 1..n
  BY <1>1
<1>3. p \in Seq(S) /\ Len(p) = m /\ \A i \in 1..m : p[i] = q[i]
  <2> HIDE DEF m
  <2> QED BY <1>2, PieceIs
<1> HIDE DEF p, m
<1>4. /\ r \in Seq(S) /\ Len(r) = n /\ r[n] = q[n]
      /\ \A i \in 1..m : r[i] = q[i]
  BY <1>1, <1>2, <1>3
<1> HIDE DEF r
<1>5. \A i \in 1..n : r[i] = q[i]
  BY <1>2, <1>4
<1>6. r = q
  BY <1>1, <1>4, <1>5
<1> QED BY <1>1, <1>2, <1>3, <1>6 DEF p, m, r

\* There is one for every conversation.
LEMMA GroupingsExist ==
    ASSUME NEW bs \in Seq(Block)
    PROVE  \E f : Groupings(bs, f)
<1> DEFINE Bad == {n \in Nat : \E q \in Seq(Block) : Len(q) = n /\ ~ \E f : Groupings(q, f)}
<1>1. Bad = {}
  <2> SUFFICES ASSUME Bad # {} PROVE FALSE
    OBVIOUS
  <2>1. Bad \in SUBSET Nat
    OBVIOUS
  <2>2. PICK n \in Bad : \A y \in Bad : n <= y
    <3> HIDE DEF Bad
    <3> QED BY <2>1, LeastIsIn
  <2>3. PICK q \in Seq(Block) : Len(q) = n /\ ~ \E f : Groupings(q, f)
    BY <2>2
  <2>4. CASE n = 0
    <3>1. q = <<>>
      BY <2>3, <2>4
    <3> QED BY <3>1, <2>3, GroupingsNone
  <2>5. CASE n # 0
    <3> DEFINE p == SubSeq(q, 1, Len(q) - 1)
    <3>1. /\ p \in Seq(Block) /\ q[Len(q)] \in Block
          /\ q = Append(p, q[Len(q)]) /\ Len(p) = n - 1 /\ n \in Nat \ {0}
      BY <2>3, <2>5, FrontLast
    <3> HIDE DEF p
    <3>2. n - 1 \in Nat /\ n - 1 \notin Bad
      <4> HIDE DEF Bad
      <4> QED BY <3>1, <2>2, <2>1
    <3>3. PICK f : Groupings(p, f)
      BY <3>1, <3>2
    <3>4. \E g : Groupings(Append(p, q[Len(q)]), g)
      BY <3>1, <3>3, GroupingsOn
    <3> QED BY <3>1, <3>4, <2>3
  <2> QED BY <2>4, <2>5
<1>2. Len(bs) \in Nat
  OBVIOUS
<1> QED BY <1>1, <1>2

\* What Grouped is.
LEMMA GroupedIs ==
    ASSUME NEW bs \in Seq(Block), NEW f, Groupings(bs, f)
    PROVE  Grouped(bs) = f[Len(bs)]
<1> DEFINE Is(g) == g = [n \in 0..Len(bs) |-> IF n = 0 THEN <<>> ELSE Joined(g[n - 1], bs[n])]
           g == CHOOSE h : Is(h)
<1>1. Is(f)
  BY DEF Groupings
<1>2. Is(g)
  <2> HIDE DEF Is
  <2> QED BY <1>1
<1>3. Groupings(bs, g)
  BY <1>2 DEF Groupings
<1>4. Grouped(bs) = g[Len(bs)]
  BY DEF Grouped
<1> HIDE DEF g
<1>5. f = g
  BY <1>3, GroupingsOnce
<1> QED BY <1>4, <1>5

LEMMA GroupedNone == Grouped(<<>>) = <<>>
<1>1. <<>> \in Seq(Block)
  OBVIOUS
<1> QED BY <1>1, GroupingsNone, GroupedIs

LEMMA GroupedOn ==
    ASSUME NEW bs \in Seq(Block), NEW b \in Block
    PROVE  Grouped(Append(bs, b)) = Joined(Grouped(bs), b)
<1>1. PICK f : Groupings(bs, f)
  BY GroupingsExist
<1>2. PICK g : /\ Groupings(Append(bs, b), g)
               /\ g[Len(Append(bs, b))] = Joined(f[Len(bs)], b)
  BY <1>1, GroupingsOn
<1>3. Append(bs, b) \in Seq(Block)
  OBVIOUS
<1>4. Grouped(bs) = f[Len(bs)]
  BY <1>1, GroupedIs
<1>5. Grouped(Append(bs, b)) = g[Len(Append(bs, b))]
  BY <1>2, <1>3, GroupedIs
<1> QED BY <1>2, <1>4, <1>5

\* Whether a block goes into the last group.
OnTop(G, b) == G # <<>> /\ ~IsPrompt(b) /\ \A x \in G[Len(G)] : x.kind = b.kind

LEMMA AppendIs ==
    ASSUME NEW T, NEW q \in Seq(T), NEW e \in T
    PROVE  /\ Append(q, e) \in Seq(T) /\ Len(Append(q, e)) = Len(q) + 1
           /\ \A k \in 1..Len(q) + 1 :
                 Append(q, e)[k] = IF k = Len(q) + 1 THEN e ELSE q[k]
OBVIOUS

LEMMA ReplaceIs ==
    ASSUME NEW T, NEW q \in Seq(T), NEW n \in 1..Len(q), NEW e \in T
    PROVE  /\ [q EXCEPT ![n] = e] \in Seq(T) /\ Len([q EXCEPT ![n] = e]) = Len(q)
           /\ \A k \in 1..Len(q) : [q EXCEPT ![n] = e][k] = IF k = n THEN e ELSE q[k]
OBVIOUS

\* A block that goes into the last group.
LEMMA JoinedOnTop ==
    ASSUME NEW S \in SUBSET Block, NEW G \in Seq(SUBSET S), NEW b \in S, OnTop(G, b)
    PROVE  /\ Joined(G, b) \in Seq(SUBSET S)
           /\ Len(Joined(G, b)) = Len(G) /\ Len(G) \in 1..Len(G)
           /\ \A k \in 1..Len(G) : Joined(G, b)[k] = IF k = Len(G) THEN G[k] \cup {b} ELSE G[k]
<1> DEFINE n == Len(G)
           g == G[n] \cup {b}
<1>1. Joined(G, b) = [G EXCEPT ![n] = g]
  BY DEF Joined, OnTop, Last
<1>2. n \in Nat /\ n # 0
  BY DEF OnTop
<1>3. n \in 1..n /\ g \in SUBSET S
  BY <1>2
<1>4. /\ [G EXCEPT ![n] = g] \in Seq(SUBSET S) /\ Len([G EXCEPT ![n] = g]) = n
      /\ \A k \in 1..n : [G EXCEPT ![n] = g][k] = IF k = n THEN g ELSE G[k]
  <2> HIDE DEF g
  <2> QED BY <1>3, ReplaceIs
<1> QED BY <1>1, <1>3, <1>4

\* A block that begins a group.
LEMMA JoinedNew ==
    ASSUME NEW S \in SUBSET Block, NEW G \in Seq(SUBSET S), NEW b \in S, ~OnTop(G, b)
    PROVE  /\ Joined(G, b) = Append(G, {b})
           /\ Joined(G, b) \in Seq(SUBSET S)
           /\ Len(Joined(G, b)) = Len(G) + 1 /\ Len(G) \in Nat
           /\ \A k \in 1..Len(G) + 1 :
                 Joined(G, b)[k] = IF k = Len(G) + 1 THEN {b} ELSE G[k]
<1>1. Joined(G, b) = Append(G, {b})
  BY DEF Joined, OnTop, Last
<1>2. {b} \in SUBSET S
  OBVIOUS
<1> QED BY <1>1, <1>2, AppendIs

LEMMA JoinedType ==
    ASSUME NEW S \in SUBSET Block, NEW G \in Seq(SUBSET S), NEW b \in S
    PROVE  Joined(G, b) \in Seq(SUBSET S)
BY JoinedOnTop, JoinedNew

\* The groups are of the blocks.
LEMMA GroupedType ==
    ASSUME NEW S \in SUBSET Block, NEW bs \in Seq(S)
    PROVE  Grouped(bs) \in Seq(SUBSET S)
<1> DEFINE Bad == {n \in Nat : \E q \in Seq(S) : Len(q) = n /\ Grouped(q) \notin Seq(SUBSET S)}
<1>1. Bad = {}
  <2> SUFFICES ASSUME Bad # {} PROVE FALSE
    OBVIOUS
  <2>1. Bad \in SUBSET Nat
    OBVIOUS
  <2>2. PICK n \in Bad : \A y \in Bad : n <= y
    <3> HIDE DEF Bad
    <3> QED BY <2>1, LeastIsIn
  <2>3. PICK q \in Seq(S) : Len(q) = n /\ Grouped(q) \notin Seq(SUBSET S)
    BY <2>2
  <2>4. CASE n = 0
    <3>1. q = <<>> /\ <<>> \in Seq(SUBSET S)
      BY <2>3, <2>4
    <3> QED BY <3>1, <2>3, GroupedNone
  <2>5. CASE n # 0
    <3> DEFINE p == SubSeq(q, 1, Len(q) - 1)
    <3>1. /\ p \in Seq(S) /\ q[Len(q)] \in S
          /\ q = Append(p, q[Len(q)]) /\ Len(p) = n - 1 /\ n \in Nat \ {0}
      BY <2>3, <2>5, FrontLast
    <3> HIDE DEF p
    <3>2. n - 1 \in Nat /\ n - 1 \notin Bad
      <4> HIDE DEF Bad
      <4> QED BY <3>1, <2>2, <2>1
    <3>3. Grouped(p) \in Seq(SUBSET S)
      BY <3>1, <3>2
    <3>4. p \in Seq(Block) /\ q[Len(q)] \in Block
      BY <3>1
    <3>5. Grouped(Append(p, q[Len(q)])) = Joined(Grouped(p), q[Len(q)])
      BY <3>4, GroupedOn
    <3> QED BY <3>1, <3>3, <3>5, <2>3, JoinedType
  <2> QED BY <2>4, <2>5
<1>2. Len(bs) \in Nat
  OBVIOUS
<1> QED BY <1>1, <1>2

-----------------------------------------------------------------------------
(* Blocks that change                                                       *)

\* A change of blocks that leaves their kind, and groups so changed.
KindKept(h) == h \in [Block -> Block] /\ \A x \in Block : h[x].kind = x.kind
Mapped(G, h) == [k \in DOMAIN G |-> {h[x] : x \in G[k]}]
MappedSeq(bs, h) == [i \in DOMAIN bs |-> h[bs[i]]]

LEMMA MappedIs ==
    ASSUME NEW G \in Groups, NEW h, KindKept(h)
    PROVE  /\ Mapped(G, h) \in Groups /\ Len(Mapped(G, h)) = Len(G)
           /\ \A k \in 1..Len(G) : Mapped(G, h)[k] = {h[x] : x \in G[k]}
<1>1. DOMAIN G = 1..Len(G) /\ Len(G) \in Nat /\ \A k \in 1..Len(G) : G[k] \in SUBSET Block
  BY DEF Groups
<1>2. \A k \in 1..Len(G) : {h[x] : x \in G[k]} \in SUBSET Block
  BY <1>1 DEF KindKept
<1> DEFINE I(k) == {h[x] : x \in G[k]}
           M == [k \in 1..Len(G) |-> I(k)]
<1>3. M \in Seq(SUBSET Block) /\ Len(M) = Len(G) /\ \A k \in 1..Len(G) : M[k] = I(k)
  <2>1. \A k \in 1..Len(G) : I(k) \in SUBSET Block
    BY <1>2
  <2> HIDE DEF I
  <2> QED BY <1>1, <2>1
<1>4. Mapped(G, h) = M
  BY <1>1 DEF Mapped
<1> QED BY <1>3, <1>4 DEF Groups

\* Groups are equal when they are one by one.
LEMMA GroupsEqual ==
    ASSUME NEW G \in Groups, NEW H \in Groups, Len(G) = Len(H),
           \A k \in 1..Len(G) : G[k] = H[k]
    PROVE  G = H
BY DEF Groups

\* A changed block joins the changed groups as the block joined the groups.
LEMMA JoinedMapped ==
    ASSUME NEW G \in Groups, NEW b \in Block, NEW h, KindKept(h)
    PROVE  Joined(Mapped(G, h), h[b]) = Mapped(Joined(G, b), h)
<1> DEFINE M == Mapped(G, h)
           n == Len(G)
<1>0. n \in Nat /\ h[b] \in Block /\ h[b].kind = b.kind /\ \A k \in 1..n : G[k] \in SUBSET Block
  BY DEF Groups, KindKept
<1>1. M \in Groups /\ Len(M) = n /\ \A k \in 1..n : M[k] = {h[x] : x \in G[k]}
  BY MappedIs
<1>a. Block \in SUBSET Block
  OBVIOUS
<1>2. Joined(G, b) \in Groups /\ Joined(M, h[b]) \in Groups
  <2> HIDE DEF M
  <2> QED BY <1>0, <1>1, <1>a, JoinedType DEF Groups
<1>3. /\ Mapped(Joined(G, b), h) \in Groups /\ Len(Mapped(Joined(G, b), h)) = Len(Joined(G, b))
      /\ \A k \in 1..Len(Joined(G, b)) : Mapped(Joined(G, b), h)[k] = {h[x] : x \in Joined(G, b)[k]}
  BY <1>2, MappedIs
<1>4. OnTop(M, h[b]) <=> OnTop(G, b)
  <2>1. G # <<>> <=> M # <<>>
    BY <1>0, <1>1 DEF Groups
  <2>2. IsPrompt(h[b]) <=> IsPrompt(b)
    BY <1>0 DEF IsPrompt
  <2>3. ASSUME G # <<>> 
        PROVE (\A x \in M[n] : x.kind = h[b].kind) <=> \A x \in G[n] : x.kind = b.kind
    <3>1. n \in 1..n
      BY <2>3, <1>0 DEF Groups
    <3>2. M[n] = {h[x] : x \in G[n]} /\ G[n] \in SUBSET Block
      BY <3>1, <1>0, <1>1
    <3>3. \A x \in G[n] : h[x].kind = x.kind
      BY <3>2 DEF KindKept
    <3> QED BY <3>2, <3>3, <1>0
  <2> QED BY <2>1, <2>2, <2>3, <1>1 DEF OnTop
<1> HIDE DEF M, n
<1>5. CASE OnTop(G, b)
  <2>1. Len(Joined(G, b)) = n /\ n \in 1..n
        /\ \A k \in 1..n : Joined(G, b)[k] = IF k = n THEN G[k] \cup {b} ELSE G[k]
    BY <1>5, <1>a, JoinedOnTop DEF Groups, n
  <2>2. Len(Joined(M, h[b])) = n
        /\ \A k \in 1..n : Joined(M, h[b])[k] = IF k = n THEN M[k] \cup {h[b]} ELSE M[k]
    <3> DEFINE c == h[b]
    <3>1. M \in Seq(SUBSET Block) /\ c \in Block /\ OnTop(M, c) /\ Len(M) = n
      BY <1>0, <1>1, <1>4, <1>5 DEF Groups
    <3> HIDE DEF c
    <3>2. /\ Len(Joined(M, c)) = Len(M)
          /\ \A k \in 1..Len(M) : Joined(M, c)[k] = IF k = Len(M) THEN M[k] \cup {c} ELSE M[k]
      BY <3>1, <1>a, JoinedOnTop
    <3> QED BY <3>1, <3>2 DEF c
  <2>3. \A k \in 1..n : Joined(M, h[b])[k] = Mapped(Joined(G, b), h)[k]
    <3> TAKE k \in 1..n
    <3>1. M[k] = {h[x] : x \in G[k]}
      BY <1>1
    <3>2. Mapped(Joined(G, b), h)[k] = {h[x] : x \in Joined(G, b)[k]}
      BY <1>3, <2>1
    <3>3. CASE k = n
      <4>1. Joined(G, b)[k] = G[k] \cup {b} /\ Joined(M, h[b])[k] = M[k] \cup {h[b]}
        BY <2>1, <2>2, <3>3
      <4> QED BY <3>1, <3>2, <4>1
    <3>4. CASE k # n
      <4>1. Joined(G, b)[k] = G[k] /\ Joined(M, h[b])[k] = M[k]
        BY <2>1, <2>2, <3>4
      <4> QED BY <3>1, <3>2, <4>1
    <3> QED BY <3>3, <3>4
  <2> QED BY <1>2, <1>3, <2>1, <2>2, <2>3, GroupsEqual DEF M
<1>6. CASE ~OnTop(G, b)
  <2>1. Len(Joined(G, b)) = n + 1
        /\ \A k \in 1..n + 1 : Joined(G, b)[k] = IF k = n + 1 THEN {b} ELSE G[k]
    BY <1>6, <1>a, JoinedNew DEF Groups, n
  <2>2. Len(Joined(M, h[b])) = n + 1
        /\ \A k \in 1..n + 1 : Joined(M, h[b])[k] = IF k = n + 1 THEN {h[b]} ELSE M[k]
    <3> DEFINE c == h[b]
    <3>1. M \in Seq(SUBSET Block) /\ c \in Block /\ ~OnTop(M, c) /\ Len(M) = n
      BY <1>0, <1>1, <1>4, <1>6 DEF Groups
    <3> HIDE DEF c
    <3>2. /\ Len(Joined(M, c)) = Len(M) + 1
          /\ \A k \in 1..Len(M) + 1 : Joined(M, c)[k] = IF k = Len(M) + 1 THEN {c} ELSE M[k]
      BY <3>1, <1>a, JoinedNew
    <3> QED BY <3>1, <3>2 DEF c
  <2>3. \A k \in 1..n + 1 : Joined(M, h[b])[k] = Mapped(Joined(G, b), h)[k]
    <3> TAKE k \in 1..n + 1
    <3>2. Mapped(Joined(G, b), h)[k] = {h[x] : x \in Joined(G, b)[k]}
      BY <1>3, <2>1
    <3>3. CASE k = n + 1
      <4>1. Joined(G, b)[k] = {b} /\ Joined(M, h[b])[k] = {h[b]}
        BY <2>1, <2>2, <3>3
      <4> QED BY <3>2, <4>1
    <3>4. CASE k # n + 1
      <4>0. k \in 1..n
        BY <3>4, <1>0
      <4>1. Joined(G, b)[k] = G[k] /\ Joined(M, h[b])[k] = M[k]
        BY <2>1, <2>2, <3>4
      <4>2. M[k] = {h[x] : x \in G[k]}
        BY <1>1, <4>0
      <4> QED BY <3>2, <4>1, <4>2
    <3> QED BY <3>3, <3>4
  <2> QED BY <1>2, <1>3, <2>1, <2>2, <2>3, GroupsEqual DEF M
<1> QED BY <1>5, <1>6

\* Changed blocks have the changed groups.
LEMMA GroupedMapped ==
    ASSUME NEW h, KindKept(h), NEW bs \in Seq(Block)
    PROVE  Grouped(MappedSeq(bs, h)) = Mapped(Grouped(bs), h)
<1> DEFINE Bad == {n \in Nat : \E q \in Seq(Block) :
                       Len(q) = n /\ Grouped(MappedSeq(q, h)) # Mapped(Grouped(q), h)}
<1>1. Bad = {}
  <2> SUFFICES ASSUME Bad # {} PROVE FALSE
    OBVIOUS
  <2>1. Bad \in SUBSET Nat
    OBVIOUS
  <2>2. PICK n \in Bad : \A y \in Bad : n <= y
    <3> HIDE DEF Bad
    <3> QED BY <2>1, LeastIsIn
  <2>3. PICK q \in Seq(Block) : Len(q) = n /\ Grouped(MappedSeq(q, h)) # Mapped(Grouped(q), h)
    BY <2>2
  <2>4. CASE n = 0
    <3>1. q = <<>>
      BY <2>3, <2>4
    <3>2. MappedSeq(<<>>, h) = <<>>
      BY DEF MappedSeq
    <3>3. Mapped(<<>>, h) = <<>>
      BY DEF Mapped
    <3> QED BY <3>1, <3>2, <3>3, <2>3, GroupedNone
  <2>5. CASE n # 0
    <3> DEFINE p == SubSeq(q, 1, Len(q) - 1)
               b == q[Len(q)]
    <3>1. /\ p \in Seq(Block) /\ b \in Block
          /\ q = Append(p, b) /\ Len(p) = n - 1 /\ n \in Nat \ {0}
      BY <2>3, <2>5, FrontLast
    <3> HIDE DEF p, b
    <3>2. n - 1 \in Nat /\ n - 1 \notin Bad
      <4> HIDE DEF Bad
      <4> QED BY <3>1, <2>2, <2>1
    <3>3. Grouped(MappedSeq(p, h)) = Mapped(Grouped(p), h)
      BY <3>1, <3>2
    <3>4. h[b] \in Block
      BY <3>1 DEF KindKept
    <3>5. MappedSeq(q, h) = Append(MappedSeq(p, h), h[b]) /\ MappedSeq(p, h) \in Seq(Block)
      <4> DEFINE u == MappedSeq(p, h)
                 v == MappedSeq(q, h)
                 m == Len(p)
      <4>1. m \in Nat /\ DOMAIN p = 1..m /\ DOMAIN q = 1..m + 1 /\ q[m + 1] = b
            /\ \A i \in 1..m : q[i] = p[i] /\ p[i] \in Block
        BY <3>1
      <4>2. u = [i \in 1..m |-> h[p[i]]] /\ v = [i \in 1..m + 1 |-> h[q[i]]]
        BY <4>1 DEF MappedSeq
      <4> HIDE DEF u, v, m
      <4>3. \A i \in 1..m : h[p[i]] \in Block
        BY <4>1 DEF KindKept
      <4>4. u \in Seq(Block) /\ Len(u) = m /\ \A i \in 1..m : u[i] = h[p[i]]
        BY <4>1, <4>2, <4>3
      <4>5. v \in Seq(Block) /\ Len(v) = m + 1
            /\ \A i \in 1..m + 1 : v[i] = IF i = m + 1 THEN h[b] ELSE u[i]
        <5>1. \A i \in 1..m + 1 : h[q[i]] = IF i = m + 1 THEN h[b] ELSE u[i]
          <6> TAKE i \in 1..m + 1
          <6>1. CASE i = m + 1
            BY <6>1, <4>1
          <6>2. CASE i # m + 1
            <7>1. i \in 1..m
              BY <6>2, <4>1
            <7> QED BY <6>2, <7>1, <4>1, <4>4
          <6> QED BY <6>1, <6>2
        <5>2. \A i \in 1..m + 1 : h[q[i]] \in Block
          BY <4>1, <3>1 DEF KindKept
        <5>3. v \in Seq(Block) /\ Len(v) = m + 1
          BY <4>1, <4>2, <5>2
        <5>4. \A i \in 1..m + 1 : v[i] = h[q[i]]
          BY <4>2
        <5> QED BY <5>1, <5>3, <5>4
      <4>6. v = Append(u, h[b])
        <5>1. /\ Append(u, h[b]) \in Seq(Block) /\ Len(Append(u, h[b])) = m + 1
              /\ \A i \in 1..m + 1 : Append(u, h[b])[i] = IF i = m + 1 THEN h[b] ELSE u[i]
          BY <4>4, <3>4, AppendIs
        <5> HIDE DEF Block
        <5> QED BY <4>1, <4>5, <5>1
      <4> QED BY <4>4, <4>6 DEF u, v
    <3>6. Grouped(q) = Joined(Grouped(p), b)
      BY <3>1, GroupedOn
    <3>7. Grouped(MappedSeq(q, h)) = Joined(Grouped(MappedSeq(p, h)), h[b])
      BY <3>4, <3>5, GroupedOn
    <3>8. Grouped(p) \in Groups
      BY <3>1, GroupedType DEF Groups
    <3> QED BY <3>1, <3>3, <3>6, <3>7, <3>8, <2>3, JoinedMapped
  <2> QED BY <2>4, <2>5
<1>2. Len(bs) \in Nat
  OBVIOUS
<1> QED BY <1>1, <1>2

\* Groups of blocks that do not change are the same.
LEMMA MappedSame ==
    ASSUME NEW S \in SUBSET Block, NEW G \in Seq(SUBSET S), NEW h, KindKept(h),
           \A x \in S : h[x] = x
    PROVE  Mapped(G, h) = G
<1>1. G \in Groups
  BY DEF Groups
<1>2. /\ Mapped(G, h) \in Groups /\ Len(Mapped(G, h)) = Len(G)
      /\ \A k \in 1..Len(G) : Mapped(G, h)[k] = {h[x] : x \in G[k]}
  BY <1>1, MappedIs
<1>3. \A k \in 1..Len(G) : Mapped(G, h)[k] = G[k]
  <2> TAKE k \in 1..Len(G)
  <2>1. G[k] \in SUBSET S
    OBVIOUS
  <2>2. {h[x] : x \in G[k]} = G[k]
    BY <2>1
  <2> QED BY <1>2, <2>2
<1> QED BY <1>1, <1>2, <1>3, GroupsEqual

-----------------------------------------------------------------------------
(* Calls behind a conversation                                              *)

ToolBlock == {b \in Block : b.kind = "tool"}

\* Whether the last group is one of calls.
EndsInTools(G) == G # <<>> /\ \A x \in G[Len(G)] : x.kind = "tool"

\* The groups G with the calls R behind them.
Beside(G, R) ==
    IF R = {} THEN G
    ELSE IF EndsInTools(G) THEN [G EXCEPT ![Len(G)] = @ \cup R]
    ELSE Append(G, R)

LEMMA BesideNew ==
    ASSUME NEW G \in Groups, NEW R \in SUBSET ToolBlock, R # {}, ~EndsInTools(G)
    PROVE  /\ Beside(G, R) \in Groups /\ Len(Beside(G, R)) = Len(G) + 1 /\ Len(G) \in Nat
           /\ \A k \in 1..Len(G) + 1 : Beside(G, R)[k] = IF k = Len(G) + 1 THEN R ELSE G[k]
           /\ EndsInTools(Beside(G, R))
<1>1. R \in SUBSET Block /\ \A x \in R : x.kind = "tool"
  BY DEF ToolBlock
<1>2. Beside(G, R) = Append(G, R)
  BY DEF Beside
<1>3. /\ Append(G, R) \in Groups /\ Len(Append(G, R)) = Len(G) + 1 /\ Len(G) \in Nat
      /\ \A k \in 1..Len(G) + 1 : Append(G, R)[k] = IF k = Len(G) + 1 THEN R ELSE G[k]
  BY <1>1, AppendIs DEF Groups
<1>4. Append(G, R) # <<>> /\ Append(G, R)[Len(G) + 1] = R
  <2>1. Len(G) + 1 \in 1..Len(G) + 1 /\ Len(Append(G, R)) # 0
    BY <1>3
  <2> QED BY <1>3, <2>1
<1>5. EndsInTools(Append(G, R))
  BY <1>1, <1>3, <1>4 DEF EndsInTools
<1> QED BY <1>2, <1>3, <1>5

LEMMA BesideOnTop ==
    ASSUME NEW G \in Groups, NEW R \in SUBSET ToolBlock, R # {}, EndsInTools(G)
    PROVE  /\ Beside(G, R) \in Groups /\ Len(Beside(G, R)) = Len(G) /\ Len(G) \in 1..Len(G)
           /\ \A k \in 1..Len(G) : Beside(G, R)[k] = IF k = Len(G) THEN G[k] \cup R ELSE G[k]
           /\ EndsInTools(Beside(G, R))
<1> DEFINE n == Len(G)
           g == G[n] \cup R
<1>1. R \in SUBSET Block /\ \A x \in R : x.kind = "tool"
  BY DEF ToolBlock
<1>2. n \in Nat /\ n # 0 /\ G \in Seq(SUBSET Block) /\ \A x \in G[n] : x.kind = "tool"
  BY DEF Groups, EndsInTools
<1>3. n \in 1..n /\ g \in SUBSET Block
  BY <1>1, <1>2
<1>4. Beside(G, R) = [G EXCEPT ![n] = g]
  BY DEF Beside
<1>5. /\ [G EXCEPT ![n] = g] \in Seq(SUBSET Block) /\ Len([G EXCEPT ![n] = g]) = n
      /\ \A k \in 1..n : [G EXCEPT ![n] = g][k] = IF k = n THEN g ELSE G[k]
  <2> HIDE DEF g
  <2> QED BY <1>2, <1>3, ReplaceIs
<1>6. \A x \in g : x.kind = "tool"
  BY <1>1, <1>2
<1> HIDE DEF g
<1> DEFINE H == [G EXCEPT ![n] = g]
<1>7. H # <<>> /\ Len(H) = n /\ H[n] = g
  BY <1>3, <1>5
<1> HIDE DEF H
<1>8. EndsInTools(H)
  BY <1>6, <1>7 DEF EndsInTools
<1> QED BY <1>3, <1>4, <1>5, <1>8 DEF H, Groups, g

LEMMA BesideType ==
    ASSUME NEW G \in Groups, NEW R \in SUBSET ToolBlock
    PROVE  Beside(G, R) \in Groups
<1>1. CASE R = {}
  BY <1>1 DEF Beside
<1>2. CASE R # {}
  BY <1>2, BesideNew, BesideOnTop
<1> QED BY <1>1, <1>2

\* One call.
LEMMA BesideOne ==
    ASSUME NEW G \in Groups, NEW b \in ToolBlock
    PROVE  Joined(G, b) = Beside(G, {b})
<1>1. b.kind = "tool"
  BY DEF ToolBlock
<1> QED BY <1>1 DEF Joined, Beside, EndsInTools, Last, IsPrompt

\* Calls behind calls.
LEMMA BesideTwice ==
    ASSUME NEW G \in Groups, NEW R \in SUBSET ToolBlock, NEW Q \in SUBSET ToolBlock
    PROVE  Beside(Beside(G, R), Q) = Beside(G, R \cup Q)
<1>1. CASE R = {}
  <2>1. R \cup Q = Q /\ Beside(G, R) = G
    BY <1>1 DEF Beside
  <2> QED BY <2>1
<1>2. CASE Q = {}
  <2>1. R \cup Q = R /\ Beside(Beside(G, R), Q) = Beside(G, R)
    BY <1>2 DEF Beside
  <2> QED BY <2>1
<1>3. CASE R # {} /\ Q # {}
  <2> DEFINE H == Beside(G, R)
             U == R \cup Q
  <2>1. U \in SUBSET ToolBlock /\ U # {}
    BY <1>3
  <2>2. H \in Groups /\ EndsInTools(H)
    BY <1>3, BesideNew, BesideOnTop
  <2> HIDE DEF H, U
  <2>3. /\ Beside(H, Q) \in Groups /\ Len(Beside(H, Q)) = Len(H)
        /\ \A k \in 1..Len(H) : Beside(H, Q)[k] = IF k = Len(H) THEN H[k] \cup Q ELSE H[k]
    BY <1>3, <2>2, BesideOnTop
  <2>4. CASE EndsInTools(G)
    <3>1. /\ Len(H) = Len(G) /\ Len(G) \in 1..Len(G)
          /\ \A k \in 1..Len(G) : H[k] = IF k = Len(G) THEN G[k] \cup R ELSE G[k]
      BY <1>3, <2>4, BesideOnTop DEF H
    <3>2. /\ Beside(G, U) \in Groups /\ Len(Beside(G, U)) = Len(G)
          /\ \A k \in 1..Len(G) : Beside(G, U)[k] = IF k = Len(G) THEN G[k] \cup U ELSE G[k]
      BY <2>1, <2>4, BesideOnTop
    <3>3. \A k \in 1..Len(G) : Beside(H, Q)[k] = Beside(G, U)[k]
      <4> TAKE k \in 1..Len(G)
      <4>1. Beside(H, Q)[k] = IF k = Len(G) THEN (G[k] \cup R) \cup Q ELSE G[k]
        BY <3>1, <2>3
      <4>2. Beside(G, U)[k] = IF k = Len(G) THEN G[k] \cup (R \cup Q) ELSE G[k]
        BY <3>2 DEF U
      <4> QED BY <4>1, <4>2
    <3> QED BY <2>3, <3>1, <3>2, <3>3, GroupsEqual DEF H, U
  <2>5. CASE ~EndsInTools(G)
    <3>1. /\ Len(H) = Len(G) + 1 /\ Len(G) \in Nat
          /\ \A k \in 1..Len(G) + 1 : H[k] = IF k = Len(G) + 1 THEN R ELSE G[k]
      BY <1>3, <2>5, BesideNew DEF H
    <3>2. /\ Beside(G, U) \in Groups /\ Len(Beside(G, U)) = Len(G) + 1
          /\ \A k \in 1..Len(G) + 1 : Beside(G, U)[k] = IF k = Len(G) + 1 THEN U ELSE G[k]
      BY <2>1, <2>5, BesideNew
    <3>3. \A k \in 1..Len(G) + 1 : Beside(H, Q)[k] = Beside(G, U)[k]
      <4> TAKE k \in 1..Len(G) + 1
      <4>1. Beside(H, Q)[k] = IF k = Len(G) + 1 THEN R \cup Q ELSE G[k]
        BY <3>1, <2>3
      <4> QED BY <4>1, <3>2 DEF U
    <3> QED BY <2>3, <3>1, <3>2, <3>3, GroupsEqual DEF H, U
  <2> QED BY <2>4, <2>5
<1> QED BY <1>1, <1>2, <1>3

\* Calls that change behind groups that do.
LEMMA BesideMapped ==
    ASSUME NEW G \in Groups, NEW R \in SUBSET ToolBlock, NEW h, KindKept(h)
    PROVE  /\ {h[x] : x \in R} \in SUBSET ToolBlock
           /\ Mapped(Beside(G, R), h) = Beside(Mapped(G, h), {h[x] : x \in R})
<1> DEFINE Q == {h[x] : x \in R}
           M == Mapped(G, h)
           B == Beside(G, R)
<1>1. Q \in SUBSET ToolBlock
  BY DEF ToolBlock, KindKept
<1>2. /\ M \in Groups /\ Len(M) = Len(G)
      /\ \A k \in 1..Len(G) : M[k] = {h[x] : x \in G[k]}
  BY MappedIs
<1>3. B \in Groups
  BY BesideType
<1>4. /\ Mapped(B, h) \in Groups /\ Len(Mapped(B, h)) = Len(B)
      /\ \A k \in 1..Len(B) : Mapped(B, h)[k] = {h[x] : x \in B[k]}
  <2> HIDE DEF B
  <2> QED BY <1>3, MappedIs
<1>5. CASE R = {}
  <2>1. Q = {} /\ B = G /\ Beside(M, Q) = M
    BY <1>5 DEF Beside
  <2> QED BY <1>1, <2>1
<1>6. EndsInTools(M) <=> EndsInTools(G)
  <2>1. G # <<>> <=> M # <<>>
    BY <1>2 DEF Groups
  <2>2. ASSUME G # <<>>
        PROVE  (\A x \in M[Len(G)] : x.kind = "tool") <=> (\A x \in G[Len(G)] : x.kind = "tool")
    <3>1. Len(G) \in 1..Len(G)
      BY <2>2 DEF Groups
    <3>2. M[Len(G)] = {h[x] : x \in G[Len(G)]} /\ G[Len(G)] \in SUBSET Block
      BY <3>1, <1>2 DEF Groups
    <3>3. \A x \in G[Len(G)] : h[x].kind = x.kind
      BY <3>2 DEF KindKept
    <3> QED BY <3>2, <3>3
  <2> QED BY <2>1, <2>2, <1>2 DEF EndsInTools
<1>7. CASE R # {} /\ EndsInTools(G)
  <2>1. Q # {}
    BY <1>7
  <2>2. /\ Len(B) = Len(G)
        /\ \A k \in 1..Len(G) : B[k] = IF k = Len(G) THEN G[k] \cup R ELSE G[k]
    BY <1>7, BesideOnTop
  <2> HIDE DEF Q, M, B
  <2>3. /\ Beside(M, Q) \in Groups /\ Len(Beside(M, Q)) = Len(M)
        /\ \A k \in 1..Len(M) : Beside(M, Q)[k] = IF k = Len(M) THEN M[k] \cup Q ELSE M[k]
    BY <1>1, <1>2, <1>6, <1>7, <2>1, BesideOnTop
  <2>4. \A k \in 1..Len(G) : Mapped(B, h)[k] = Beside(M, Q)[k]
    <3> TAKE k \in 1..Len(G)
    <3>1. Mapped(B, h)[k] = {h[x] : x \in B[k]} /\ M[k] = {h[x] : x \in G[k]}
      BY <1>2, <1>4, <2>2
    <3>2. CASE k = Len(G)
      <4>1. B[k] = G[k] \cup R /\ Beside(M, Q)[k] = M[k] \cup Q
        BY <3>2, <2>2, <2>3, <1>2
      <4> QED BY <3>1, <4>1 DEF Q
    <3>3. CASE k # Len(G)
      <4>1. B[k] = G[k] /\ Beside(M, Q)[k] = M[k]
        BY <3>3, <2>2, <2>3, <1>2
      <4> QED BY <3>1, <4>1
    <3> QED BY <3>2, <3>3
  <2>5. Mapped(B, h) = Beside(M, Q)
    BY <1>2, <1>4, <2>2, <2>3, <2>4, GroupsEqual
  <2> QED BY <1>1, <2>5 DEF Q, M, B
<1>8. CASE R # {} /\ ~EndsInTools(G)
  <2>1. Q # {}
    BY <1>8
  <2>2. /\ Len(B) = Len(G) + 1 /\ Len(G) \in Nat
        /\ \A k \in 1..Len(G) + 1 : B[k] = IF k = Len(G) + 1 THEN R ELSE G[k]
    BY <1>8, BesideNew
  <2> HIDE DEF Q, M, B
  <2>3. /\ Beside(M, Q) \in Groups /\ Len(Beside(M, Q)) = Len(M) + 1
        /\ \A k \in 1..Len(M) + 1 : Beside(M, Q)[k] = IF k = Len(M) + 1 THEN Q ELSE M[k]
    BY <1>1, <1>2, <1>6, <1>8, <2>1, BesideNew
  <2>4. \A k \in 1..Len(G) + 1 : Mapped(B, h)[k] = Beside(M, Q)[k]
    <3> TAKE k \in 1..Len(G) + 1
    <3>1. Mapped(B, h)[k] = {h[x] : x \in B[k]}
      BY <1>4, <2>2
    <3>2. CASE k = Len(G) + 1
      <4>1. B[k] = R /\ Beside(M, Q)[k] = Q
        BY <3>2, <2>2, <2>3, <1>2
      <4> QED BY <3>1, <4>1 DEF Q
    <3>3. CASE k # Len(G) + 1
      <4>1. k \in 1..Len(G)
        BY <3>3, <2>2
      <4>2. B[k] = G[k] /\ Beside(M, Q)[k] = M[k] /\ M[k] = {h[x] : x \in G[k]}
        BY <3>3, <4>1, <2>2, <2>3, <1>2
      <4> QED BY <3>1, <4>2
    <3> QED BY <3>2, <3>3
  <2>5. Mapped(B, h) = Beside(M, Q)
    BY <1>2, <1>4, <2>2, <2>3, <2>4, GroupsEqual
  <2> QED BY <1>1, <2>5 DEF Q, M, B
<1> QED BY <1>5, <1>7, <1>8

\* A conversation and a sequence of calls behind it.
LEMMA GroupedBeside ==
    ASSUME NEW p \in Seq(Block), NEW q \in Seq(ToolBlock)
    PROVE  Grouped(p \o q) = Beside(Grouped(p), Range(q))
<1>0. ToolBlock \in SUBSET Block /\ Grouped(p) \in Groups
  <2>1. Block \in SUBSET Block
    OBVIOUS
  <2> QED BY <2>1, GroupedType DEF ToolBlock, Groups
<1> DEFINE Bad == {n \in Nat : \E r \in Seq(ToolBlock) :
                       Len(r) = n /\ Grouped(p \o r) # Beside(Grouped(p), Range(r))}
<1>1. Bad = {}
  <2> SUFFICES ASSUME Bad # {} PROVE FALSE
    OBVIOUS
  <2>1. Bad \in SUBSET Nat
    OBVIOUS
  <2>2. PICK n \in Bad : \A y \in Bad : n <= y
    <3> HIDE DEF Bad
    <3> QED BY <2>1, LeastIsIn
  <2>3. PICK r \in Seq(ToolBlock) : Len(r) = n /\ Grouped(p \o r) # Beside(Grouped(p), Range(r))
    BY <2>2
  <2>4. CASE n = 0
    <3>1. r = <<>>
      BY <2>3, <2>4
    <3>2. p \o <<>> = p /\ Range(<<>>) = {}
      BY DEF Range
    <3> QED BY <3>1, <3>2, <2>3 DEF Beside
  <2>5. CASE n # 0
    <3> DEFINE s == SubSeq(r, 1, Len(r) - 1)
               b == r[Len(r)]
    <3>1. /\ s \in Seq(ToolBlock) /\ b \in ToolBlock
          /\ r = Append(s, b) /\ Len(s) = n - 1 /\ n \in Nat \ {0}
      BY <2>3, <2>5, FrontLast
    <3> HIDE DEF s, b
    <3>2. n - 1 \in Nat /\ n - 1 \notin Bad
      <4> HIDE DEF Bad
      <4> QED BY <3>1, <2>2, <2>1
    <3>3. Grouped(p \o s) = Beside(Grouped(p), Range(s))
      BY <3>1, <3>2
    <3>4. s \in Seq(Block) /\ b \in Block
      BY <3>1, <1>0
    <3>5. p \o s \in Seq(Block) /\ p \o r = Append(p \o s, b)
      BY <3>1, <3>4
    <3>6. Grouped(p \o r) = Joined(Grouped(p \o s), b)
      BY <3>4, <3>5, GroupedOn
    <3>7. Range(s) \in SUBSET ToolBlock /\ {b} \in SUBSET ToolBlock
      BY <3>1 DEF Range
    <3>8. Range(r) = Range(s) \cup {b}
      <4>1. /\ Len(s) \in Nat /\ DOMAIN s = 1..Len(s) /\ DOMAIN r = 1..Len(s) + 1
            /\ r[Len(s) + 1] = b /\ \A i \in 1..Len(s) : r[i] = s[i]
        BY <3>1
      <4>2. \A i \in 1..Len(s) + 1 : i = Len(s) + 1 \/ i \in 1..Len(s)
        BY <4>1
      <4>3. Len(s) + 1 \in 1..Len(s) + 1 /\ \A i \in 1..Len(s) : i \in 1..Len(s) + 1
        BY <4>1
      <4> QED BY <4>1, <4>2, <4>3 DEF Range
    <3>9. Joined(Beside(Grouped(p), Range(s)), b) = Beside(Beside(Grouped(p), Range(s)), {b})
      BY <1>0, <3>1, <3>7, BesideType, BesideOne
    <3>10. Beside(Beside(Grouped(p), Range(s)), {b}) = Beside(Grouped(p), Range(s) \cup {b})
      BY <1>0, <3>7, BesideTwice
    <3> QED BY <3>3, <3>6, <3>8, <3>9, <3>10, <2>3
  <2> QED BY <2>4, <2>5
<1>2. Len(q) \in Nat
  OBVIOUS
<1> QED BY <1>1, <1>2

-----------------------------------------------------------------------------
(* What the handlers make of blocks                                         *)

\* Blocks no call of which runs, the calls of a conversation that do, and
\* calls in a state.
Still == {b \in Block : b.state # "running"}
Active(bs) == {b \in Range(bs) : b.state = "running"}
Tools(cs, st) == {Tool(c, st) : c \in cs}

LEMMA StillBlocks ==
    /\ Still \in SUBSET Block
    /\ \A bs \in Seq(Still) : bs \in Seq(Block) /\ Active(bs) = {} /\ \A i \in DOMAIN bs : bs[i] \in Still
    /\ Text \in Still /\ Summary \in Still
    /\ \A n \in Nat : Prompt(n) \in Still
    /\ \A n \in Nat : \A st \in {"ok", "killed"} : Tool(n, st) \in Still \cap ToolBlock
    /\ \A n \in Nat : Tool(n, "running") \in ToolBlock
    /\ Block \in SUBSET Block
<1>1. ASSUME NEW bs \in Seq(Still)
      PROVE  bs \in Seq(Block) /\ Active(bs) = {} /\ \A i \in DOMAIN bs : bs[i] \in Still
  <2>1. \A i \in DOMAIN bs : bs[i] \in Still
    OBVIOUS
  <2>2. Active(bs) = {}
    BY <2>1 DEF Active, Range, Still
  <2>3. bs \in Seq(Block)
    BY DEF Still
  <2> QED BY <2>1, <2>2, <2>3
<1> QED BY <1>1 DEF Still, Text, Summary, Prompt, Tool, ToolBlock, Block

\* Text behind text is the same text.
LEMMA TextTwice ==
    ASSUME NEW G \in Groups
    PROVE  Joined(Joined(G, Text), Text) = Joined(G, Text)
<1> DEFINE H == Joined(G, Text)
           n == Len(H)
<1>1. Text \in Block /\ ~IsPrompt(Text) /\ Block \in SUBSET Block /\ G \in Seq(SUBSET Block)
  BY StillBlocks DEF IsPrompt, Text, Groups
<1>2. H \in Seq(SUBSET Block)
  BY <1>1, JoinedType
<1>3. n \in 1..n /\ Text \in H[n] /\ \A x \in H[n] : x.kind = "text"
  <2>1. CASE OnTop(G, Text)
    <3>a. /\ Len(H) = Len(G) /\ Len(G) \in 1..Len(G)
          /\ \A k \in 1..Len(G) : H[k] = IF k = Len(G) THEN G[k] \cup {Text} ELSE G[k]
      BY <2>1, <1>1, JoinedOnTop
    <3>1. n = Len(G) /\ n \in 1..n /\ H[n] = G[n] \cup {Text}
      <4> HIDE DEF H
      <4> QED BY <3>a
    <3>2. \A x \in G[n] : x.kind = "text"
      BY <2>1, <3>1 DEF OnTop, Text
    <3> QED BY <3>1, <3>2 DEF Text
  <2>2. CASE ~OnTop(G, Text)
    <3>a. /\ Len(H) = Len(G) + 1 /\ Len(G) \in Nat
          /\ \A k \in 1..Len(G) + 1 : H[k] = IF k = Len(G) + 1 THEN {Text} ELSE G[k]
      BY <2>2, <1>1, JoinedNew
    <3>1. n = Len(G) + 1 /\ Len(G) \in Nat /\ H[n] = {Text}
      <4> HIDE DEF H
      <4> QED BY <3>a
    <3> QED BY <3>1 DEF Text
  <2> QED BY <2>1, <2>2
<1> HIDE DEF H
<1>4. OnTop(H, Text)
  <2>1. H # <<>> /\ Text.kind = "text"
    BY <1>3 DEF Text
  <2> QED BY <1>1, <1>3, <2>1 DEF OnTop
<1>5. /\ Joined(H, Text) \in Seq(SUBSET Block) /\ Len(Joined(H, Text)) = n
      /\ \A k \in 1..n : Joined(H, Text)[k] = IF k = n THEN H[k] \cup {Text} ELSE H[k]
  BY <1>1, <1>2, <1>4, JoinedOnTop
<1>6. \A k \in 1..n : Joined(H, Text)[k] = H[k]
  <2> TAKE k \in 1..n
  <2>1. CASE k = n
    <3>1. H[k] \cup {Text} = H[k]
      BY <2>1, <1>3
    <3> QED BY <3>1, <2>1, <1>5
  <2>2. CASE k # n
    BY <2>2, <1>5
  <2> QED BY <2>1, <2>2
<1>7. Joined(H, Text) = H
  BY <1>2, <1>5, <1>6, GroupsEqual DEF Groups
<1> QED BY <1>7 DEF H

\* Text goes on, or begins: the groups are the same.
LEMMA GroupedText ==
    ASSUME NEW S \in SUBSET Block, Text \in S, NEW a \in Seq(Block), NEW b \in Seq(S)
    PROVE  /\ WithText(b) \in Seq(S)
           /\ Grouped(a \o WithText(b)) = Joined(Grouped(a \o b), Text)
<1>1. b \in Seq(Block) /\ a \o b \in Seq(Block) /\ Text \in Block
  <2>1. b \in Seq(Block)
    OBVIOUS
  <2> QED BY <2>1
<1>2. CASE b # <<>> /\ Last(b) = Text
  <2> DEFINE p == SubSeq(b, 1, Len(b) - 1)
  <2>1. p \in Seq(Block) /\ b = Append(p, Text)
    BY <1>1, <1>2, FrontLast DEF Last
  <2> HIDE DEF p
  <2>2. a \o b = Append(a \o p, Text) /\ a \o p \in Seq(Block)
    BY <1>1, <2>1
  <2>3. Grouped(a \o b) = Joined(Grouped(a \o p), Text)
    BY <1>1, <2>2, GroupedOn
  <2>4. Grouped(a \o p) \in Groups
    BY <2>2, StillBlocks, GroupedType DEF Groups
  <2>5. Joined(Grouped(a \o b), Text) = Grouped(a \o b)
    BY <2>3, <2>4, TextTwice
  <2>6. WithText(b) = b
    BY <1>2 DEF WithText
  <2> QED BY <2>5, <2>6
<1>3. CASE ~(b # <<>> /\ Last(b) = Text)
  <2>1. WithText(b) = Append(b, Text)
    BY <1>3 DEF WithText
  <2>2. a \o Append(b, Text) = Append(a \o b, Text) /\ Append(b, Text) \in Seq(S)
    BY <1>1
  <2>3. Grouped(Append(a \o b, Text)) = Joined(Grouped(a \o b), Text)
    BY <1>1, GroupedOn
  <2> QED BY <2>1, <2>2, <2>3
<1> QED BY <1>2, <1>3

\* An enumeration of a set has all its members.
LEMMA SetToSeqIs ==
    ASSUME NEW S, IsFiniteSet(S)
    PROVE  /\ Cardinality(S) \in Nat /\ SetToSeq(S) \in [1..Cardinality(S) -> S]
           /\ \A x \in S : \E i \in 1..Cardinality(S) : SetToSeq(S)[i] = x
<1> DEFINE n == Cardinality(S)
           f == SetToSeq(S)
<1>1. n \in Nat /\ ExistsBijection(1..n, S)
  BY FS_CardinalityType
<1>2. \E g \in [1..n -> S] : IsInjective(g)
  <2> PICK g \in Bijection(1..n, S) : TRUE
    BY <1>1 DEF ExistsBijection
  <2> QED BY DEF Bijection, Injection, IsInjective
<1>3. f \in [1..n -> S] /\ IsInjective(f)
  BY <1>2 DEF SetToSeq
<1> HIDE DEF f, n
<1>4. f \in Injection(1..n, S)
  BY <1>3 DEF Injection, IsInjective
<1>5. IsFiniteSet(1..n) /\ Cardinality(1..n) = n
  <2>1. 1 \in Int /\ n \in Int
    BY <1>1
  <2> QED BY <1>1, <2>1, FS_Interval
<1>6. f \in Surjection(1..n, S)
  BY <1>4, <1>5, FS_Injection DEF n
<1> QED BY <1>1, <1>3, <1>6 DEF Surjection, f, n

LEMMA CallsAre ==
    ASSUME NEW cs \in SUBSET Nat, IsFiniteSet(cs), NEW st \in {"running", "ok", "killed"}
    PROVE  /\ Calls(cs, st) \in Seq(ToolBlock)
           /\ Range(Calls(cs, st)) = Tools(cs, st)
           /\ Tools(cs, st) \in SUBSET ToolBlock
           /\ st # "running" => Calls(cs, st) \in Seq(Still)
<1> DEFINE n == Cardinality(cs)
           f == SetToSeq(cs)
           q == [i \in 1..n |-> Tool(f[i], st)]
<1>1. /\ n \in Nat /\ f \in [1..n -> cs]
      /\ \A x \in cs : \E i \in 1..n : f[i] = x
  BY SetToSeqIs
<1>2. Calls(cs, st) = q
  BY DEF Calls
<1> HIDE DEF n, f
<1>3. \A i \in 1..n : f[i] \in cs /\ f[i] \in Nat
  BY <1>1
<1>4. \A c \in Nat : Tool(c, st) \in ToolBlock /\ (st # "running" => Tool(c, st) \in Still)
  BY StillBlocks
<1>5. \A i \in 1..n : Tool(f[i], st) \in ToolBlock /\ (st # "running" => Tool(f[i], st) \in Still)
  BY <1>3, <1>4
<1>6. q \in Seq(ToolBlock)
  BY <1>1, <1>5
<1>7. st # "running" => q \in Seq(Still)
  BY <1>1, <1>5
<1>8. Range(q) = {Tool(f[i], st) : i \in 1..n}
  BY DEF Range
<1>9. {Tool(f[i], st) : i \in 1..n} = Tools(cs, st)
  BY <1>1, <1>3 DEF Tools
<1>10. Tools(cs, st) \in SUBSET ToolBlock
  BY <1>4 DEF Tools
<1> HIDE DEF q
<1> QED BY <1>2, <1>6, <1>7, <1>8, <1>9, <1>10

\* A conversation with calls in a state behind it.
LEMMA GroupedCalls ==
    ASSUME NEW p \in Seq(Block), NEW cs \in SUBSET Nat, IsFiniteSet(cs),
           NEW st \in {"running", "ok", "killed"}
    PROVE  Grouped(p \o Calls(cs, st)) = Beside(Grouped(p), Tools(cs, st))
BY CallsAre, GroupedBeside

\* No calls.
LEMMA NoCalls ==
    ASSUME NEW p \in Seq(Block), NEW G, NEW st
    PROVE  p \o Calls({}, st) = p /\ Tools({}, st) = {} /\ Beside(G, Tools({}, st)) = G
<1>1. Cardinality({}) = 0
  BY FS_EmptySet
<1>2. Calls({}, st) = <<>>
  BY <1>1 DEF Calls
<1>3. Tools({}, st) = {}
  BY DEF Tools
<1> QED BY <1>2, <1>3 DEF Beside

-----------------------------------------------------------------------------
(* Changes of calls                                                         *)

Killed == [b \in Block |-> IF IsActive(b) THEN [b EXCEPT !.state = "killed"] ELSE b]
Finished(c) == [b \in Block |-> IF b = Tool(c, "running") THEN Tool(c, "ok") ELSE b]

LEMMA ChangesKeep ==
    /\ KindKept(Killed)
    /\ \A b \in Still : Killed[b] = b
    /\ \A b \in Block : Killed[b] \in Still
    /\ \A c \in Nat : Killed[Tool(c, "running")] = Tool(c, "killed")
    /\ \A c \in Nat : KindKept(Finished(c))
    /\ \A c \in Nat : \A b \in Still : Finished(c)[b] = b
    /\ \A c \in Nat : \A b \in Block :
          Finished(c)[b] = IF b = Tool(c, "running") THEN Tool(c, "ok") ELSE b
<1>1. \A c \in Nat : Tool(c, "running") \in Block /\ Tool(c, "ok") \in Block
  BY DEF Tool, Block
<1>a. ASSUME NEW b \in Block, NEW st \in {"ok", "killed"}
      PROVE  [b EXCEPT !.state = st] \in Block /\ [b EXCEPT !.state = st].kind = b.kind
             /\ [b EXCEPT !.state = st].state = st
  BY DEF Block
<1>2. KindKept(Killed)
  <2>1. \A b \in Block : Killed[b] = IF IsActive(b) THEN [b EXCEPT !.state = "killed"] ELSE b
    BY DEF Killed
  <2>2. Killed \in [Block -> Block]
    BY <1>a DEF Killed
  <2>3. \A b \in Block : Killed[b].kind = b.kind
    BY <2>1, <1>a
  <2> QED BY <2>2, <2>3 DEF KindKept
<1>3. \A b \in Still : Killed[b] = b
  BY DEF Killed, IsActive, Still
<1>4. \A b \in Block : Killed[b] \in Still
  BY <1>a DEF Killed, IsActive, Still
<1>5. \A c \in Nat : Killed[Tool(c, "running")] = Tool(c, "killed")
  BY <1>1 DEF Killed, IsActive, Tool
<1>6. \A c \in Nat : KindKept(Finished(c))
  <2> TAKE c \in Nat
  <2>1. Tool(c, "running").kind = "tool" /\ Tool(c, "ok").kind = "tool"
    BY DEF Tool
  <2>2. Finished(c) \in [Block -> Block]
    BY <1>1 DEF Finished
  <2>3. \A b \in Block :
          Finished(c)[b] = IF b = Tool(c, "running") THEN Tool(c, "ok") ELSE b
    BY DEF Finished
  <2> QED BY <2>1, <2>2, <2>3 DEF KindKept
<1>7. \A c \in Nat : \A b \in Still : Finished(c)[b] = b
  BY DEF Finished, Still, Tool
<1>8. \A c \in Nat : \A b \in Block :
          Finished(c)[b] = IF b = Tool(c, "running") THEN Tool(c, "ok") ELSE b
  BY DEF Finished
<1> QED BY <1>2, <1>3, <1>4, <1>5, <1>6, <1>7, <1>8

LEMMA ChangesAre ==
    ASSUME NEW bs \in Seq(Block)
    PROVE  /\ KillRunning(bs) = MappedSeq(bs, Killed)
           /\ \A c \in Nat : Finish(bs, c) = MappedSeq(bs, Finished(c))
<1>1. \A i \in DOMAIN bs : bs[i] \in Block
  OBVIOUS
<1> QED BY <1>1 DEF KillRunning, Finish, MappedSeq, Killed, Finished

\* Two sequences, joined.
LEMMA JoinIs ==
    ASSUME NEW S, NEW a \in Seq(S), NEW b \in Seq(S)
    PROVE  /\ a \o b \in Seq(S) /\ Len(a \o b) = Len(a) + Len(b)
           /\ DOMAIN (a \o b) = 1..Len(a) + Len(b)
           /\ \A i \in 1..Len(a) + Len(b) :
                 (a \o b)[i] = IF i <= Len(a) THEN a[i] ELSE b[i - Len(a)]
<1>1. ASSUME NEW i \in 1..Len(a) + Len(b), i <= Len(a) PROVE (a \o b)[i] = a[i]
  BY <1>1
<1>2. ASSUME NEW i \in 1..Len(a) + Len(b), ~(i <= Len(a)) PROVE (a \o b)[i] = b[i - Len(a)]
  BY <1>2
<1> QED BY <1>1, <1>2

\* Changed conversations, joined and one by one.
LEMMA MappedSeqIs ==
    ASSUME NEW h, KindKept(h), NEW a \in Seq(Block), NEW b \in Seq(Block)
    PROVE  /\ MappedSeq(a, h) \in Seq(Block)
           /\ Range(MappedSeq(a, h)) = {h[x] : x \in Range(a)}
           /\ MappedSeq(a \o b, h) = MappedSeq(a, h) \o MappedSeq(b, h)
           /\ \A S \in SUBSET Block : (\A x \in Block : h[x] \in S) => MappedSeq(a, h) \in Seq(S)
           /\ (\A x \in Range(a) : h[x] = x) => MappedSeq(a, h) = a
<1> DEFINE n == Len(a)
           m == Len(b)
           u == [i \in 1..n |-> h[a[i]]]
           v == [i \in 1..m |-> h[b[i]]]
           c == a \o b
           w == [i \in 1..n + m |-> h[c[i]]]
<1>1. /\ n \in Nat /\ DOMAIN a = 1..n /\ m \in Nat /\ DOMAIN b = 1..m
      /\ \A i \in 1..n : a[i] \in Block
      /\ \A i \in 1..m : b[i] \in Block
  OBVIOUS
<1>2. DOMAIN c = 1..n + m
      /\ \A i \in 1..n + m : c[i] = IF i <= n THEN a[i] ELSE b[i - n]
  BY JoinIs
<1>3. MappedSeq(a, h) = u /\ MappedSeq(b, h) = v /\ MappedSeq(c, h) = w
  BY <1>1, <1>2 DEF MappedSeq
<1>4. Range(a) = {a[i] : i \in 1..n}
  BY <1>1 DEF Range
<1> HIDE DEF n, m, c
<1>5. \A i \in 1..n : h[a[i]] \in Block
  BY <1>1 DEF KindKept
<1>6. \A i \in 1..m : h[b[i]] \in Block
  BY <1>1 DEF KindKept
<1>7. u \in Seq(Block) /\ Len(u) = n /\ DOMAIN u = 1..n /\ \A i \in 1..n : u[i] = h[a[i]]
  BY <1>1, <1>5
<1>8. v \in Seq(Block) /\ Len(v) = m /\ \A i \in 1..m : v[i] = h[b[i]]
  BY <1>1, <1>6
<1>9. Range(u) = {h[x] : x \in Range(a)}
  <2>1. Range(u) = {u[i] : i \in 1..n}
    BY <1>7 DEF Range
  <2> HIDE DEF u
  <2>2. Range(u) = {h[a[i]] : i \in 1..n}
    BY <2>1, <1>7
  <2> QED BY <2>2, <1>4
<1>10. w = u \o v
  <2> DEFINE r == u \o v
  <2>1. /\ Len(r) = n + m /\ r \in Seq(Block)
        /\ \A i \in 1..n + m : r[i] = IF i <= n THEN u[i] ELSE v[i - n]
    <3> HIDE DEF u, v
    <3>1. /\ u \o v \in Seq(Block) /\ Len(u \o v) = Len(u) + Len(v)
          /\ \A i \in 1..Len(u) + Len(v) :
                (u \o v)[i] = IF i <= Len(u) THEN u[i] ELSE v[i - Len(u)]
      BY <1>7, <1>8, JoinIs
    <3>2. Len(u) = n /\ Len(v) = m
      BY <1>7, <1>8
    <3> HIDE DEF r
    <3> QED BY <3>1, <3>2 DEF r
  <2>2. \A i \in 1..n + m : h[c[i]] = r[i]
    <3> TAKE i \in 1..n + m
    <3> HIDE DEF r, u, v
    <3>1. CASE i <= n
      <4>1. i \in 1..n
        BY <3>1, <1>1
      <4> QED BY <3>1, <4>1, <2>1, <1>2, <1>7
    <3>2. CASE ~(i <= n)
      <4>1. i - n \in 1..m
        BY <3>2, <1>1
      <4> QED BY <3>2, <4>1, <2>1, <1>2, <1>8
    <3> QED BY <3>1, <3>2
  <2>3. r = [i \in 1..n + m |-> r[i]]
    <3> HIDE DEF r
    <3> QED BY <2>1, <1>1
  <2> HIDE DEF r
  <2>4. [i \in 1..n + m |-> h[c[i]]] = [i \in 1..n + m |-> r[i]]
    BY <2>2
  <2> QED BY <2>3, <2>4 DEF r
<1>11. \A S \in SUBSET Block : (\A x \in Block : h[x] \in S) => u \in Seq(S)
  <2> SUFFICES ASSUME NEW S \in SUBSET Block, \A x \in Block : h[x] \in S PROVE u \in Seq(S)
    OBVIOUS
  <2>1. \A i \in 1..n : h[a[i]] \in S
    BY <1>1
  <2> QED BY <2>1, <1>1
<1>12. ASSUME \A x \in Range(a) : h[x] = x PROVE u = a
  <2>1. \A i \in 1..n : h[a[i]] = a[i]
    BY <1>4, <1>12
  <2>2. a = [i \in 1..n |-> a[i]]
    BY <1>1 DEF n
  <2> QED BY <2>1, <2>2
<1> QED BY <1>3, <1>7, <1>9, <1>10, <1>11, <1>12 DEF c

-----------------------------------------------------------------------------
(* Dropping the calls that run                                              *)

Keeping(bs, f) ==
    f = [n \in 0..Len(bs) |-> IF n = 0 THEN <<>> ELSE Kept(f[n - 1], bs[n])]

\* The function that DropActive writes as a recursive one exists.
LEMMA KeepingExists ==
    ASSUME NEW bs \in Seq(Block)
    PROVE  \E f : Keeping(bs, f)
<1> DEFINE Upto(f, m) == f = [n \in 0..m |-> IF n = 0 THEN <<>> ELSE Kept(f[n - 1], bs[n])]
           Bad == {m \in Nat : ~ \E f : Upto(f, m)}
<1>1. Bad = {}
  <2> SUFFICES ASSUME Bad # {} PROVE FALSE
    OBVIOUS
  <2>1. Bad \in SUBSET Nat
    OBVIOUS
  <2>2. PICK m \in Bad : \A y \in Bad : m <= y
    <3> HIDE DEF Bad
    <3> QED BY <2>1, LeastIsIn
  <2>3. m \in Nat /\ ~ \E f : Upto(f, m)
    BY <2>2
  <2>4. CASE m = 0
    <3> DEFINE f == [n \in 0..0 |-> <<>>]
               H(n) == IF n = 0 THEN <<>> ELSE Kept(f[n - 1], bs[n])
    <3>1. \A n \in 0..0 : <<>> = H(n)
      OBVIOUS
    <3>2. f = [n \in 0..0 |-> H(n)]
      <4> HIDE DEF H
      <4> QED BY <3>1
    <3>3. Upto(f, 0)
      BY <3>2
    <3> HIDE DEF Upto, f
    <3> QED BY <3>3, <2>3, <2>4
  <2>5. CASE m # 0
    <3>1. m - 1 \in Nat /\ m - 1 \notin Bad
      <4> HIDE DEF Bad
      <4> QED BY <2>3, <2>5, <2>2, <2>1
    <3>2. PICK f : Upto(f, m - 1)
      BY <3>1
    <3> DEFINE g == [n \in 0..m |-> IF n = m THEN Kept(f[m - 1], bs[m]) ELSE f[n]]
               G(n) == IF n = m THEN Kept(f[m - 1], bs[m]) ELSE f[n]
               H(n) == IF n = 0 THEN <<>> ELSE Kept(g[n - 1], bs[n])
    <3>3. \A n \in 0..m - 1 : f[n] = IF n = 0 THEN <<>> ELSE Kept(f[n - 1], bs[n])
      BY <3>2, Zenon
    <3>4. \A n \in 0..m : g[n] = G(n)
      OBVIOUS
    <3>5. \A n \in 0..m : G(n) = H(n)
      <4> HIDE DEF g
      <4> TAKE n \in 0..m
      <4>1. CASE n = m
        <5>1. m - 1 \in 0..m /\ m - 1 # m /\ n # 0
          BY <4>1, <2>3, <2>5
        <5> QED BY <4>1, <5>1, <3>4
      <4>2. CASE n # m /\ n = 0
        <5>1. 0 \in 0..m - 1
          BY <2>3, <2>5
        <5> QED BY <4>2, <5>1, <3>3
      <4>3. CASE n # m /\ n # 0
        <5>1. n \in 0..m - 1 /\ n - 1 \in 0..m /\ n - 1 # m
          BY <4>3, <2>3
        <5> QED BY <4>3, <5>1, <3>3, <3>4
      <4> QED BY <4>1, <4>2, <4>3
    <3>6. g = [n \in 0..m |-> H(n)]
      <4>1. g = [n \in 0..m |-> G(n)]
        OBVIOUS
      <4> HIDE DEF G, H, g
      <4> QED BY <3>5, <4>1
    <3>7. Upto(g, m)
      BY <3>6
    <3> HIDE DEF Upto, g
    <3> QED BY <3>7, <2>3
  <2> QED BY <2>4, <2>5
<1>2. Len(bs) \in Nat
  OBVIOUS
<1>3. \E f : Upto(f, Len(bs))
  <2> HIDE DEF Upto
  <2> QED BY <1>1, <1>2
<1> QED BY <1>3 DEF Keeping

\* What is left are blocks; where no call runs, all of them.
LEMMA DropActiveIs ==
    ASSUME NEW bs \in Seq(Block)
    PROVE  /\ DropActive(bs) \in Seq(Block)
           /\ bs \in Seq(Still) => DropActive(bs) = bs
<1> DEFINE Is(f) == f = [n \in 0..Len(bs) |-> IF n = 0 THEN <<>> ELSE Kept(f[n - 1], bs[n])]
           f == CHOOSE h : Is(h)
           m == Len(bs)
<1>1. \E h : Is(h)
  BY KeepingExists DEF Keeping
<1>2. Is(f)
  <2> HIDE DEF Is
  <2> QED BY <1>1
<1>3. DropActive(bs) = f[m]
  BY DEF DropActive
<1> HIDE DEF f
<1>4. \A n \in 0..m : f[n] = IF n = 0 THEN <<>> ELSE Kept(f[n - 1], bs[n])
  BY <1>2, Zenon
<1>5. m \in Nat /\ \A n \in 1..m : bs[n] \in Block
  OBVIOUS
<1>6. f[m] \in Seq(Block)
  <2> DEFINE Bad == {n \in Nat : n <= m /\ f[n] \notin Seq(Block)}
  <2>1. Bad = {}
    <3> SUFFICES ASSUME Bad # {} PROVE FALSE
      OBVIOUS
    <3>1. Bad \in SUBSET Nat
      OBVIOUS
    <3>2. PICK n \in Bad : \A y \in Bad : n <= y
      <4> HIDE DEF Bad
      <4> QED BY <3>1, LeastIsIn
    <3>3. n \in Nat /\ n <= m /\ f[n] \notin Seq(Block)
      BY <3>2
    <3>4. n # 0
      <4>1. 0 \in 0..m
        BY <1>5
      <4>2. f[0] = <<>>
        BY <1>4, <4>1
      <4>3. <<>> \in Seq(Block)
        OBVIOUS
      <4> QED BY <3>3, <4>2, <4>3
    <3>5. n \in 1..m /\ n \in 0..m /\ n - 1 \in Nat /\ n - 1 <= m /\ ~(n <= n - 1)
      BY <3>3, <3>4, <1>5
    <3>6. f[n - 1] \in Seq(Block)
      <4>1. n - 1 \notin Bad
        <5> HIDE DEF Bad
        <5> QED BY <3>2, <3>5
      <4> QED BY <4>1, <3>5
    <3>7. Kept(f[n - 1], bs[n]) \in Seq(Block)
      BY <3>5, <3>6, <1>5 DEF Kept
    <3> QED BY <3>3, <3>4, <3>5, <3>7, <1>4
  <2> QED BY <2>1, <1>5
<1>7. ASSUME bs \in Seq(Still) PROVE f[m] = bs
  <2> DEFINE Bad == {n \in Nat : n <= m /\ f[n] # SubSeq(bs, 1, n)}
  <2>1. Bad = {}
    <3> SUFFICES ASSUME Bad # {} PROVE FALSE
      OBVIOUS
    <3>1. Bad \in SUBSET Nat
      OBVIOUS
    <3>2. PICK n \in Bad : \A y \in Bad : n <= y
      <4> HIDE DEF Bad
      <4> QED BY <3>1, LeastIsIn
    <3>3. n \in Nat /\ n <= m /\ f[n] # SubSeq(bs, 1, n)
      BY <3>2
    <3>4. CASE n = 0
      <4>1. f[0] = <<>>
        BY <1>4, <1>5
      <4>2. SubSeq(bs, 1, 0) = <<>>
        OBVIOUS
      <4> QED BY <3>3, <3>4, <4>1, <4>2
    <3>5. CASE n # 0
      <4>1. n \in 1..m /\ n \in 0..m /\ n - 1 \in Nat /\ n - 1 <= m /\ ~(n <= n - 1)
        BY <3>3, <3>5, <1>5
      <4>2. f[n - 1] = SubSeq(bs, 1, n - 1)
        <5>1. n - 1 \notin Bad
          <6> HIDE DEF Bad
          <6> QED BY <3>2, <4>1
        <5> QED BY <5>1, <4>1
      <4>3. bs[n] \in Still /\ ~IsActive(bs[n])
        BY <1>7, <4>1 DEF Still, IsActive
      <4>4. f[n] = Append(SubSeq(bs, 1, n - 1), bs[n])
        BY <1>4, <4>1, <4>2, <4>3, <3>5 DEF Kept
      <4> DEFINE k == n - 1
                 p == SubSeq(bs, 1, n)
                 q == SubSeq(bs, 1, k)
                 r == Append(q, bs[n])
      <4>5. p \in Seq(Block) /\ Len(p) = n /\ \A i \in 1..n : p[i] = bs[i]
        BY <4>1, PieceIs
      <4>6. q \in Seq(Block) /\ Len(q) = k /\ (\A i \in 1..k : q[i] = bs[i]) /\ k \in Nat
            /\ n = k + 1
        <5>1. k \in Nat /\ k <= Len(bs) /\ 1 <= k + 1 /\ n = k + 1
          BY <4>1
        <5> HIDE DEF k
        <5> QED BY <5>1, PieceIs
      <4> HIDE DEF q, k, p
      <4>7. r \in Seq(Block) /\ Len(r) = k + 1
            /\ \A i \in 1..k + 1 : r[i] = IF i = k + 1 THEN bs[n] ELSE q[i]
        BY <4>1, <4>6, <1>5, AppendIs
      <4>8. \A i \in 1..n : r[i] = p[i]
        BY <4>5, <4>6, <4>7
      <4> HIDE DEF r
      <4>9. r = p
        BY <4>5, <4>6, <4>7, <4>8
      <4> QED BY <3>3, <4>4, <4>9 DEF p, q, r, k
    <3> QED BY <3>4, <3>5
  <2>2. SubSeq(bs, 1, m) = bs
    OBVIOUS
  <2> QED BY <2>1, <2>2, <1>5
<1> QED BY <1>3, <1>6, <1>7

-----------------------------------------------------------------------------
(* Screens and events                                                       *)

Screens == [turns : Seq(Block), inflight : Seq(Block), streaming : BOOLEAN,
            busy : BOOLEAN, compacting : BOOLEAN, steered : Seq(Nat)]

Plain == {"TokenReceived", "StreamDone", "StreamError", "StreamCancelled", "RetryScheduled",
          "CompactionStarted", "CompactionFinished", "SessionError", "SteeredRecalled",
          "SteeredCleared"}
Numbered == {"ToolStarted", "ToolFinished", "TurnStarted", "SteeredStarted", "PromptSteered",
             "Asked"}
Reloads  == {"SessionLoaded", "SessionCompacted"}

Events ==
    [is : Plain] \cup [is : Numbered, id : Nat] \cup [is : Reloads, blocks : Seq(Still)]
    \cup [is : {"Forked"}, blocks : Seq(Still), prompt : BOOLEAN]

LEMMA EventsAre ==
    /\ \A is \in Plain : Event(is) \in Events
    /\ \A is \in Numbered : \A n \in Nat : EventOf(is, n) \in Events
    /\ \A is \in Reloads : \A bs \in Seq(Still) : Reload(is, bs) \in Events
    /\ \A bs \in Seq(Still) : \A b \in BOOLEAN : Fork(bs, b) \in Events
BY DEF Events, Event, EventOf, Reload, Fork

\* What each event makes of the screen.
LEMMA ShownPlain ==
    ASSUME NEW s
    PROVE  /\ Shown(s, Event("TokenReceived")) = TokenReceived(s)
           /\ Shown(s, Event("StreamDone")) = CommitDone(s)
           /\ Shown(s, Event("StreamError")) = CommitInterrupted(s)
           /\ Shown(s, Event("StreamCancelled")) = CommitInterrupted(s)
           /\ Shown(s, Event("RetryScheduled")) = RetryScheduled(s)
           /\ Shown(s, Event("CompactionStarted")) = CompactionSaid(s)
           /\ Shown(s, Event("CompactionFinished")) = CompactionSaid(s)
           /\ Shown(s, Event("SessionError")) = ShowError(s)
           /\ Shown(s, Event("SteeredRecalled")) = SteeredRecalled(s)
           /\ Shown(s, Event("SteeredCleared")) = SteeredCleared(s)
BY DEF Shown, Event

LEMMA ShownOther ==
    ASSUME NEW s, NEW n, NEW bs, NEW b
    PROVE  /\ Shown(s, EventOf("ToolStarted", n)) = ToolStarted(s, n)
           /\ Shown(s, EventOf("ToolFinished", n)) = ToolFinished(s, n)
           /\ Shown(s, EventOf("TurnStarted", n)) = BeginUserTurn(s, n, FALSE)
           /\ Shown(s, EventOf("SteeredStarted", n)) = BeginUserTurn(s, n, TRUE)
           /\ Shown(s, EventOf("PromptSteered", n)) = SteeredQueued(s, n)
           /\ Shown(s, EventOf("Asked", n)) = Busy(s)
           /\ Shown(s, Reload("SessionLoaded", bs)) = SessionLoaded(s, bs)
           /\ Shown(s, Reload("SessionCompacted", bs)) = SessionCompacted(s, bs)
           /\ Shown(s, Fork(bs, b)) = Forked(s, bs, b)
BY DEF Shown, EventOf, Reload, Fork

\* The channel of more than one event.
LEMMA ReadsMore ==
    ASSUME NEW S, NEW es \in Seq(S), NEW fs \in Seq(S), NEW scr, NEW s, NEW u,
           Reads(scr, es, s), Reads(s, fs, u)
    PROVE  Reads(scr, es \o fs, u)
<1> PICK t : /\ t[0] = scr
             /\ t[Len(es)] = s
             /\ \A i \in 1..Len(es) : t[i] = Shown(t[i - 1], es[i])
  BY DEF Reads
<1> PICK v : /\ v[0] = s
             /\ v[Len(fs)] = u
             /\ \A i \in 1..Len(fs) : v[i] = Shown(v[i - 1], fs[i])
  BY DEF Reads
<1> DEFINE n == Len(es)
           m == Len(fs)
           gs == es \o fs
           w == [i \in 0..n + m |-> IF i <= n THEN t[i] ELSE v[i - n]]
<1>1. /\ n \in Nat /\ m \in Nat /\ Len(gs) = n + m
      /\ \A i \in 1..n + m : gs[i] = IF i <= n THEN es[i] ELSE fs[i - n]
  BY JoinIs
<1> HIDE DEF n, m, gs
<1>2. \A i \in 0..n + m : w[i] = IF i <= n THEN t[i] ELSE v[i - n]
  OBVIOUS
<1> HIDE DEF w
<1>3. w[0] = scr /\ w[n] = s
  BY <1>1, <1>2 DEF n
<1>4. w[n + m] = u
  <2>1. CASE m = 0
    <3>1. n + m = n /\ u = s
      BY <2>1, <1>1 DEF m
    <3> QED BY <1>3, <3>1
  <2>2. CASE m # 0
    <3>1. n + m \in 0..n + m /\ ~(n + m <= n) /\ (n + m) - n = m
      BY <2>2, <1>1
    <3> QED BY <3>1, <1>2 DEF m
  <2> QED BY <2>1, <2>2
<1>5. \A i \in 1..n + m : w[i] = Shown(w[i - 1], gs[i])
  <2> TAKE i \in 1..n + m
  <2>1. CASE i <= n
    <3>1. i \in 0..n + m /\ i - 1 \in 0..n + m /\ i - 1 <= n /\ i \in 1..n
      BY <2>1, <1>1
    <3>2. t[i] = Shown(t[i - 1], es[i])
      BY <3>1 DEF n
    <3> QED BY <2>1, <3>1, <3>2, <1>1, <1>2
  <2>2. CASE ~(i <= n)
    <3> DEFINE j == i - n
    <3>1. i \in 0..n + m /\ i - 1 \in 0..n + m /\ j \in 1..m /\ (i - 1) - n = j - 1
      BY <2>2, <1>1
    <3>2. v[j] = Shown(v[j - 1], fs[j])
      <4> HIDE DEF j
      <4> QED BY <3>1 DEF m
    <3>3. w[i] = v[j] /\ gs[i] = fs[j]
      BY <2>2, <3>1, <1>1, <1>2
    <3>4. w[i - 1] = v[j - 1]
      <4>1. CASE i - 1 <= n
        <5>1. i - 1 = n /\ j - 1 = 0
          BY <4>1, <2>2, <1>1
        <5> QED BY <5>1, <1>3
      <4>2. CASE ~(i - 1 <= n)
        BY <4>2, <3>1, <1>2
      <4> QED BY <4>1, <4>2
    <3> QED BY <3>2, <3>3, <3>4
  <2> QED BY <2>1, <2>2
<1> QED BY <1>1, <1>3, <1>4, <1>5 DEF Reads, gs

\* A few events, from a screen that has read the others.
LEMMA ReadsFew ==
    ASSUME NEW s, NEW a \in Events, NEW b \in Events, NEW c \in Events
    PROVE  /\ Reads(s, <<>>, s) /\ <<>> \in Seq(Events)
           /\ Reads(s, <<a>>, Shown(s, a)) /\ <<a>> \in Seq(Events)
           /\ Reads(s, <<a, b>>, Shown(Shown(s, a), b)) /\ <<a, b>> \in Seq(Events)
           /\ Reads(s, <<a, b, c>>, Shown(Shown(Shown(s, a), b), c))
           /\ <<a, b, c>> \in Seq(Events)
<1>1. Reads(s, <<>>, s) /\ <<>> \in Seq(Events)
  BY ReadsNothing
<1>2. <<>> \o <<a>> = <<a>> /\ <<>> \o <<a, b>> = <<a, b>> /\ <<>> \o <<a, b, c>> = <<a, b, c>>
  OBVIOUS
<1>3. <<a>> \in Seq(Events) /\ <<a, b>> \in Seq(Events) /\ <<a, b, c>> \in Seq(Events)
  OBVIOUS
<1>4. /\ Reads(s, <<>> \o <<a>>, Shown(s, a))
      /\ Reads(s, <<>> \o <<a, b>>, Shown(Shown(s, a), b))
      /\ Reads(s, <<>> \o <<a, b, c>>, Shown(Shown(Shown(s, a), b), c))
  BY <1>1, ReadsEach
<1> QED BY <1>1, <1>2, <1>3, <1>4

-----------------------------------------------------------------------------
(* What the screen becomes with the events that are sent                    *)

\* The handlers of the screen leave it one.
LEMMA ScreensStay ==
    ASSUME NEW s \in Screens
    PROVE  /\ TokenReceived(s) \in Screens
           /\ CommitInterrupted(s) \in Screens
           /\ CommitDone(s) \in Screens
           /\ RetryScheduled(s) \in Screens
           /\ Idle(s) \in Screens /\ Busy(s) \in Screens
           /\ CompactionSaid(s) \in Screens /\ ShowError(s) \in Screens
           /\ SteeredRecalled(s) \in Screens
           /\ SteeredCleared(s) \in Screens
           /\ \A n \in Nat : /\ ToolStarted(s, n) \in Screens
                             /\ ToolFinished(s, n) \in Screens
                             /\ SteeredQueued(s, n) \in Screens
                             /\ \A b \in BOOLEAN : BeginUserTurn(s, n, b) \in Screens
           /\ \A bs \in Seq(Still) : /\ SessionLoaded(s, bs) \in Screens
                                     /\ SessionCompacted(s, bs) \in Screens
                                     /\ \A b \in BOOLEAN : Forked(s, bs, b) \in Screens
<1>1. /\ s.turns \in Seq(Block) /\ s.inflight \in Seq(Block)
      /\ s.streaming \in BOOLEAN /\ s.busy \in BOOLEAN /\ s.compacting \in BOOLEAN
      /\ s.steered \in Seq(Nat)
  BY DEF Screens
<1>2. ASSUME NEW bs \in Seq(Block), NEW cs \in Seq(Block), NEW st \in BOOLEAN,
             NEW b \in BOOLEAN, NEW c \in BOOLEAN
      PROVE  /\ [s EXCEPT !.inflight = bs, !.streaming = st] \in Screens
             /\ [s EXCEPT !.turns = cs, !.inflight = <<>>, !.streaming = FALSE] \in Screens
             /\ [s EXCEPT !.turns = cs, !.compacting = c] \in Screens
             /\ [s EXCEPT !.inflight = bs, !.compacting = c] \in Screens
             /\ [s EXCEPT !.inflight = bs] \in Screens
             /\ [s EXCEPT !.busy = b, !.compacting = c] \in Screens
             /\ [s EXCEPT !.compacting = c] \in Screens
  <2>1. <<>> \in Seq(Block)
    OBVIOUS
  <2> QED BY <1>1, <2>1 DEF Screens
<1>a. ASSUME NEW q \in Seq(Nat) PROVE [s EXCEPT !.steered = q] \in Screens
  BY <1>1 DEF Screens
<1>b. ASSUME NEW cs \in Seq(Block), NEW q \in Seq(Nat)
      PROVE  [s EXCEPT !.turns = cs, !.steered = q] \in Screens
  BY <1>1 DEF Screens
<1>c. \A u \in Screens : /\ Idle(u) \in Screens /\ Busy(u) \in Screens
                         /\ [u EXCEPT !.compacting = FALSE] \in Screens
  BY DEF Screens, Idle, Busy
<1>d. CompactionSaid(s) \in Screens /\ ShowError(s) \in Screens
  <2>1. [s EXCEPT !.busy = TRUE, !.compacting = TRUE] \in Screens
    BY DEF Screens
  <2> QED BY <2>1, <1>c DEF CompactionSaid, ShowError
<1>3. TokenReceived(s) \in Screens
  <2>1. WithText(s.inflight) \in Seq(Block)
    BY <1>1, StillBlocks, GroupedText DEF Still
  <2>2. [s EXCEPT !.inflight = WithText(s.inflight), !.streaming = TRUE] \in Screens
    BY <1>2, <2>1
  <2> QED BY <1>c, <2>2 DEF TokenReceived, Live
<1>4. CommitInterrupted(s) \in Screens
  <2>1. KillRunning(s.inflight) \in Seq(Still)
    <3>1. KindKept(Killed) /\ (\A x \in Block : Killed[x] \in Still) /\ Still \in SUBSET Block
      BY ChangesKeep, StillBlocks
    <3>2. KillRunning(s.inflight) = MappedSeq(s.inflight, Killed)
      BY <1>1, ChangesAre
    <3>3. \A S \in SUBSET Block :
             (\A x \in Block : Killed[x] \in S) => MappedSeq(s.inflight, Killed) \in Seq(S)
      BY <1>1, <3>1, MappedSeqIs
    <3> QED BY <3>1, <3>2, <3>3
  <2>2. s.turns \o KillRunning(s.inflight) \in Seq(Block)
    BY <1>1, <2>1, StillBlocks, JoinIs
  <2>3. [s EXCEPT !.turns = s.turns \o KillRunning(s.inflight), !.inflight = <<>>,
                  !.streaming = FALSE] \in Screens
    BY <1>2, <2>2
  <2> QED BY <1>c, <2>3 DEF CommitInterrupted, Commit
<1>5. CommitDone(s) \in Screens
  <2>1. s.turns \o s.inflight \in Seq(Block)
    BY <1>1, JoinIs
  <2>2. [s EXCEPT !.turns = s.turns \o s.inflight, !.inflight = <<>>, !.streaming = FALSE]
            \in Screens
    BY <1>2, <2>1
  <2> QED BY <1>c, <2>2 DEF CommitDone, Commit
<1>6. RetryScheduled(s) \in Screens
  <2>1. DropActive(s.inflight) \in Seq(Block)
    BY <1>1, DropActiveIs
  <2>2. [s EXCEPT !.inflight = DropActive(s.inflight)] \in Screens
    BY <1>2, <2>1
  <2> QED BY <1>c, <2>2 DEF RetryScheduled
<1>7. SteeredRecalled(s) \in Screens
  <2>1. CASE s.steered = <<>>
    BY <2>1, <1>1, <1>a DEF SteeredRecalled
  <2>2. CASE s.steered # <<>>
    <3>1. Len(s.steered) # 0
      BY <2>2, <1>1
    <3>2. Front(s.steered) \in Seq(Nat)
      BY <1>1, <3>1, FrontLast DEF Front
    <3> QED BY <2>2, <3>2, <1>a DEF SteeredRecalled
  <2> QED BY <2>1, <2>2
<1>8. SteeredCleared(s) \in Screens
  <2>1. <<>> \in Seq(Nat)
    OBVIOUS
  <2> QED BY <2>1, <1>a DEF SteeredCleared
<1>9. ASSUME NEW n \in Nat
      PROVE  /\ ToolStarted(s, n) \in Screens
             /\ ToolFinished(s, n) \in Screens
             /\ SteeredQueued(s, n) \in Screens
             /\ \A b \in BOOLEAN : BeginUserTurn(s, n, b) \in Screens
  <2>1. ToolStarted(s, n) \in Screens
    <3>1. Tool(n, "running") \in Block
      BY StillBlocks DEF ToolBlock
    <3>2. Append(s.inflight, Tool(n, "running")) \in Seq(Block)
      BY <1>1, <3>1
    <3>3. [s EXCEPT !.inflight = Append(s.inflight, Tool(n, "running")), !.streaming = TRUE]
              \in Screens
      BY <1>2, <3>2
    <3> QED BY <1>c, <3>3 DEF ToolStarted, Live
  <2>2. ToolFinished(s, n) \in Screens
    <3>1. KindKept(Finished(n))
      BY ChangesKeep
    <3>3. Finish(s.turns, n) = MappedSeq(s.turns, Finished(n))
          /\ Finish(s.inflight, n) = MappedSeq(s.inflight, Finished(n))
      BY <1>1, ChangesAre
    <3>4. MappedSeq(s.turns, Finished(n)) \in Seq(Block)
      BY <1>1, <3>1, MappedSeqIs
    <3>5. MappedSeq(s.inflight, Finished(n)) \in Seq(Block)
      BY <1>1, <3>1, MappedSeqIs
    <3> QED BY <1>1, <1>2, <3>3, <3>4, <3>5 DEF ToolFinished
  <2>3. SteeredQueued(s, n) \in Screens
    <3>1. Append(s.steered, n) \in Seq(Nat)
      BY <1>1
    <3> QED BY <1>a, <3>1 DEF SteeredQueued
  <2>4. ASSUME NEW b \in BOOLEAN PROVE BeginUserTurn(s, n, b) \in Screens
    <3>1. Append(s.turns, Prompt(n)) \in Seq(Block)
      <4>1. Prompt(n) \in Block
        BY StillBlocks DEF Still
      <4> QED BY <4>1, <1>1
    <3> DEFINE q == IF b /\ s.steered # <<>> THEN Tail(s.steered) ELSE s.steered
    <3>2. q \in Seq(Nat)
      BY <1>1
    <3>3. BeginUserTurn(s, n, b) =
              Busy([s EXCEPT !.turns = Append(s.turns, Prompt(n)), !.steered = q])
      BY DEF BeginUserTurn
    <3> HIDE DEF q
    <3>4. [s EXCEPT !.turns = Append(s.turns, Prompt(n)), !.steered = q] \in Screens
      BY <1>b, <3>1, <3>2
    <3> QED BY <1>c, <3>3, <3>4
  <2> QED BY <2>1, <2>2, <2>3, <2>4
<1>10. ASSUME NEW bs \in Seq(Still)
       PROVE  /\ SessionLoaded(s, bs) \in Screens
              /\ SessionCompacted(s, bs) \in Screens
              /\ \A b \in BOOLEAN : Forked(s, bs, b) \in Screens
  <2> DEFINE u == [s EXCEPT !.turns = bs, !.inflight = <<>>, !.streaming = FALSE]
  <2>0. bs \in Seq(Block)
    BY StillBlocks
  <2>1. u \in Screens /\ ApplySession(s, bs) = u
    BY <1>1, <1>2, <2>0 DEF ApplySession
  <2> HIDE DEF u
  <2>2. Idle(u) \in Screens /\ [u EXCEPT !.compacting = FALSE] \in Screens
    BY <1>c, <2>1
  <2> QED BY <2>1, <2>2 DEF SessionCompacted, Forked, SessionLoaded
<1> QED BY <1>c, <1>d, <1>3, <1>4, <1>5, <1>6, <1>7, <1>8, <1>9, <1>10

\* What the handlers make of the queue below the conversation.
LEMMA SteeredIs ==
    ASSUME NEW s \in Screens, NEW n \in Nat, NEW bs, NEW b
    PROVE  /\ TokenReceived(s).steered = s.steered
           /\ ToolStarted(s, n).steered = s.steered
           /\ ToolFinished(s, n).steered = s.steered
           /\ CommitDone(s).steered = s.steered
           /\ CommitInterrupted(s).steered = s.steered
           /\ RetryScheduled(s).steered = s.steered
           /\ SessionLoaded(s, bs).steered = s.steered
           /\ SessionCompacted(s, bs).steered = s.steered
           /\ Forked(s, bs, b).steered = s.steered
           /\ SteeredQueued(s, n).steered = Append(s.steered, n)
           /\ SteeredRecalled(s).steered = IF s.steered = <<>> THEN <<>> ELSE Front(s.steered)
           /\ SteeredCleared(s).steered = <<>>
           /\ BeginUserTurn(s, n, FALSE).steered = s.steered
           /\ BeginUserTurn(s, n, TRUE).steered =
                 IF s.steered = <<>> THEN <<>> ELSE Tail(s.steered)
BY DEF Screens, TokenReceived, ToolStarted, ToolFinished, CommitDone, CommitInterrupted, Commit,
       RetryScheduled, ApplySession, SessionCompacted, Forked, SteeredQueued, SteeredRecalled,
       SteeredCleared, BeginUserTurn, Live, Idle, Busy, SessionLoaded,
       CompactionSaid, ShowError

\* What they make of its signs of life.
LEMMA BusyIs ==
    ASSUME NEW s \in Screens, NEW n \in Nat, NEW bs, NEW b \in BOOLEAN
    PROVE  /\ TokenReceived(s).busy /\ ~TokenReceived(s).compacting
           /\ ToolStarted(s, n).busy /\ ~ToolStarted(s, n).compacting
           /\ ToolFinished(s, n).busy = s.busy /\ ToolFinished(s, n).streaming = s.streaming
           /\ ~ToolFinished(s, n).compacting
           /\ ~CommitDone(s).busy /\ ~CommitDone(s).streaming /\ ~CommitDone(s).compacting
           /\ ~CommitInterrupted(s).busy /\ ~CommitInterrupted(s).streaming
           /\ ~CommitInterrupted(s).compacting
           /\ RetryScheduled(s).busy /\ ~RetryScheduled(s).compacting
           /\ SessionLoaded(s, bs).busy = s.busy /\ ~SessionLoaded(s, bs).streaming
           /\ ~SessionLoaded(s, bs).compacting
           /\ ~SessionCompacted(s, bs).busy /\ ~SessionCompacted(s, bs).streaming
           /\ ~SessionCompacted(s, bs).compacting
           /\ Forked(s, bs, b).busy = (s.busy /\ ~b) /\ ~Forked(s, bs, b).streaming
           /\ Forked(s, bs, b).compacting = (s.compacting /\ ~b)
           /\ BeginUserTurn(s, n, b).busy /\ ~BeginUserTurn(s, n, b).compacting
BY DEF Screens, TokenReceived, ToolStarted, ToolFinished, CommitDone, CommitInterrupted, Commit,
       RetryScheduled, ApplySession, SessionCompacted, Forked, SteeredQueued, SteeredRecalled,
       SteeredCleared, BeginUserTurn, Live, Idle, Busy, SessionLoaded,
       CompactionSaid, ShowError

\* Two screens that differ in their signs of life only.
Alike(u, s) == /\ u \in Screens /\ u.turns = s.turns /\ u.inflight = s.inflight
               /\ u.streaming = s.streaming /\ u.steered = s.steered

LEMMA SignsAre ==
    ASSUME NEW s \in Screens
    PROVE  /\ Alike(Idle(s), s) /\ ~Idle(s).busy /\ ~Idle(s).compacting
           /\ Alike(Busy(s), s) /\ Busy(s).busy /\ ~Busy(s).compacting
           /\ Alike(CompactionSaid(s), s)
           /\ CompactionSaid(s).busy /\ CompactionSaid(s).compacting
           /\ Alike(ShowError(s), s) /\ ~ShowError(s).compacting
           /\ (~s.compacting => ShowError(s) = s)
           /\ (s.compacting => ~ShowError(s).busy)
           /\ Alike([s EXCEPT !.compacting = FALSE], s)
<1>1. /\ Idle(s) \in Screens /\ Busy(s) \in Screens
      /\ CompactionSaid(s) \in Screens /\ ShowError(s) \in Screens
  BY ScreensStay
<1>2. [s EXCEPT !.compacting = FALSE] \in Screens
  BY DEF Screens
<1> QED BY <1>1, <1>2 DEF Screens, Alike, Idle, Busy, CompactionSaid, ShowError

\* What they make of the conversation.
LEMMA BlocksAre ==
    ASSUME NEW s \in Screens, NEW n \in Nat, NEW bs, NEW b \in BOOLEAN
    PROVE  /\ TokenReceived(s).turns = s.turns /\ TokenReceived(s).inflight = WithText(s.inflight)
           /\ ToolStarted(s, n).turns = s.turns
           /\ ToolStarted(s, n).inflight = Append(s.inflight, Tool(n, "running"))
           /\ Tool(n, "running") \in Range(s.inflight) =>
                /\ ToolFinished(s, n).turns = s.turns
                /\ ToolFinished(s, n).inflight = Finish(s.inflight, n)
           /\ CommitDone(s).turns = s.turns \o s.inflight /\ CommitDone(s).inflight = <<>>
           /\ CommitInterrupted(s).turns = s.turns \o KillRunning(s.inflight)
           /\ CommitInterrupted(s).inflight = <<>>
           /\ RetryScheduled(s).turns = s.turns /\ RetryScheduled(s).inflight = DropActive(s.inflight)
           /\ SessionLoaded(s, bs).turns = bs /\ SessionLoaded(s, bs).inflight = <<>>
           /\ SessionCompacted(s, bs).turns = bs /\ SessionCompacted(s, bs).inflight = <<>>
           /\ Forked(s, bs, b).turns = bs /\ Forked(s, bs, b).inflight = <<>>
           /\ SteeredQueued(s, n).turns = s.turns /\ SteeredQueued(s, n).inflight = s.inflight
           /\ SteeredRecalled(s).turns = s.turns /\ SteeredRecalled(s).inflight = s.inflight
           /\ SteeredCleared(s).turns = s.turns /\ SteeredCleared(s).inflight = s.inflight
           /\ BeginUserTurn(s, n, b).turns = Append(s.turns, Prompt(n))
           /\ BeginUserTurn(s, n, b).inflight = s.inflight
BY DEF Screens, TokenReceived, ToolStarted, ToolFinished, CommitDone, CommitInterrupted, Commit,
       RetryScheduled, ApplySession, SessionCompacted, Forked, SteeredQueued, SteeredRecalled,
       SteeredCleared, BeginUserTurn, Live, Idle, Busy, SessionLoaded,
       CompactionSaid, ShowError

-----------------------------------------------------------------------------
(* The conversation on the screen                                           *)

\* The screen s shows the path p and the running calls R.
Pane(s, p, R) ==
    /\ s.turns \in Seq(Still)
    /\ Active(s.inflight) = Tools(R, "running")
    /\ Grouped(s.turns \o s.inflight) = Beside(Grouped(p), Tools(R, "running"))

\* It is a matter of these two of its parts.
LEMMA PaneSame ==
    ASSUME NEW s, NEW u, u.turns = s.turns, u.inflight = s.inflight, NEW p, NEW R
    PROVE  Pane(s, p, R) <=> Pane(u, p, R)
BY DEF Pane

LEMMA ScreenBlocks ==
    ASSUME NEW s \in Screens
    PROVE  /\ s.turns \in Seq(Block) /\ s.inflight \in Seq(Block)
           /\ s.turns \o s.inflight \in Seq(Block)
           /\ Grouped(s.turns \o s.inflight) \in Groups
<1>1. s.turns \in Seq(Block) /\ s.inflight \in Seq(Block)
  BY DEF Screens
<1>2. s.turns \o s.inflight \in Seq(Block)
  BY <1>1, JoinIs
<1> QED BY <1>1, <1>2, StillBlocks, GroupedType DEF Groups

\* Without a running call nothing on the screen runs.
LEMMA StillInflight ==
    ASSUME NEW bs \in Seq(Block), Active(bs) = {}
    PROVE  bs \in Seq(Still)
<1>1. \A i \in 1..Len(bs) : bs[i] \in Still
  <2> TAKE i \in 1..Len(bs)
  <2>1. bs[i] \in Block /\ bs[i] \in Range(bs)
    BY DEF Range
  <2>2. bs[i] \notin Active(bs)
    OBVIOUS
  <2> QED BY <2>1, <2>2 DEF Active, Still
<1> QED BY <1>1

\* A path that has been reloaded.
LEMMA PaneReload ==
    ASSUME NEW u, NEW p \in Seq(Still), u.turns = p, u.inflight = <<>>
    PROVE  Pane(u, p, {})
<1>1. p \in Seq(Block) /\ p \o <<>> = p
  BY StillBlocks
<1>2. Beside(Grouped(p), Tools({}, "running")) = Grouped(p) /\ Tools({}, "running") = {}
  BY <1>1, NoCalls
<1>3. Active(<<>>) = {}
  BY DEF Active, Range
<1> QED BY <1>1, <1>2, <1>3 DEF Pane

\* A token: text goes on where it was the last thing, on either side.
LEMMA PaneToken ==
    ASSUME NEW s \in Screens, NEW p \in Seq(Still), Pane(s, p, {})
    PROVE  Pane(TokenReceived(s), WithText(p), {}) /\ WithText(p) \in Seq(Still)
<1> DEFINE u == TokenReceived(s)
<1>1. u.turns = s.turns /\ u.inflight = WithText(s.inflight)
  BY BlocksAre
<1>0. Tools({}, "running") = {} /\ \A G : Beside(G, {}) = G
  BY DEF Tools, Beside
<1>2. s.turns \in Seq(Still) /\ Active(s.inflight) = {}
      /\ Grouped(s.turns \o s.inflight) = Grouped(p)
  BY <1>0 DEF Pane
<1>3. /\ s.turns \in Seq(Block) /\ s.inflight \in Seq(Still) /\ p \in Seq(Block)
      /\ <<>> \in Seq(Block) /\ Text \in Still /\ Still \in SUBSET Block
  BY <1>2, ScreenBlocks, StillInflight, StillBlocks
<1>4. WithText(s.inflight) \in Seq(Still)
      /\ Grouped(s.turns \o WithText(s.inflight)) = Joined(Grouped(s.turns \o s.inflight), Text)
  BY <1>3, GroupedText
<1>5. WithText(p) \in Seq(Still) /\ Grouped(<<>> \o WithText(p)) = Joined(Grouped(<<>> \o p), Text)
  BY <1>3, GroupedText
<1>6. <<>> \o WithText(p) = WithText(p) /\ <<>> \o p = p
  BY <1>5
<1>7. Active(WithText(s.inflight)) = {}
  BY <1>4, StillBlocks
<1> HIDE DEF u
<1>9. Grouped(u.turns \o u.inflight) = Grouped(WithText(p))
  BY <1>1, <1>2, <1>4, <1>5, <1>6
<1>10. Pane(u, WithText(p), {})
  BY <1>0, <1>1, <1>2, <1>7, <1>9 DEF Pane
<1> QED BY <1>5, <1>10 DEF u

\* One more at the end of the second of two sequences.
LEMMA JoinOn ==
    ASSUME NEW S, NEW a \in Seq(S), NEW i \in Seq(S), NEW b \in S
    PROVE  a \o Append(i, b) = Append(a \o i, b)
<1> DEFINE n == Len(a)
           m == Len(i)
           j == Append(i, b)
           u == a \o j
           c == a \o i
           v == Append(c, b)
<1>1. /\ n \in Nat /\ m \in Nat /\ c \in Seq(S) /\ Len(c) = n + m
      /\ \A k \in 1..n + m : c[k] = IF k <= n THEN a[k] ELSE i[k - n]
  BY JoinIs
<1>2. /\ j \in Seq(S) /\ Len(j) = m + 1
      /\ \A k \in 1..m + 1 : j[k] = IF k = m + 1 THEN b ELSE i[k]
  BY AppendIs
<1> HIDE DEF n, m, j, c
<1>3. /\ u \in Seq(S) /\ Len(u) = n + (m + 1)
      /\ \A k \in 1..n + (m + 1) : u[k] = IF k <= n THEN a[k] ELSE j[k - n]
  BY <1>2, JoinIs DEF n
<1>4. /\ v \in Seq(S) /\ Len(v) = (n + m) + 1
      /\ \A k \in 1..(n + m) + 1 : v[k] = IF k = (n + m) + 1 THEN b ELSE c[k]
  BY <1>1, AppendIs
<1> HIDE DEF u, v
<1>5. \A k \in 1..n + (m + 1) : u[k] = v[k]
  <2> TAKE k \in 1..n + (m + 1)
  <2>1. CASE k <= n
    <3>1. k \in 1..n + m /\ k # (n + m) + 1 /\ k \in 1..(n + m) + 1
      BY <2>1, <1>1
    <3> QED BY <2>1, <3>1, <1>1, <1>3, <1>4
  <2>2. CASE n < k /\ k # (n + m) + 1
    <3>1. k \in 1..n + m /\ k \in 1..(n + m) + 1 /\ ~(k <= n)
          /\ k - n \in 1..m + 1 /\ k - n # m + 1
      BY <2>2, <1>1
    <3> QED BY <2>2, <3>1, <1>1, <1>2, <1>3, <1>4
  <2>3. CASE k = (n + m) + 1
    <3>1. k \in 1..(n + m) + 1 /\ ~(k <= n) /\ k - n = m + 1 /\ m + 1 \in 1..m + 1
      BY <2>3, <1>1
    <3> QED BY <2>3, <3>1, <1>2, <1>3, <1>4
  <2> QED BY <2>1, <2>2, <2>3, <1>1
<1>6. u = v
  <2>1. Len(u) = Len(v) /\ DOMAIN u = 1..Len(u) /\ DOMAIN v = 1..Len(v)
    BY <1>1, <1>3, <1>4
  <2>2. u = [k \in 1..Len(u) |-> u[k]] /\ v = [k \in 1..Len(v) |-> v[k]]
    BY <1>3, <1>4
  <2>3. \A k \in 1..Len(u) : u[k] = v[k]
    BY <1>3, <1>5
  <2> QED BY <2>1, <2>2, <2>3
<1> QED BY <1>6 DEF u, v, c, j

\* A call that starts.
LEMMA PaneToolStarted ==
    ASSUME NEW s \in Screens, NEW p \in Seq(Still), NEW R \in SUBSET Nat, NEW c \in Nat,
           Pane(s, p, R)
    PROVE  Pane(ToolStarted(s, c), p, R \cup {c})
<1> DEFINE u == ToolStarted(s, c)
           b == Tool(c, "running")
           G == Grouped(p)
           T == Tools(R, "running")
<1>1. u.turns = s.turns /\ u.inflight = Append(s.inflight, b)
  BY BlocksAre
<1>2. s.turns \in Seq(Still) /\ Active(s.inflight) = T
      /\ Grouped(s.turns \o s.inflight) = Beside(G, T)
  BY DEF Pane
<1>3. s.turns \in Seq(Block) /\ s.inflight \in Seq(Block) /\ s.turns \o s.inflight \in Seq(Block)
  BY ScreenBlocks
<1>4. b \in ToolBlock /\ b \in Block /\ b.state = "running" /\ T \in SUBSET ToolBlock /\ {b} \in SUBSET ToolBlock
  BY StillBlocks DEF Tools, ToolBlock, Tool
<1>5. G \in Groups
  BY StillBlocks, GroupedType DEF Groups
<1>6. Tools(R \cup {c}, "running") = T \cup {b}
  BY DEF Tools
<1> HIDE DEF u, b, G, T
<1>7. u.turns \o u.inflight = Append(s.turns \o s.inflight, b)
  <2>1. b \in Block
    BY <1>4
  <2>2. s.turns \o Append(s.inflight, b) = Append(s.turns \o s.inflight, b)
    <3>1. \A a \in Seq(Block) : \A i \in Seq(Block) : \A x \in Block :
             a \o Append(i, x) = Append(a \o i, x)
      BY JoinOn
    <3> QED BY <1>3, <2>1, <3>1
  <2> QED BY <1>1, <2>2
<1>8. Grouped(u.turns \o u.inflight) = Joined(Beside(G, T), b)
  BY <1>2, <1>3, <1>4, <1>7, GroupedOn
<1>9. Joined(Beside(G, T), b) = Beside(Beside(G, T), {b})
  BY <1>4, <1>5, BesideType, BesideOne
<1>10. Beside(Beside(G, T), {b}) = Beside(G, T \cup {b})
  BY <1>4, <1>5, BesideTwice
<1>11. Active(u.inflight) = T \cup {b}
  <2>1. Range(Append(s.inflight, b)) = Range(s.inflight) \cup {b}
    <3> DEFINE q == s.inflight
               r == Append(q, b)
               n == Len(q)
    <3>1. /\ n \in Nat /\ DOMAIN q = 1..n /\ DOMAIN r = 1..n + 1
          /\ \A k \in 1..n + 1 : r[k] = IF k = n + 1 THEN b ELSE q[k]
      BY <1>3, <1>4, AppendIs
    <3> HIDE DEF q, r, n
    <3>2. \A i \in 1..n + 1 : i = n + 1 \/ i \in 1..n
      BY <3>1
    <3>3. n + 1 \in 1..n + 1 /\ \A i \in 1..n : i \in 1..n + 1 /\ i # n + 1
      BY <3>1
    <3>4. \A x \in Range(r) : x \in Range(q) \cup {b}
      BY <3>1, <3>2 DEF Range
    <3>5. \A x \in Range(q) \cup {b} : x \in Range(r)
      BY <3>1, <3>3 DEF Range
    <3>6. Range(r) = Range(q) \cup {b}
      BY <3>4, <3>5
    <3> QED BY <3>6 DEF q, r
  <2> QED BY <1>1, <1>2, <1>4, <2>1 DEF Active
<1>12. Pane(u, p, R \cup {c})
  BY <1>1, <1>2, <1>6, <1>8, <1>9, <1>10, <1>11 DEF Pane, G
<1> QED BY <1>12 DEF u

\* A call that returns.
LEMMA PaneToolFinished ==
    ASSUME NEW s \in Screens, NEW p \in Seq(Still), NEW R \in SUBSET Nat, NEW c \in R,
           Pane(s, p, R)
    PROVE  /\ Pane(ToolFinished(s, c), Append(p, Tool(c, "ok")), R \ {c})
           /\ Append(p, Tool(c, "ok")) \in Seq(Still)
<1> DEFINE u == ToolFinished(s, c)
           b == Tool(c, "running")
           d == Tool(c, "ok")
           h == Finished(c)
           G == Grouped(p)
           T == Tools(R, "running")
           Q == Tools(R \ {c}, "running")
           a == s.turns
           i == s.inflight
<1>1. c \in Nat
  OBVIOUS
<1>2. a \in Seq(Still) /\ Active(i) = T /\ Grouped(a \o i) = Beside(G, T)
  BY DEF Pane
<1>3. a \in Seq(Block) /\ i \in Seq(Block) /\ a \o i \in Seq(Block)
  BY ScreenBlocks
<1>4. b \in Range(i)
  BY <1>2 DEF Tools, Active
<1>5. u.turns = a /\ u.inflight = MappedSeq(i, h)
  <2>1. TRUE \in BOOLEAN
    OBVIOUS
  <2>2. u.turns = a /\ u.inflight = Finish(i, c)
    BY <1>1, <1>4, <2>1, BlocksAre
  <2>3. Finish(i, c) = MappedSeq(i, h)
    BY <1>1, <1>3, ChangesAre
  <2> QED BY <2>2, <2>3
<1>6. /\ KindKept(h) /\ \A x \in Still : h[x] = x
      /\ \A x \in Block : h[x] = IF x = b THEN d ELSE x
  BY <1>1, ChangesKeep
<1>7. /\ b \in ToolBlock /\ d \in ToolBlock /\ d \in Still /\ T \in SUBSET ToolBlock
      /\ Q \in SUBSET ToolBlock /\ {d} \in SUBSET ToolBlock /\ ToolBlock \in SUBSET Block
      /\ b \in T /\ b.state = "running" /\ d.state = "ok"
      /\ T = Q \cup {b} /\ b \notin Q /\ \A x \in T : x.state = "running"
  <2>1. \A x \in R : \A y \in R : Tool(x, "running") = Tool(y, "running") => x = y
    BY DEF Tool
  <2>2. b \in ToolBlock /\ d \in ToolBlock /\ d \in Still /\ b.state = "running" /\ d.state = "ok"
    BY <1>1, StillBlocks DEF Tool
  <2>3. T \in SUBSET ToolBlock /\ Q \in SUBSET ToolBlock
    BY StillBlocks DEF Tools
  <2>4. b \in T /\ T = Q \cup {b} /\ b \notin Q
    BY <2>1 DEF Tools
  <2>5. \A x \in T : x.state = "running"
    BY DEF Tools, Tool
  <2> QED BY <2>2, <2>3, <2>4, <2>5 DEF ToolBlock
<1>8. G \in Groups /\ G \in Seq(SUBSET Still)
  <2>1. Still \in SUBSET Block
    BY StillBlocks
  <2>2. G \in Seq(SUBSET Still)
    BY <2>1, GroupedType
  <2>3. p \in Seq(Block)
    BY StillBlocks
  <2> QED BY <2>2, <2>3, StillBlocks, GroupedType DEF Groups
<1> HIDE DEF u, b, d, h, G, T, Q, a, i
<1>9. MappedSeq(a, h) = a
  <2>1. \A x \in Range(a) : h[x] = x
    BY <1>2, <1>6 DEF Range
  <2> QED BY <1>3, <1>6, <2>1, MappedSeqIs
<1>10. u.turns \o u.inflight = MappedSeq(a \o i, h)
  <2>1. MappedSeq(a \o i, h) = MappedSeq(a, h) \o MappedSeq(i, h)
    BY <1>3, <1>6, MappedSeqIs
  <2> QED BY <1>5, <1>9, <2>1
<1>11. Grouped(u.turns \o u.inflight) = Mapped(Beside(G, T), h)
  BY <1>2, <1>3, <1>6, <1>10, GroupedMapped
<1>12. {h[x] : x \in T} = Q \cup {d}
  <2>1. \A x \in Q : h[x] = x
    BY <1>6, <1>7
  <2>2. h[b] = d
    BY <1>6, <1>7
  <2> QED BY <2>1, <2>2, <1>7
<1>13. Mapped(Beside(G, T), h) = Beside(G, Q \cup {d})
  <2>1. Mapped(Beside(G, T), h) = Beside(Mapped(G, h), {h[x] : x \in T})
    BY <1>6, <1>7, <1>8, BesideMapped
  <2>2. Mapped(G, h) = G
    <3>1. Still \in SUBSET Block
      BY StillBlocks
    <3> QED BY <3>1, <1>6, <1>8, MappedSame
  <2> QED BY <2>1, <2>2, <1>12
<1>14. Append(p, d) \in Seq(Still) /\ Grouped(Append(p, d)) = Beside(G, {d})
  <2>1. p \in Seq(Block) /\ d \in Block
    BY <1>7, StillBlocks
  <2>2. Grouped(Append(p, d)) = Joined(G, d)
    BY <2>1, GroupedOn DEF G
  <2> QED BY <2>2, <1>7, <1>8, BesideOne
<1>15. Beside(Beside(G, {d}), Q) = Beside(G, Q \cup {d})
  <2>1. {d} \cup Q = Q \cup {d}
    OBVIOUS
  <2> QED BY <2>1, <1>7, <1>8, BesideTwice
<1>16. Active(u.inflight) = Q
  <2>1. Range(u.inflight) = {h[x] : x \in Range(i)}
    BY <1>3, <1>5, <1>6, MappedSeqIs
  <2>2. \A x \in Range(i) : x \in Block
    BY <1>3 DEF Range
  <2>3. \A x \in Range(i) : h[x] = IF x = b THEN d ELSE x
    BY <1>6, <2>2
  <2>4. \A x : x \in Range(i) /\ x.state = "running" <=> x \in T
    BY <1>2 DEF Active
  <2>5. \A y : y \in Active(u.inflight) <=> y \in Range(u.inflight) /\ y.state = "running"
    BY DEF Active
  <2>6. ASSUME NEW y \in Active(u.inflight) PROVE y \in Q
    <3>1. y.state = "running"
      BY <2>5, <2>6
    <3>2. PICK x \in Range(i) : y = h[x]
      BY <2>1, <2>5, <2>6
    <3>3. x # b /\ y = x
      BY <3>1, <3>2, <2>3, <1>7
    <3> QED BY <3>1, <3>3, <2>4, <1>7
  <2>7. ASSUME NEW y \in Q PROVE y \in Active(u.inflight)
    <3>1. y \in T /\ y # b
      BY <2>7, <1>7
    <3>2. y \in Range(i) /\ y.state = "running"
      BY <3>1, <2>4
    <3>3. h[y] = y
      BY <3>1, <3>2, <2>3
    <3> QED BY <3>2, <3>3, <2>1, <2>5
  <2> QED BY <2>6, <2>7
<1>17. Pane(u, Append(p, d), R \ {c})
  BY <1>2, <1>5, <1>11, <1>13, <1>14, <1>15, <1>16 DEF Pane, Q
<1> QED BY <1>14, <1>17 DEF u, d

\* A turn that is cut: the running calls are killed on the screen, and stored so.
LEMMA PaneCut ==
    ASSUME NEW s \in Screens, NEW p \in Seq(Still), NEW R \in SUBSET Nat, IsFiniteSet(R),
           Pane(s, p, R)
    PROVE  /\ Pane(CommitInterrupted(s), p \o Calls(R, "killed"), {})
           /\ p \o Calls(R, "killed") \in Seq(Still)
           /\ CommitInterrupted(s).inflight = <<>>
<1> DEFINE u == CommitInterrupted(s)
           h == Killed
           G == Grouped(p)
           T == Tools(R, "running")
           K == Tools(R, "killed")
           q == p \o Calls(R, "killed")
           a == s.turns
           i == s.inflight
<1>2. a \in Seq(Still) /\ Active(i) = T /\ Grouped(a \o i) = Beside(G, T)
  BY DEF Pane
<1>3. a \in Seq(Block) /\ i \in Seq(Block) /\ a \o i \in Seq(Block)
  BY ScreenBlocks
<1>4. u.turns = a \o MappedSeq(i, h) /\ u.inflight = <<>>
  <2>1. 0 \in Nat /\ TRUE \in BOOLEAN
    OBVIOUS
  <2> QED BY <1>3, <2>1, BlocksAre, ChangesAre
<1>5. /\ KindKept(h) /\ (\A x \in Still : h[x] = x) /\ (\A x \in Block : h[x] \in Still)
      /\ \A n \in Nat : h[Tool(n, "running")] = Tool(n, "killed")
  BY ChangesKeep
<1>6. T \in SUBSET ToolBlock /\ K \in SUBSET ToolBlock
  BY StillBlocks DEF Tools
<1>7. {h[x] : x \in T} = K
  BY <1>5 DEF Tools
<1>8. G \in Groups /\ G \in Seq(SUBSET Still) /\ p \in Seq(Block)
  <2>1. Still \in SUBSET Block
    BY StillBlocks
  <2>2. G \in Seq(SUBSET Still)
    BY <2>1, GroupedType
  <2>3. p \in Seq(Block)
    BY StillBlocks
  <2> QED BY <2>2, <2>3, StillBlocks, GroupedType DEF Groups
<1>9. q \in Seq(Still) /\ Grouped(q) = Beside(G, K)
  <2>1. Calls(R, "killed") \in Seq(Still)
    BY CallsAre
  <2>2. q \in Seq(Still)
    BY <2>1, JoinIs
  <2> QED BY <2>2, <1>8, GroupedCalls
<1> HIDE DEF u, h, G, T, K, q, a, i
<1>10. MappedSeq(a, h) = a
  <2>1. \A x \in Range(a) : h[x] = x
    BY <1>2, <1>5 DEF Range
  <2> QED BY <1>3, <1>5, <2>1, MappedSeqIs
<1>11. u.turns = MappedSeq(a \o i, h)
  <2>1. MappedSeq(a \o i, h) = MappedSeq(a, h) \o MappedSeq(i, h)
    BY <1>3, <1>5, MappedSeqIs
  <2> QED BY <1>4, <1>10, <2>1
<1>12. Still \in SUBSET Block
  BY StillBlocks
<1>13. u.turns \in Seq(Still)
  BY <1>3, <1>5, <1>11, <1>12, MappedSeqIs
<1>14. Grouped(u.turns) = Mapped(Beside(G, T), h)
  BY <1>2, <1>3, <1>5, <1>11, GroupedMapped
<1>15. Mapped(Beside(G, T), h) = Beside(G, K)
  <2>1. Mapped(Beside(G, T), h) = Beside(Mapped(G, h), {h[x] : x \in T})
    BY <1>5, <1>6, <1>8, BesideMapped
  <2>2. Mapped(G, h) = G
    BY <1>12, <1>5, <1>8, MappedSame
  <2> QED BY <2>1, <2>2, <1>7
<1>16. u.turns \o u.inflight = u.turns
  BY <1>4, <1>13
<1>17. Active(<<>>) = {}
  BY DEF Active, Range
<1>18. Tools({}, "running") = {} /\ Beside(Grouped(q), {}) = Grouped(q)
  BY DEF Tools, Beside
<1>19. Pane(u, q, {})
  BY <1>4, <1>9, <1>13, <1>14, <1>15, <1>16, <1>17, <1>18 DEF Pane
<1> QED BY <1>4, <1>9, <1>19 DEF u, q

\* A turn that is over, with no call running: either commit shows it.
LEMMA PaneOver ==
    ASSUME NEW s \in Screens, NEW p \in Seq(Still), Pane(s, p, {})
    PROVE  /\ Pane(CommitDone(s), p, {}) /\ CommitDone(s).inflight = <<>>
           /\ Pane(CommitInterrupted(s), p, {}) /\ CommitInterrupted(s).inflight = <<>>
           /\ Pane(RetryScheduled(s), p, {})
<1> DEFINE u == CommitDone(s)
<1>1. 0 \in Nat /\ TRUE \in BOOLEAN /\ {} \in SUBSET Nat /\ IsFiniteSet({})
  BY FS_EmptySet
<1>2. p \o Calls({}, "killed") = p
  BY StillBlocks, NoCalls
<1>3. Pane(CommitInterrupted(s), p, {}) /\ CommitInterrupted(s).inflight = <<>>
  BY <1>1, <1>2, PaneCut
<1>4. Tools({}, "running") = {}
  BY DEF Tools
<1>5. s.inflight \in Seq(Still) /\ s.turns \in Seq(Still)
  BY <1>4, ScreenBlocks, StillInflight DEF Pane
<1>6. u.turns = s.turns \o s.inflight /\ u.inflight = <<>>
  BY <1>1, BlocksAre
<1>7. Pane(RetryScheduled(s), p, {})
  <2>1. DropActive(s.inflight) = s.inflight
    BY <1>5, StillBlocks, DropActiveIs
  <2>2. RetryScheduled(s).turns = s.turns /\ RetryScheduled(s).inflight = s.inflight
    BY <1>1, <2>1, BlocksAre
  <2> QED BY <2>2, PaneSame
<1> HIDE DEF u
<1>8. u.turns \in Seq(Still) /\ u.turns \o u.inflight = s.turns \o s.inflight
  <2>1. s.turns \o s.inflight \in Seq(Still)
    BY <1>5, JoinIs
  <2> QED BY <1>6, <2>1
<1>9. Active(<<>>) = {}
  BY DEF Active, Range
<1>10. Pane(u, p, {})
  BY <1>4, <1>6, <1>8, <1>9 DEF Pane
<1> QED BY <1>3, <1>6, <1>7, <1>10 DEF u

\* A prompt.
LEMMA PanePrompt ==
    ASSUME NEW s \in Screens, NEW p \in Seq(Still), Pane(s, p, {}), s.inflight = <<>>,
           NEW n \in Nat, NEW b \in BOOLEAN
    PROVE  /\ Pane(BeginUserTurn(s, n, b), Append(p, Prompt(n)), {})
           /\ BeginUserTurn(s, n, b).inflight = <<>>
           /\ Append(p, Prompt(n)) \in Seq(Still)
<1> DEFINE u == BeginUserTurn(s, n, b)
           x == Prompt(n)
<1>1. u.turns = Append(s.turns, x) /\ u.inflight = <<>>
  BY BlocksAre
<1>2. x \in Still /\ x \in Block
  BY StillBlocks DEF Still
<1>3. s.turns \in Seq(Still) /\ s.turns \in Seq(Block) /\ p \in Seq(Block)
      /\ s.turns \o <<>> = s.turns
  BY StillBlocks DEF Pane
<1>4. Tools({}, "running") = {} /\ \A G : Beside(G, {}) = G
  BY DEF Tools, Beside
<1>5. Grouped(s.turns) = Grouped(p)
  BY <1>3, <1>4 DEF Pane
<1> HIDE DEF u, x
<1>6. u.turns \in Seq(Still) /\ Append(p, x) \in Seq(Still) /\ u.turns \o u.inflight = u.turns
  BY <1>1, <1>2, <1>3
<1>7. Grouped(Append(s.turns, x)) = Joined(Grouped(s.turns), x)
      /\ Grouped(Append(p, x)) = Joined(Grouped(p), x)
  BY <1>2, <1>3, GroupedOn
<1>8. Active(<<>>) = {}
  BY DEF Active, Range
<1>9. Pane(u, Append(p, x), {})
  BY <1>1, <1>4, <1>5, <1>6, <1>7, <1>8 DEF Pane
<1> QED BY <1>1, <1>6, <1>9 DEF u, x

-----------------------------------------------------------------------------
(* The screen against the core                                              *)

\* What each of the three properties is proved under: the situations that
\* do not occur, or the only ones that do.
QueueTold == Upsets \cap {"start", "new"} = {}
BusyTold  == Upsets \subseteq {"start", "exhaust", "calls", "final", "reload"}
PaneTold  == Upsets \subseteq {"start", "summary", "ask", "compact", "status"}

\* The run, a live one "fresh" until it has said something; the runs that work,
\* that are behind a busy screen, that may be behind the status of a compaction.
Mode     == IF run = "live" /\ ~progressed THEN "fresh" ELSE run
Working  == {"live", "fresh"}
Alive    == {"live", "fresh", "compacting", "failed", "compacted"}
Compacts == {"fresh", "compacting", "failed", "compacted"}
Quiet    == {"none", "ended", "overflowed"}

\* The screen s against a path, its running calls, a run, a queue and a retry.
KeepsQueue(s, q)   == QueueTold => s.steered = q
KeepsBusy(s, r, w) ==
    BusyTold => /\ s.busy <=> (r \in Alive \/ w)
                /\ s.streaming => s.busy
                /\ s.compacting => r \in Compacts
KeepsPane(s, p, R, r, w) ==
    PaneTold => (r # "compacted" =>
                    /\ Pane(s, p, R)
                    /\ s.inflight # <<>> => (r \in {"live", "fresh", "failed"} \/ w))
Fits(s, p, R, r, q, w) ==
    s \in Screens /\ KeepsQueue(s, q) /\ KeepsBusy(s, r, w) /\ KeepsPane(s, p, R, r, w)

\* The outcomes that are nothing to the screen.
LEMMA FitsQuiet ==
    ASSUME NEW s, NEW p, NEW q, NEW r \in Quiet, NEW r2 \in Quiet,
           Fits(s, p, {}, r, q, FALSE)
    PROVE  Fits(s, p, {}, r2, q, FALSE)
BY DEF Fits, KeepsBusy, KeepsPane, Quiet, Alive, Compacts

LEMMA FitsToken ==
    ASSUME NEW s, NEW p \in Seq(Still), NEW q, NEW w \in BOOLEAN, NEW r \in Working,
           Fits(s, p, {}, r, q, w)
    PROVE  Fits(TokenReceived(s), WithText(p), {}, "live", q, w) /\ WithText(p) \in Seq(Still)
<1>1. s \in Screens /\ TokenReceived(s) \in Screens
  BY ScreensStay DEF Fits
<1>2. 0 \in Nat /\ TRUE \in BOOLEAN
  OBVIOUS
<1>3. /\ TokenReceived(s).steered = s.steered
      /\ TokenReceived(s).busy /\ ~TokenReceived(s).compacting
  BY <1>1, <1>2, SteeredIs, BusyIs
<1>4. WithText(p) \in Seq(Still)
  <2>1. Text \in Still /\ Still \in SUBSET Block /\ p \in Seq(Block) /\ <<>> \in Seq(Block)
    BY StillBlocks
  <2> QED BY <2>1, GroupedText
<1>5. Pane(s, p, {}) => Pane(TokenReceived(s), WithText(p), {})
  BY <1>1, PaneToken
<1> QED BY <1>1, <1>3, <1>4, <1>5
        DEF Fits, KeepsQueue, KeepsBusy, KeepsPane, Alive, Compacts, Working

LEMMA FitsStarted ==
    ASSUME NEW s, NEW p \in Seq(Still), NEW R \in SUBSET Nat, NEW q, NEW w \in BOOLEAN,
           NEW r \in Working, Fits(s, p, R, r, q, w), NEW c \in Nat
    PROVE  Fits(ToolStarted(s, c), p, R \cup {c}, "live", q, w)
<1>1. s \in Screens /\ ToolStarted(s, c) \in Screens
  BY ScreensStay DEF Fits
<1>3. /\ ToolStarted(s, c).steered = s.steered
      /\ ToolStarted(s, c).busy /\ ~ToolStarted(s, c).compacting
  BY <1>1 DEF Screens, ToolStarted, Live, Busy
<1>4. Pane(s, p, R) => Pane(ToolStarted(s, c), p, R \cup {c})
  BY <1>1, PaneToolStarted
<1> QED BY <1>1, <1>3, <1>4
        DEF Fits, KeepsQueue, KeepsBusy, KeepsPane, Alive, Compacts, Working

LEMMA FitsFinished ==
    ASSUME NEW s, NEW p \in Seq(Still), NEW R \in SUBSET Nat, NEW q, NEW w \in BOOLEAN,
           NEW r \in Working, Fits(s, p, R, r, q, w), NEW c \in R
    PROVE  /\ Fits(ToolFinished(s, c), Append(p, Tool(c, "ok")), R \ {c}, "live", q, w)
           /\ Append(p, Tool(c, "ok")) \in Seq(Still)
<1>1. s \in Screens /\ ToolFinished(s, c) \in Screens /\ c \in Nat
  BY ScreensStay DEF Fits
<1>3. /\ ToolFinished(s, c).steered = s.steered
      /\ ToolFinished(s, c).busy = s.busy /\ ToolFinished(s, c).streaming = s.streaming
      /\ ~ToolFinished(s, c).compacting
  BY <1>1 DEF Screens, ToolFinished
<1>4. Pane(s, p, R) => Pane(ToolFinished(s, c), Append(p, Tool(c, "ok")), R \ {c})
  BY <1>1, PaneToolFinished
<1>5. Append(p, Tool(c, "ok")) \in Seq(Still)
  <2>1. Tool(c, "ok") \in Still
    BY <1>1, StillBlocks
  <2> QED BY <2>1
<1> QED BY <1>1, <1>3, <1>4, <1>5
        DEF Fits, KeepsQueue, KeepsBusy, KeepsPane, Alive, Compacts, Working

LEMMA FitsDone ==
    ASSUME NEW s, NEW p \in Seq(Still), NEW q, NEW w \in BOOLEAN, NEW r \in Working,
           Fits(s, p, {}, r, q, w), NEW r2 \in Quiet
    PROVE  Fits(CommitDone(s), p, {}, r2, q, FALSE)
<1>1. s \in Screens /\ CommitDone(s) \in Screens
  BY ScreensStay DEF Fits
<1>2. TRUE \in BOOLEAN /\ 0 \in Nat
  OBVIOUS
<1>3. /\ CommitDone(s).steered = s.steered
      /\ ~CommitDone(s).busy /\ ~CommitDone(s).streaming /\ ~CommitDone(s).compacting
  BY <1>1, <1>2, SteeredIs, BusyIs
<1>4. Pane(s, p, {}) => Pane(CommitDone(s), p, {}) /\ CommitDone(s).inflight = <<>>
  BY <1>1, PaneOver
<1> QED BY <1>1, <1>3, <1>4
        DEF Fits, KeepsQueue, KeepsBusy, KeepsPane, Alive, Quiet, Working

\* The end of a turn, cut or not: its calls are killed.
LEMMA FitsCut ==
    ASSUME NEW s, NEW p \in Seq(Still), NEW R \in SUBSET Nat, IsFiniteSet(R), NEW q, NEW r,
           NEW w, r # "compacted", Fits(s, p, R, r, q, w),
           NEW r2 \in Quiet
    PROVE  /\ Fits(CommitInterrupted(s), p \o Calls(R, "killed"), {}, r2, q, FALSE)
           /\ p \o Calls(R, "killed") \in Seq(Still)
           /\ p \o Calls({}, "killed") = p
<1>1. s \in Screens /\ CommitInterrupted(s) \in Screens
  BY ScreensStay DEF Fits
<1>2. TRUE \in BOOLEAN /\ 0 \in Nat /\ p \in Seq(Block)
  BY StillBlocks
<1>3. /\ CommitInterrupted(s).steered = s.steered
      /\ ~CommitInterrupted(s).busy /\ ~CommitInterrupted(s).streaming
      /\ ~CommitInterrupted(s).compacting
  BY <1>1, <1>2, SteeredIs, BusyIs
<1>4. Pane(s, p, R) => /\ Pane(CommitInterrupted(s), p \o Calls(R, "killed"), {})
                       /\ CommitInterrupted(s).inflight = <<>>
  BY <1>1, PaneCut
<1>5. p \o Calls(R, "killed") \in Seq(Still)
  <2>1. Calls(R, "killed") \in Seq(Still)
    BY CallsAre
  <2> QED BY <2>1, JoinIs
<1>6. p \o Calls({}, "killed") = p
  BY <1>2, NoCalls
<1> QED BY <1>1, <1>3, <1>4, <1>5, <1>6
        DEF Fits, KeepsQueue, KeepsBusy, KeepsPane, Alive, Quiet

\* The same with no call running.
LEMMA FitsOver ==
    ASSUME NEW s, NEW p \in Seq(Still), NEW q, NEW r, NEW w, r # "compacted",
           Fits(s, p, {}, r, q, w), NEW r2 \in Quiet
    PROVE  Fits(CommitInterrupted(s), p, {}, r2, q, FALSE)
<1>1. {} \in SUBSET Nat /\ IsFiniteSet({})
  BY FS_EmptySet
<1> QED BY <1>1, FitsCut

\* An error told of a turn that goes on, or that cannot start.
LEMMA FitsError ==
    ASSUME NEW s, NEW p, NEW R, NEW q, NEW r, NEW w, Fits(s, p, R, r, q, w),
           NEW q2, NEW r2, NEW w2, NEW p2, NEW R2,
           ~PaneTold, QueueTold => q2 = q, BusyTold => r2 \in Quiet /\ ~w2
    PROVE  Fits(CommitInterrupted(s), p2, R2, r2, q2, w2)
<1>1. s \in Screens /\ CommitInterrupted(s) \in Screens
  BY ScreensStay DEF Fits
<1>2. TRUE \in BOOLEAN /\ 0 \in Nat
  OBVIOUS
<1>3. /\ CommitInterrupted(s).steered = s.steered
      /\ ~CommitInterrupted(s).busy /\ ~CommitInterrupted(s).streaming
      /\ ~CommitInterrupted(s).compacting
  BY <1>1, <1>2, SteeredIs, BusyIs
<1> QED BY <1>1, <1>3 DEF Fits, KeepsQueue, KeepsBusy, KeepsPane, Alive, Quiet

LEMMA FitsRetry ==
    ASSUME NEW s, NEW p \in Seq(Still), NEW q, Fits(s, p, {}, "failed", q, FALSE)
    PROVE  Fits(RetryScheduled(s), p, {}, "none", q, TRUE)
<1>1. s \in Screens /\ RetryScheduled(s) \in Screens
  BY ScreensStay DEF Fits
<1>2. TRUE \in BOOLEAN /\ 0 \in Nat
  OBVIOUS
<1>3. /\ RetryScheduled(s).steered = s.steered
      /\ RetryScheduled(s).busy /\ ~RetryScheduled(s).compacting
  BY <1>1, <1>2, SteeredIs, BusyIs
<1>4. Pane(s, p, {}) => Pane(RetryScheduled(s), p, {})
  BY <1>1, PaneOver
<1> QED BY <1>1, <1>3, <1>4 DEF Fits, KeepsQueue, KeepsBusy, KeepsPane

\* A prompt; a steered one is the first of the queue.
LEMMA FitsPrompt ==
    ASSUME NEW s, NEW p \in Seq(Still), NEW q, Fits(s, p, {}, "none", q, FALSE), NEW n \in Nat
    PROVE  /\ Fits(BeginUserTurn(s, n, FALSE), Append(p, Prompt(n)), {}, "fresh", q, FALSE)
           /\ q # <<>> =>
                Fits(BeginUserTurn(s, n, TRUE), Append(p, Prompt(n)), {}, "fresh", Tail(q), FALSE)
           /\ Append(p, Prompt(n)) \in Seq(Still)
<1>1. /\ s \in Screens /\ BeginUserTurn(s, n, FALSE) \in Screens
      /\ BeginUserTurn(s, n, TRUE) \in Screens /\ TRUE \in BOOLEAN /\ FALSE \in BOOLEAN
  BY ScreensStay DEF Fits
<1>2. /\ BeginUserTurn(s, n, FALSE).steered = s.steered
      /\ s.steered # <<>> => BeginUserTurn(s, n, TRUE).steered = Tail(s.steered)
      /\ BeginUserTurn(s, n, FALSE).busy /\ ~BeginUserTurn(s, n, FALSE).compacting
      /\ BeginUserTurn(s, n, TRUE).busy /\ ~BeginUserTurn(s, n, TRUE).compacting
  <2>1. /\ BeginUserTurn(s, n, FALSE).steered = s.steered
        /\ BeginUserTurn(s, n, TRUE).steered = IF s.steered = <<>> THEN <<>> ELSE Tail(s.steered)
    BY <1>1, SteeredIs
  <2>2. \A b \in BOOLEAN : BeginUserTurn(s, n, b).busy /\ ~BeginUserTurn(s, n, b).compacting
    BY <1>1, BusyIs
  <2> QED BY <1>1, <2>1, <2>2
<1>3. ASSUME NEW b \in BOOLEAN, PaneTold
      PROVE  Pane(BeginUserTurn(s, n, b), Append(p, Prompt(n)), {})
  <2>1. Pane(s, p, {}) /\ s.inflight = <<>>
    BY <1>3 DEF Fits, KeepsPane
  <2> QED BY <1>1, <2>1, PanePrompt
<1>4. Append(p, Prompt(n)) \in Seq(Still)
  <2>1. Prompt(n) \in Still
    BY StillBlocks
  <2> QED BY <2>1
<1>5. KeepsPane(BeginUserTurn(s, n, FALSE), Append(p, Prompt(n)), {}, "fresh", FALSE)
      /\ KeepsPane(BeginUserTurn(s, n, TRUE), Append(p, Prompt(n)), {}, "fresh", FALSE)
  BY <1>1, <1>3 DEF KeepsPane
<1>6. /\ KeepsQueue(BeginUserTurn(s, n, FALSE), q)
      /\ q # <<>> => KeepsQueue(BeginUserTurn(s, n, TRUE), Tail(q))
  BY <1>2 DEF Fits, KeepsQueue
<1>7. KeepsBusy(BeginUserTurn(s, n, FALSE), "fresh", FALSE)
      /\ KeepsBusy(BeginUserTurn(s, n, TRUE), "fresh", FALSE)
  BY <1>2 DEF KeepsBusy, Alive
<1> QED BY <1>1, <1>4, <1>5, <1>6, <1>7 DEF Fits

\* The queue grows, loses its last, is wiped.
LEMMA FitsQueue ==
    ASSUME NEW s, NEW p, NEW R, NEW r, NEW q \in Seq(Nat), NEW w, Fits(s, p, R, r, q, w)
    PROVE  /\ \A n \in Nat : Fits(SteeredQueued(s, n), p, R, r, Append(q, n), w)
           /\ q # <<>> => Fits(SteeredRecalled(s), p, R, r, Front(q), w)
           /\ Fits(SteeredCleared(s), p, R, r, <<>>, w)
<1>1. s \in Screens /\ TRUE \in BOOLEAN /\ 0 \in Nat
  BY DEF Fits
<1>2. ASSUME NEW u \in Screens, u.turns = s.turns, u.inflight = s.inflight, u.busy = s.busy,
             u.streaming = s.streaming, u.compacting = s.compacting
      PROVE  KeepsBusy(u, r, w) /\ KeepsPane(u, p, R, r, w)
  <2>1. Pane(s, p, R) <=> Pane(u, p, R)
    BY <1>2, PaneSame
  <2> QED BY <2>1, <1>2 DEF Fits, KeepsBusy, KeepsPane
<1>3. ASSUME NEW n \in Nat PROVE Fits(SteeredQueued(s, n), p, R, r, Append(q, n), w)
  <2>1. SteeredQueued(s, n) \in Screens /\ SteeredQueued(s, n).steered = Append(s.steered, n)
    BY <1>1, ScreensStay, SteeredIs
  <2>2. /\ SteeredQueued(s, n).turns = s.turns /\ SteeredQueued(s, n).inflight = s.inflight
        /\ SteeredQueued(s, n).busy = s.busy /\ SteeredQueued(s, n).streaming = s.streaming
        /\ SteeredQueued(s, n).compacting = s.compacting
    BY <1>1 DEF Screens, SteeredQueued
  <2>3. KeepsBusy(SteeredQueued(s, n), r, w) /\ KeepsPane(SteeredQueued(s, n), p, R, r, w)
    BY <1>2, <2>1, <2>2
  <2> QED BY <2>1, <2>3 DEF Fits, KeepsQueue
<1>4. ASSUME q # <<>> PROVE Fits(SteeredRecalled(s), p, R, r, Front(q), w)
  <2>1. SteeredRecalled(s) \in Screens
        /\ SteeredRecalled(s).steered = IF s.steered = <<>> THEN <<>> ELSE Front(s.steered)
    BY <1>1, ScreensStay, SteeredIs
  <2>2. /\ SteeredRecalled(s).turns = s.turns /\ SteeredRecalled(s).inflight = s.inflight
        /\ SteeredRecalled(s).busy = s.busy /\ SteeredRecalled(s).streaming = s.streaming
        /\ SteeredRecalled(s).compacting = s.compacting
    BY <1>1 DEF Screens, SteeredRecalled
  <2>3. KeepsBusy(SteeredRecalled(s), r, w) /\ KeepsPane(SteeredRecalled(s), p, R, r, w)
    BY <1>2, <2>1, <2>2
  <2> QED BY <1>4, <2>1, <2>3 DEF Fits, KeepsQueue
<1>5. Fits(SteeredCleared(s), p, R, r, <<>>, w)
  <2>1. SteeredCleared(s) \in Screens /\ SteeredCleared(s).steered = <<>>
    BY <1>1, ScreensStay, SteeredIs
  <2>2. /\ SteeredCleared(s).turns = s.turns /\ SteeredCleared(s).inflight = s.inflight
        /\ SteeredCleared(s).busy = s.busy /\ SteeredCleared(s).streaming = s.streaming
        /\ SteeredCleared(s).compacting = s.compacting
    BY <1>1 DEF Screens, SteeredCleared
  <2>3. KeepsBusy(SteeredCleared(s), r, w) /\ KeepsPane(SteeredCleared(s), p, R, r, w)
    BY <1>2, <2>1, <2>2
  <2> QED BY <2>1, <2>3 DEF Fits, KeepsQueue
<1> QED BY <1>3, <1>4, <1>5

\* A reload.
LEMMA FitsReload ==
    ASSUME NEW s, NEW q, s \in Screens, KeepsQueue(s, q), NEW p \in Seq(Still)
    PROVE  /\ \A b \in BOOLEAN : \A r : \A w :
                 (BusyTold => /\ (s.busy /\ ~b) <=> (r \in Alive \/ w)
                              /\ (s.compacting /\ ~b) => r \in Compacts) =>
                     Fits(Forked(s, p, b), p, {}, r, q, w)
           /\ \A r : \A w :
                 (BusyTold => (s.busy <=> (r \in Alive \/ w))) =>
                     Fits(SessionLoaded(s, p), p, {}, r, q, w)
           /\ \A r \in Quiet : Fits(SessionCompacted(s, p), p, {}, r, q, FALSE)
<1>1. 0 \in Nat /\ TRUE \in BOOLEAN
  OBVIOUS
<1>2. ASSUME NEW b \in BOOLEAN, NEW r, NEW w,
             BusyTold => /\ (s.busy /\ ~b) <=> (r \in Alive \/ w)
                         /\ (s.compacting /\ ~b) => r \in Compacts
      PROVE  Fits(Forked(s, p, b), p, {}, r, q, w)
  <2>1. Forked(s, p, b) \in Screens
    BY <1>1, ScreensStay
  <2>2. /\ Forked(s, p, b).turns = p /\ Forked(s, p, b).inflight = <<>>
        /\ Forked(s, p, b).steered = s.steered
    BY DEF Screens, Forked, ApplySession, Idle
  <2>3. /\ Forked(s, p, b).busy = (s.busy /\ ~b) /\ ~Forked(s, p, b).streaming
        /\ Forked(s, p, b).compacting = (s.compacting /\ ~b)
    BY <1>1, BusyIs
  <2>4. Pane(Forked(s, p, b), p, {})
    BY <2>2, PaneReload
  <2>5. KeepsBusy(Forked(s, p, b), r, w)
    BY <1>2, <2>3 DEF KeepsBusy
  <2> QED BY <2>1, <2>2, <2>4, <2>5 DEF Fits, KeepsQueue, KeepsPane
<1>3. ASSUME NEW r, NEW w, BusyTold => (s.busy <=> (r \in Alive \/ w))
      PROVE  Fits(SessionLoaded(s, p), p, {}, r, q, w)
  <2>1. SessionLoaded(s, p) \in Screens
    BY <1>1, ScreensStay
  <2>2. /\ SessionLoaded(s, p).turns = p /\ SessionLoaded(s, p).inflight = <<>>
        /\ SessionLoaded(s, p).steered = s.steered
    BY DEF Screens, SessionLoaded, ApplySession
  <2>3. /\ SessionLoaded(s, p).busy = s.busy /\ ~SessionLoaded(s, p).streaming
        /\ ~SessionLoaded(s, p).compacting
    BY DEF Screens, SessionLoaded, ApplySession
  <2>4. Pane(SessionLoaded(s, p), p, {})
    BY <2>2, PaneReload
  <2>5. KeepsBusy(SessionLoaded(s, p), r, w)
    BY <1>3, <2>3 DEF KeepsBusy
  <2> QED BY <2>1, <2>2, <2>4, <2>5 DEF Fits, KeepsQueue, KeepsPane
<1>4. ASSUME NEW r \in Quiet PROVE Fits(SessionCompacted(s, p), p, {}, r, q, FALSE)
  <2>1. SessionCompacted(s, p) \in Screens
    BY <1>1, ScreensStay
  <2>2. /\ SessionCompacted(s, p).turns = p /\ SessionCompacted(s, p).inflight = <<>>
        /\ SessionCompacted(s, p).steered = s.steered
    BY DEF Screens, SessionCompacted, ApplySession, Idle
  <2>3. /\ ~SessionCompacted(s, p).busy /\ ~SessionCompacted(s, p).streaming
        /\ ~SessionCompacted(s, p).compacting
    BY <1>1, BusyIs
  <2>4. Pane(SessionCompacted(s, p), p, {})
    BY <2>2, PaneReload
  <2>5. KeepsBusy(SessionCompacted(s, p), r, FALSE)
    BY <2>3, <1>4 DEF KeepsBusy, Quiet, Alive
  <2> QED BY <2>1, <2>2, <2>4, <2>5 DEF Fits, KeepsQueue, KeepsPane
<1> QED BY <1>2, <1>3, <1>4

\* A screen that differs in its signs of life only, and rightly.
LEMMA FitsAlike ==
    ASSUME NEW s, NEW p, NEW R, NEW r, NEW q, NEW w, Fits(s, p, R, r, q, w),
           NEW u, Alike(u, s), KeepsBusy(u, r, w)
    PROVE  Fits(u, p, R, r, q, w)
<1>1. u \in Screens /\ u.turns = s.turns /\ u.inflight = s.inflight /\ u.steered = s.steered
  BY DEF Alike
<1>2. Pane(s, p, R) <=> Pane(u, p, R)
  BY <1>1, PaneSame
<1> QED BY <1>1, <1>2 DEF Fits, KeepsQueue, KeepsPane

\* An error that is no word of a turn is lost on a screen that is not
\* waiting for a compaction.
LEMMA FitsErrorShown ==
    ASSUME NEW s, NEW p, NEW R, NEW r, NEW q, NEW w, Fits(s, p, R, r, q, w),
           BusyTold => r \notin Compacts
    PROVE  Fits(ShowError(s), p, R, r, q, w)
<1>1. s \in Screens
  BY DEF Fits
<1>2. Alike(ShowError(s), s) /\ (~s.compacting => ShowError(s) = s)
  BY <1>1, SignsAre
<1>3. KeepsBusy(ShowError(s), r, w)
  BY <1>2 DEF Fits, KeepsBusy
<1> QED BY <1>2, <1>3, FitsAlike

\* The status of a compaction, and an error that ends it.
LEMMA FitsCompaction ==
    ASSUME NEW s, NEW p, NEW R, NEW q, Fits(s, p, R, "none", q, FALSE)
    PROVE  /\ CompactionSaid(s) \in Screens /\ KeepsQueue(CompactionSaid(s), q)
           /\ Fits(ShowError(CompactionSaid(s)), p, R, "none", q, FALSE)
<1> DEFINE u == CompactionSaid(s)
           v == ShowError(u)
<1>1. s \in Screens
  BY DEF Fits
<1>2. Alike(u, s) /\ u.compacting /\ u \in Screens
  BY <1>1, SignsAre DEF Alike
<1>3. Alike(v, u) /\ ~v.busy /\ ~v.compacting
  <2> HIDE DEF u
  <2> QED BY <1>2, SignsAre
<1> HIDE DEF u, v
<1>4. Alike(v, s)
  BY <1>2, <1>3 DEF Alike
<1>5. KeepsBusy(v, "none", FALSE)
  BY <1>3, <1>4 DEF Fits, KeepsBusy, Alike, Alive
<1>6. KeepsQueue(u, q)
  BY <1>2 DEF Fits, KeepsQueue, Alike
<1>7. Fits(v, p, R, "none", q, FALSE)
  BY <1>4, <1>5, FitsAlike
<1> QED BY <1>2, <1>6, <1>7 DEF u, v

-----------------------------------------------------------------------------
(* The invariant                                                            *)

Runs == {"none", "live", "compacting", "ended", "failed", "compacted", "overflowed"}

TypeOK ==
    /\ path \in Seq(Still) /\ running \in SUBSET (1..calls) /\ run \in Runs
    /\ progressed \in BOOLEAN /\ cancelled \in BOOLEAN
    /\ queue \in Seq(Nat) /\ retry \in BOOLEAN /\ asks \in SUBSET Nat
    /\ budget \in [turn : Nat, overflow : Nat]
    /\ events \in Seq(Events) /\ screen \in Screens
    /\ prompts \in Nat /\ calls \in Nat /\ failures \in Nat /\ commands \in Nat

\* A retry waits without a run; calls run in one.
Alone == (retry => run = "none") /\ (running # {} => run = "live")

\* What the screen will be, once it has read the channel, fits the core.
Follows == \E s : Fits(s, path, running, Mode, queue, retry) /\ Reads(screen, events, s)

IInv == TypeOK /\ Alone /\ Follows

-----------------------------------------------------------------------------
(* The channel                                                              *)

LEMMA ShownType ==
    ASSUME NEW s \in Screens, NEW e \in Events
    PROVE  Shown(s, e) \in Screens
<1>1. CASE e \in [is : Plain]
  <2>1. e = Event(e.is) /\ e.is \in Plain
    BY <1>1 DEF Event
  <2>3. \A is \in Plain : Shown(s, Event(is)) \in Screens
    <3>3. /\ Shown(s, Event("TokenReceived")) \in Screens
          /\ Shown(s, Event("StreamDone")) \in Screens
          /\ Shown(s, Event("StreamError")) \in Screens
          /\ Shown(s, Event("StreamCancelled")) \in Screens
          /\ Shown(s, Event("RetryScheduled")) \in Screens
          /\ Shown(s, Event("SteeredRecalled")) \in Screens
          /\ Shown(s, Event("SteeredCleared")) \in Screens
      BY ShownPlain, ScreensStay
    <3>4. /\ Shown(s, Event("CompactionStarted")) \in Screens
          /\ Shown(s, Event("CompactionFinished")) \in Screens
          /\ Shown(s, Event("SessionError")) \in Screens
      BY ShownPlain, ScreensStay
    <3> QED BY <3>3, <3>4 DEF Plain
  <2> QED BY <2>1, <2>3
<1>2. CASE e \in [is : Numbered, id : Nat]
  <2>1. e = EventOf(e.is, e.id) /\ e.is \in Numbered /\ e.id \in Nat
    BY <1>2 DEF EventOf
  <2>2. \A is \in Numbered : \A n \in Nat : Shown(s, EventOf(is, n)) \in Screens
    <3>1. ASSUME NEW n \in Nat
          PROVE  /\ Shown(s, EventOf("ToolStarted", n)) \in Screens
                 /\ Shown(s, EventOf("ToolFinished", n)) \in Screens
                 /\ Shown(s, EventOf("PromptSteered", n)) \in Screens
                 /\ Shown(s, EventOf("TurnStarted", n)) \in Screens
                 /\ Shown(s, EventOf("SteeredStarted", n)) \in Screens
                 /\ Shown(s, EventOf("Asked", n)) \in Screens
      <4>1. /\ ToolStarted(s, n) \in Screens /\ ToolFinished(s, n) \in Screens
            /\ SteeredQueued(s, n) \in Screens
            /\ BeginUserTurn(s, n, FALSE) \in Screens /\ BeginUserTurn(s, n, TRUE) \in Screens
            /\ Busy(s) \in Screens
        BY ScreensStay
      <4> QED BY <4>1 DEF Shown, EventOf
    <3> QED BY <3>1 DEF Numbered
  <2> QED BY <2>1, <2>2
<1>3. CASE e \in [is : Reloads, blocks : Seq(Still)]
  <2>1. e = Reload(e.is, e.blocks) /\ e.is \in Reloads /\ e.blocks \in Seq(Still)
    BY <1>3 DEF Reload
  <2>2. \A is \in Reloads : \A bs \in Seq(Still) : Shown(s, Reload(is, bs)) \in Screens
    <3>1. ASSUME NEW bs \in Seq(Still)
          PROVE  /\ Shown(s, Reload("SessionLoaded", bs)) \in Screens
                 /\ Shown(s, Reload("SessionCompacted", bs)) \in Screens
      <4>1. SessionLoaded(s, bs) \in Screens /\ SessionCompacted(s, bs) \in Screens
        BY ScreensStay
      <4> QED BY <4>1 DEF Shown, Reload
    <3> QED BY <3>1 DEF Reloads
  <2> QED BY <2>1, <2>2
<1>4. CASE e \in [is : {"Forked"}, blocks : Seq(Still), prompt : BOOLEAN]
  <2>1. e = Fork(e.blocks, e.prompt) /\ e.blocks \in Seq(Still) /\ e.prompt \in BOOLEAN
    BY <1>4 DEF Fork
  <2>2. \A bs \in Seq(Still) : \A b \in BOOLEAN : Shown(s, Fork(bs, b)) \in Screens
    <3> TAKE bs \in Seq(Still), b \in BOOLEAN
    <3>1. Forked(s, bs, b) \in Screens
      BY ScreensStay
    <3> QED BY <3>1 DEF Shown, Fork
  <2> QED BY <2>1, <2>2
<1> QED BY <1>1, <1>2, <1>3, <1>4 DEF Events

\* The screen can always read on to the end.
LEMMA ReadsExist ==
    ASSUME NEW scr \in Screens, NEW es \in Seq(Events)
    PROVE  \E s \in Screens : Reads(scr, es, s)
<1> DEFINE Bad == {n \in Nat : \E fs \in Seq(Events) :
                      Len(fs) = n /\ ~ \E s \in Screens : Reads(scr, fs, s)}
<1>1. Bad = {}
  <2> SUFFICES ASSUME Bad # {} PROVE FALSE
    OBVIOUS
  <2>1. Bad \in SUBSET Nat
    OBVIOUS
  <2>2. PICK n \in Bad : \A y \in Bad : n <= y
    <3> HIDE DEF Bad
    <3> QED BY <2>1, LeastIsIn
  <2>3. PICK fs \in Seq(Events) : Len(fs) = n /\ ~ \E s \in Screens : Reads(scr, fs, s)
    BY <2>2
  <2>4. CASE n = 0
    <3>1. fs = <<>>
      BY <2>3, <2>4
    <3>2. Reads(scr, fs, scr)
      BY <3>1, ReadsNothing
    <3> QED BY <2>3, <3>2
  <2>5. CASE n # 0
    <3> DEFINE gs == SubSeq(fs, 1, Len(fs) - 1)
               e == fs[Len(fs)]
    <3>1. /\ gs \in Seq(Events) /\ e \in Events /\ fs = Append(gs, e)
          /\ Len(gs) = n - 1 /\ n \in Nat \ {0}
      BY <2>3, <2>5, FrontLast
    <3> HIDE DEF gs, e
    <3>2. n - 1 \in Nat /\ n - 1 \notin Bad
      <4> HIDE DEF Bad
      <4> QED BY <3>1, <2>1, <2>2
    <3>3. PICK s \in Screens : Reads(scr, gs, s)
      BY <3>1, <3>2
    <3>4. Shown(s, e) \in Screens /\ Reads(scr, fs, Shown(s, e))
      BY <3>1, <3>3, ShownType, ReadsOn
    <3> QED BY <2>3, <3>4
  <2> QED BY <2>4, <2>5
<1>2. Len(es) \in Nat
  OBVIOUS
<1> QED BY <1>1, <1>2

\* Screens that differ in their signs of life only, after the same event.
LEMMA HandledSame ==
    ASSUME NEW s \in Screens, NEW u, Alike(u, s)
    PROVE  /\ Alike(TokenReceived(u), TokenReceived(s))
           /\ Alike(CommitDone(u), CommitDone(s))
           /\ Alike(CommitInterrupted(u), CommitInterrupted(s))
           /\ Alike(RetryScheduled(u), RetryScheduled(s))
           /\ Alike(SteeredRecalled(u), SteeredRecalled(s))
           /\ Alike(SteeredCleared(u), SteeredCleared(s))
           /\ \A n \in Nat : /\ Alike(ToolStarted(u, n), ToolStarted(s, n))
                             /\ Alike(ToolFinished(u, n), ToolFinished(s, n))
                             /\ Alike(SteeredQueued(u, n), SteeredQueued(s, n))
                             /\ \A b \in BOOLEAN :
                                   Alike(BeginUserTurn(u, n, b), BeginUserTurn(s, n, b))
           /\ \A bs \in Seq(Still) : /\ Alike(SessionLoaded(u, bs), SessionLoaded(s, bs))
                                     /\ Alike(SessionCompacted(u, bs), SessionCompacted(s, bs))
                                     /\ \A b \in BOOLEAN :
                                           Alike(Forked(u, bs, b), Forked(s, bs, b))
<1>1. /\ u \in Screens /\ u.turns = s.turns /\ u.inflight = s.inflight
      /\ u.streaming = s.streaming /\ u.steered = s.steered
  BY DEF Alike
<1>3. Alike(TokenReceived(u), TokenReceived(s))
  <2>1. TokenReceived(u) \in Screens
    BY <1>1, ScreensStay
  <2> QED BY <1>1, <2>1 DEF Alike, Screens, TokenReceived, Live, Busy
<1>4. Alike(CommitDone(u), CommitDone(s))
  <2>1. CommitDone(u) \in Screens
    BY <1>1, ScreensStay
  <2> QED BY <1>1, <2>1 DEF Alike, Screens, CommitDone, Commit, Idle
<1>5. Alike(CommitInterrupted(u), CommitInterrupted(s))
  <2>1. CommitInterrupted(u) \in Screens
    BY <1>1, ScreensStay
  <2> QED BY <1>1, <2>1 DEF Alike, Screens, CommitInterrupted, Commit, Idle
<1>6. Alike(RetryScheduled(u), RetryScheduled(s))
  <2>1. RetryScheduled(u) \in Screens
    BY <1>1, ScreensStay
  <2> QED BY <1>1, <2>1 DEF Alike, Screens, RetryScheduled, Busy
<1>7. Alike(SteeredRecalled(u), SteeredRecalled(s))
  <2>1. SteeredRecalled(u) \in Screens
    BY <1>1, ScreensStay
  <2> QED BY <1>1, <2>1 DEF Alike, Screens, SteeredRecalled
<1>8. Alike(SteeredCleared(u), SteeredCleared(s))
  <2>1. SteeredCleared(u) \in Screens
    BY <1>1, ScreensStay
  <2> QED BY <1>1, <2>1 DEF Alike, Screens, SteeredCleared
<1>9. ASSUME NEW n \in Nat
      PROVE  /\ Alike(ToolStarted(u, n), ToolStarted(s, n))
             /\ Alike(ToolFinished(u, n), ToolFinished(s, n))
             /\ Alike(SteeredQueued(u, n), SteeredQueued(s, n))
             /\ \A b \in BOOLEAN : Alike(BeginUserTurn(u, n, b), BeginUserTurn(s, n, b))
  <2>1. Alike(ToolStarted(u, n), ToolStarted(s, n))
    <3>1. ToolStarted(u, n) \in Screens
      BY <1>1, ScreensStay
    <3> QED BY <1>1, <3>1 DEF Alike, Screens, ToolStarted, Live, Busy
  <2>2. Alike(ToolFinished(u, n), ToolFinished(s, n))
    <3>1. ToolFinished(u, n) \in Screens
      BY <1>1, ScreensStay
    <3> QED BY <1>1, <3>1 DEF Alike, Screens, ToolFinished
  <2>3. Alike(SteeredQueued(u, n), SteeredQueued(s, n))
    <3>1. SteeredQueued(u, n) \in Screens
      BY <1>1, ScreensStay
    <3> QED BY <1>1, <3>1 DEF Alike, Screens, SteeredQueued
  <2>4. ASSUME NEW b \in BOOLEAN PROVE Alike(BeginUserTurn(u, n, b), BeginUserTurn(s, n, b))
    <3>1. BeginUserTurn(u, n, b) \in Screens
      BY <1>1, ScreensStay
    <3> QED BY <1>1, <3>1 DEF Alike, Screens, BeginUserTurn, Busy
  <2> QED BY <2>1, <2>2, <2>3, <2>4
<1>10. ASSUME NEW bs \in Seq(Still)
       PROVE  /\ Alike(SessionLoaded(u, bs), SessionLoaded(s, bs))
              /\ Alike(SessionCompacted(u, bs), SessionCompacted(s, bs))
              /\ \A b \in BOOLEAN : Alike(Forked(u, bs, b), Forked(s, bs, b))
  <2>1. ASSUME NEW b \in BOOLEAN
        PROVE  /\ Alike(SessionLoaded(u, bs), SessionLoaded(s, bs))
               /\ Alike(SessionCompacted(u, bs), SessionCompacted(s, bs))
               /\ Alike(Forked(u, bs, b), Forked(s, bs, b))
    <3>1. /\ SessionLoaded(u, bs) \in Screens /\ SessionCompacted(u, bs) \in Screens
          /\ Forked(u, bs, b) \in Screens
      BY <1>1, ScreensStay
    <3>2. Alike(SessionLoaded(u, bs), SessionLoaded(s, bs))
      BY <1>1, <3>1 DEF Alike, Screens, SessionLoaded, ApplySession
    <3>3. Alike(SessionCompacted(u, bs), SessionCompacted(s, bs))
      BY <1>1, <3>1 DEF Alike, Screens, SessionCompacted, ApplySession, Idle
    <3>4. Alike(Forked(u, bs, b), Forked(s, bs, b))
      BY <1>1, <3>1 DEF Alike, Screens, Forked, ApplySession, Idle
    <3> QED BY <3>2, <3>3, <3>4
  <2>2. TRUE \in BOOLEAN
    OBVIOUS
  <2> QED BY <2>1, <2>2
<1> QED BY <1>3, <1>4, <1>5, <1>6, <1>7, <1>8, <1>9, <1>10

LEMMA ShownSame ==
    ASSUME NEW s \in Screens, NEW u, Alike(u, s), NEW e \in Events
    PROVE  Alike(Shown(u, e), Shown(s, e))
<1>0. u \in Screens /\ u.turns = s.turns /\ u.inflight = s.inflight
      /\ u.streaming = s.streaming /\ u.steered = s.steered
  BY DEF Alike
<1>s. /\ Alike(CompactionSaid(u), CompactionSaid(s))
      /\ Alike(ShowError(u), ShowError(s)) /\ Alike(Busy(u), Busy(s))
  <2>1. CompactionSaid(u) \in Screens /\ ShowError(u) \in Screens /\ Busy(u) \in Screens
    BY <1>0, ScreensStay
  <2> QED BY <1>0, <2>1 DEF Alike, Screens, CompactionSaid, ShowError, Idle, Busy
<1>1. CASE e \in [is : Plain]
  <2>1. e = Event(e.is) /\ e.is \in Plain
    BY <1>1 DEF Event
  <2>2. \A is \in Plain : Alike(Shown(u, Event(is)), Shown(s, Event(is)))
    <3>1. /\ Alike(Shown(u, Event("TokenReceived")), Shown(s, Event("TokenReceived")))
          /\ Alike(Shown(u, Event("StreamDone")), Shown(s, Event("StreamDone")))
          /\ Alike(Shown(u, Event("StreamError")), Shown(s, Event("StreamError")))
          /\ Alike(Shown(u, Event("StreamCancelled")), Shown(s, Event("StreamCancelled")))
          /\ Alike(Shown(u, Event("RetryScheduled")), Shown(s, Event("RetryScheduled")))
          /\ Alike(Shown(u, Event("SteeredRecalled")), Shown(s, Event("SteeredRecalled")))
          /\ Alike(Shown(u, Event("SteeredCleared")), Shown(s, Event("SteeredCleared")))
      BY ShownPlain, HandledSame
    <3>2. /\ Alike(Shown(u, Event("CompactionStarted")), Shown(s, Event("CompactionStarted")))
          /\ Alike(Shown(u, Event("CompactionFinished")), Shown(s, Event("CompactionFinished")))
          /\ Alike(Shown(u, Event("SessionError")), Shown(s, Event("SessionError")))
      BY <1>s, ShownPlain
    <3> QED BY <3>1, <3>2 DEF Plain
  <2> QED BY <2>1, <2>2
<1>2. CASE e \in [is : Numbered, id : Nat]
  <2>1. e = EventOf(e.is, e.id) /\ e.is \in Numbered /\ e.id \in Nat
    BY <1>2 DEF EventOf
  <2>2. \A is \in Numbered : \A n \in Nat :
           Alike(Shown(u, EventOf(is, n)), Shown(s, EventOf(is, n)))
    <3>1. ASSUME NEW n \in Nat, NEW is \in Numbered
          PROVE  Alike(Shown(u, EventOf(is, n)), Shown(s, EventOf(is, n)))
      <4>0. /\ Alike(ToolStarted(u, n), ToolStarted(s, n))
            /\ Alike(ToolFinished(u, n), ToolFinished(s, n))
            /\ Alike(SteeredQueued(u, n), SteeredQueued(s, n))
            /\ Alike(BeginUserTurn(u, n, FALSE), BeginUserTurn(s, n, FALSE))
            /\ Alike(BeginUserTurn(u, n, TRUE), BeginUserTurn(s, n, TRUE))
        BY HandledSame
      <4>1. \A x : /\ Shown(x, EventOf("ToolStarted", n)) = ToolStarted(x, n)
                   /\ Shown(x, EventOf("ToolFinished", n)) = ToolFinished(x, n)
                   /\ Shown(x, EventOf("TurnStarted", n)) = BeginUserTurn(x, n, FALSE)
                   /\ Shown(x, EventOf("SteeredStarted", n)) = BeginUserTurn(x, n, TRUE)
                   /\ Shown(x, EventOf("PromptSteered", n)) = SteeredQueued(x, n)
                   /\ Shown(x, EventOf("Asked", n)) = Busy(x)
        BY ShownOther
      <4>2. is \in {"ToolStarted", "ToolFinished", "TurnStarted", "SteeredStarted",
                    "PromptSteered", "Asked"}
        BY DEF Numbered
      <4> QED BY <1>s, <4>0, <4>1, <4>2
    <3> QED BY <3>1
  <2> QED BY <2>1, <2>2
<1>3. CASE e \in [is : Reloads, blocks : Seq(Still)]
  <2>1. e = Reload(e.is, e.blocks) /\ e.is \in Reloads /\ e.blocks \in Seq(Still)
    BY <1>3 DEF Reload
  <2>2. \A is \in Reloads : \A bs \in Seq(Still) :
           Alike(Shown(u, Reload(is, bs)), Shown(s, Reload(is, bs)))
    <3>1. ASSUME NEW bs \in Seq(Still)
          PROVE  /\ Alike(Shown(u, Reload("SessionLoaded", bs)),
                          Shown(s, Reload("SessionLoaded", bs)))
                 /\ Alike(Shown(u, Reload("SessionCompacted", bs)),
                          Shown(s, Reload("SessionCompacted", bs)))
      <4>1. \A x : /\ Shown(x, Reload("SessionLoaded", bs)) = SessionLoaded(x, bs)
                   /\ Shown(x, Reload("SessionCompacted", bs)) = SessionCompacted(x, bs)
        BY ShownOther
      <4>2. /\ Alike(SessionLoaded(u, bs), SessionLoaded(s, bs))
            /\ Alike(SessionCompacted(u, bs), SessionCompacted(s, bs))
        BY HandledSame
      <4> QED BY <4>1, <4>2
    <3> QED BY <3>1 DEF Reloads
  <2> QED BY <2>1, <2>2
<1>4. CASE e \in [is : {"Forked"}, blocks : Seq(Still), prompt : BOOLEAN]
  <2>1. e = Fork(e.blocks, e.prompt) /\ e.blocks \in Seq(Still) /\ e.prompt \in BOOLEAN
    BY <1>4 DEF Fork
  <2>2. \A bs \in Seq(Still) : \A b \in BOOLEAN :
           Alike(Shown(u, Fork(bs, b)), Shown(s, Fork(bs, b)))
    <3> TAKE bs \in Seq(Still), b \in BOOLEAN
    <3>1. \A x : Shown(x, Fork(bs, b)) = Forked(x, bs, b)
      BY ShownOther
    <3>2. Alike(Forked(u, bs, b), Forked(s, bs, b))
      BY HandledSame
    <3> QED BY <3>1, <3>2
  <2> QED BY <2>1, <2>2
<1> QED BY <1>1, <1>2, <1>3, <1>4 DEF Events

\* Such screens are still alike when both have read the channel.
LEMMA ReadsSame ==
    ASSUME NEW scr \in Screens, NEW es \in Seq(Events), NEW s, Reads(scr, es, s),
           NEW u, Alike(u, scr)
    PROVE  \E t : Reads(u, es, t) /\ Alike(t, s)
<1>1. PICK f : /\ f[0] = scr
               /\ f[Len(es)] = s
               /\ \A i \in 1..Len(es) : f[i] = Shown(f[i - 1], es[i])
  BY DEF Reads
<1>2. PICK x \in Screens : Reads(u, es, x)
  BY ReadsExist DEF Alike
<1>3. PICK g : /\ g[0] = u
               /\ g[Len(es)] = x
               /\ \A i \in 1..Len(es) : g[i] = Shown(g[i - 1], es[i])
  BY <1>2 DEF Reads
<1> DEFINE n == Len(es)
           Bad == {i \in 0..n : ~(f[i] \in Screens /\ Alike(g[i], f[i]))}
<1>4. n \in Nat /\ \A i \in 1..n : es[i] \in Events
  OBVIOUS
<1>5. Bad = {}
  <2> SUFFICES ASSUME Bad # {} PROVE FALSE
    OBVIOUS
  <2>1. Bad \in SUBSET Nat
    BY <1>4
  <2>2. PICK m \in Bad : \A y \in Bad : m <= y
    <3> HIDE DEF Bad
    <3> QED BY <2>1, LeastIsIn
  <2>3. m \in 0..n /\ ~(f[m] \in Screens /\ Alike(g[m], f[m]))
    BY <2>2
  <2>4. m # 0
    BY <1>1, <1>3, <2>3
  <2>5. m \in 1..n /\ m - 1 \in 0..n /\ ~(m <= m - 1)
    BY <1>4, <2>3, <2>4
  <2>6. m - 1 \notin Bad
    <3> HIDE DEF Bad
    <3> QED BY <2>2, <2>5
  <2>7. f[m - 1] \in Screens /\ Alike(g[m - 1], f[m - 1])
    BY <2>5, <2>6
  <2>8. es[m] \in Events /\ f[m] = Shown(f[m - 1], es[m]) /\ g[m] = Shown(g[m - 1], es[m])
    BY <1>1, <1>3, <1>4, <2>5
  <2>9. Shown(f[m - 1], es[m]) \in Screens
        /\ Alike(Shown(g[m - 1], es[m]), Shown(f[m - 1], es[m]))
    BY <2>7, <2>8, ShownType, ShownSame
  <2> QED BY <2>3, <2>8, <2>9
<1>6. n \in 0..n
  BY <1>4
<1>7. Alike(g[n], f[n])
  BY <1>5, <1>6
<1> QED BY <1>1, <1>2, <1>3, <1>7

\* Events sent behind the others are read behind them.
LEMMA Sent ==
    ASSUME events \in Seq(Events), NEW s, Reads(screen, events, s),
           NEW es \in Seq(Events), NEW u, Reads(s, es, u), Emit(es), screen' = screen
    PROVE  events' \in Seq(Events) /\ Reads(screen', events', u)
<1>1. events' = events \o es
  BY DEF Emit
<1>2. events \o es \in Seq(Events)
  BY JoinIs
<1>3. Reads(screen, events \o es, u)
  BY ReadsMore
<1> QED BY <1>1, <1>2, <1>3

\* The calls that run are finitely many.
LEMMA Finite ==
    ASSUME TypeOK
    PROVE  running \in SUBSET Nat /\ IsFiniteSet(running)
<1>1. IsFiniteSet(1..calls)
  BY FS_Interval DEF TypeOK
<1>2. IsFiniteSet(running)
  BY <1>1, FS_Subset DEF TypeOK
<1>3. 1..calls \in SUBSET Nat
  BY DEF TypeOK
<1> QED BY <1>2, <1>3 DEF TypeOK

-----------------------------------------------------------------------------
(* What the handlers share                                                  *)

\* An error that is no word of a turn, behind other events.
LEMMA Errs ==
    ASSUME events \in Seq(Events), NEW s, Reads(screen, events, s),
           NEW es \in Seq(Events), NEW v, Reads(s, es, v),
           NEW p, NEW R, NEW r, NEW q, NEW w, Fits(ShowError(v), p, R, r, q, w),
           Emit(es \o <<Event("SessionError")>>), screen' = screen
    PROVE  events' \in Seq(Events)
           /\ \E u : Reads(screen', events', u) /\ Fits(u, p, R, r, q, w)
<1> DEFINE e == Event("SessionError")
<1>1. e \in Events /\ Shown(v, e) = ShowError(v)
  BY EventsAre, ShownPlain DEF Plain
<1>2. Emit(es \o <<e>>)
  OBVIOUS
<1> HIDE DEF e
<1>3. Reads(s, es \o <<e>>, ShowError(v))
  <2>1. Reads(s, es \o <<e>>, Shown(v, e))
    BY <1>1, ReadsEach
  <2> QED BY <1>1, <2>1
<1>4. es \o <<e>> \in Seq(Events)
  <2>1. <<e>> \in Seq(Events)
    BY <1>1
  <2> QED BY <2>1, JoinIs
<1>5. events' \in Seq(Events) /\ Reads(screen', events', ShowError(v))
  BY <1>2, <1>3, <1>4, Sent
<1> QED BY <1>5

\* The same behind nothing.
LEMMA ErrsOnly ==
    ASSUME events \in Seq(Events), NEW s, Reads(screen, events, s),
           NEW p, NEW R, NEW r, NEW q, NEW w, Fits(s, p, R, r, q, w),
           BusyTold => r \notin Compacts,
           Emit(<<Event("SessionError")>>) \/ Emit(<<>> \o <<Event("SessionError")>>),
           screen' = screen
    PROVE  events' \in Seq(Events)
           /\ \E u : Reads(screen', events', u) /\ Fits(u, p, R, r, q, w)
<1> DEFINE e == Event("SessionError")
<1>1. <<>> \o <<e>> = <<e>>
  OBVIOUS
<1>2. Emit(<<>> \o <<e>>)
  BY <1>1
<1>3. <<>> \in Seq(Events) /\ Reads(s, <<>>, s)
  BY ReadsNothing
<1>4. Fits(ShowError(s), p, R, r, q, w)
  BY FitsErrorShown
<1> QED BY <1>2, <1>3, <1>4, Errs

\* The two events of a compaction, behind others.
LEMMA CompactionRead ==
    ASSUME NEW s, NEW es \in Seq(Events), NEW v \in Screens, Reads(s, es, v)
    PROVE  /\ es \o CompactionEvents \in Seq(Events)
           /\ Reads(s, es \o CompactionEvents, CompactionSaid(v))
<1> DEFINE a == Event("CompactionStarted")
           b == Event("CompactionFinished")
           u == CompactionSaid(v)
<1>1. a \in Events /\ b \in Events
  BY EventsAre DEF Plain
<1>2. Shown(v, a) = u /\ Shown(u, b) = CompactionSaid(u)
  BY ShownPlain
<1>3. CompactionSaid(u) = u
  BY DEF Screens, CompactionSaid
<1>4. CompactionEvents = <<a, b>>
  BY DEF CompactionEvents
<1> HIDE DEF a, b, u
<1>5. Reads(s, es \o <<a, b>>, u)
  <2>1. Reads(s, es \o <<a, b>>, Shown(Shown(v, a), b))
    BY <1>1, ReadsEach
  <2> QED BY <2>1, <1>2, <1>3
<1>6. es \o <<a, b>> \in Seq(Events)
  <2>1. <<a, b>> \in Seq(Events)
    BY <1>1
  <2> QED BY <2>1, JoinIs
<1> QED BY <1>4, <1>5, <1>6 DEF u

\* A compaction that fails, behind other events: the path may have changed,
\* where the pane is not told.
LEMMA CompactionErrs ==
    ASSUME events \in Seq(Events), NEW s, Reads(screen, events, s),
           NEW es \in Seq(Events), NEW v, Reads(s, es, v),
           NEW p, NEW q, Fits(v, p, {}, "none", q, FALSE),
           Emit((es \o CompactionEvents) \o <<Event("SessionError")>>), screen' = screen
    PROVE  events' \in Seq(Events)
           /\ \E u : Reads(screen', events', u) /\ Fits(u, p, {}, "none", q, FALSE)
<1> DEFINE fs == es \o CompactionEvents
           x == CompactionSaid(v)
<1>1. v \in Screens
  BY DEF Fits
<1>2. fs \in Seq(Events) /\ Reads(s, fs, x)
  BY <1>1, CompactionRead
<1>3. Fits(ShowError(x), p, {}, "none", q, FALSE)
  BY FitsCompaction
<1>4. Emit(fs \o <<Event("SessionError")>>)
  OBVIOUS
<1> HIDE DEF fs, x
<1> QED BY <1>2, <1>3, <1>4, Errs

\* A path the pane is not told of fits as well.
LEMMA FitsUntold ==
    ASSUME NEW s, NEW p, NEW R, NEW r, NEW q, NEW w, Fits(s, p, R, r, q, w), ~PaneTold,
           NEW p2
    PROVE  Fits(s, p2, R, r, q, w)
BY DEF Fits, KeepsPane

\* Where a handler that starts a turn, or none, leaves things.
Landed ==
    /\ path' \in Seq(Still) /\ running' = {} /\ run' \in {"live", "none"}
    /\ progressed' \in BOOLEAN /\ cancelled' \in BOOLEAN
    /\ queue' \in Seq(Nat) /\ events' \in Seq(Events)
    /\ Follows'

LEMMA Starts ==
    ASSUME events \in Seq(Events), NEW s, Reads(screen, events, s), NEW p \in Seq(Still),
           NEW q \in Seq(Nat), NEW before \in Seq(Events), NEW u, Reads(s, before, u),
           Fits(u, p, {}, "none", q, FALSE), NEW n \in Nat, NEW name,
           \/ name = "TurnStarted" /\ queue' = q
           \/ name = "SteeredStarted" /\ q # <<>> /\ queue' = Tail(q),
           StartUserTurn(p, n, name, before), screen' = screen, retry' = FALSE
    PROVE  Landed
<1> DEFINE a == EventOf(name, n)
           e == Event("StreamError")
           v == BeginUserTurn(u, n, name = "SteeredStarted")
           p2 == Append(p, Prompt(n))
<1>1. a \in Events /\ e \in Events
  BY EventsAre DEF Numbered, Plain
<1>2. Shown(u, a) = v
  BY ShownOther
<1>3. Shown(u, e) = CommitInterrupted(u) /\ Shown(v, e) = CommitInterrupted(v)
  BY ShownPlain
<1>4. Fits(v, p2, {}, "fresh", queue', FALSE) /\ p2 \in Seq(Still)
  BY FitsPrompt
<1>5. queue' \in Seq(Nat)
  <2>1. q # <<>> => Tail(q) \in Seq(Nat)
    OBVIOUS
  <2> QED BY <2>1
<1>6. /\ before \o <<a>> \in Seq(Events) /\ before \o <<e>> \in Seq(Events)
      /\ before \o <<a, e>> \in Seq(Events)
  <2>1. <<a>> \in Seq(Events) /\ <<e>> \in Seq(Events) /\ <<a, e>> \in Seq(Events)
    BY <1>1
  <2> HIDE DEF a, e
  <2> QED BY <2>1, JoinIs
<1> HIDE DEF a, e, v, p2
<1>7. /\ Reads(s, before \o <<a>>, v)
      /\ Reads(s, before \o <<e>>, CommitInterrupted(u))
      /\ Reads(s, before \o <<a, e>>, CommitInterrupted(v))
  <2>1. Reads(s, before \o <<a>>, Shown(u, a))
    BY <1>1, ReadsEach
  <2>2. Reads(s, before \o <<e>>, Shown(u, e))
    BY <1>1, ReadsEach
  <2>3. Reads(s, before \o <<a, e>>, Shown(Shown(u, a), e))
    BY <1>1, ReadsEach
  <2> QED BY <1>2, <1>3, <2>1, <2>2, <2>3
<1>8. CASE path' = p2 /\ NewRequest /\ Emit(before \o <<a>>)
  <2>1. events' \in Seq(Events) /\ Reads(screen', events', v)
    BY <1>6, <1>7, <1>8, Sent
  <2>2. Fits(v, path', running', Mode', queue', retry')
    BY <1>4, <1>8 DEF NewRequest, Request, Mode
  <2> QED BY <1>4, <1>5, <1>8, <2>1, <2>2 DEF Landed, Follows, NewRequest, Request
<1>9. CASE path' = p2 /\ NoRequest /\ Emit(before \o <<a, e>>)
  <2>1. events' \in Seq(Events) /\ Reads(screen', events', CommitInterrupted(v))
    BY <1>6, <1>7, <1>9, Sent
  <2>2. Fits(CommitInterrupted(v), p2, {}, "none", queue', FALSE)
    BY <1>4, FitsOver DEF Quiet
  <2>3. Fits(CommitInterrupted(v), path', running', Mode', queue', retry')
    BY <2>2, <1>9 DEF NoRequest, Request, Mode
  <2> QED BY <1>4, <1>5, <1>9, <2>1, <2>3 DEF Landed, Follows, NoRequest, Request
<1>10. CASE Allowed("start") /\ path' = p /\ NoRequest /\ Emit(before \o <<e>>)
  <2>1. events' \in Seq(Events) /\ Reads(screen', events', CommitInterrupted(u))
    BY <1>6, <1>7, <1>10, Sent
  <2>2. Fits(CommitInterrupted(u), p, {}, "none", q, FALSE) /\ ~QueueTold
    BY <1>10, FitsOver DEF Quiet, QueueTold, Allowed
  <2>3. Fits(CommitInterrupted(u), path', running', Mode', queue', retry')
    BY <2>2, <1>10 DEF NoRequest, Request, Mode, Fits, KeepsQueue
  <2> QED BY <1>5, <1>10, <2>1, <2>3 DEF Landed, Follows, NoRequest, Request
<1> QED BY <1>8, <1>9, <1>10 DEF StartUserTurn, a, e, p2

LEMMA Dispatches ==
    ASSUME events \in Seq(Events), queue \in Seq(Nat), NEW s, Reads(screen, events, s),
           NEW p \in Seq(Still), NEW before \in Seq(Events), NEW u, Reads(s, before, u),
           Fits(u, p, {}, "none", queue, FALSE),
           DispatchNext(p, before), screen' = screen, retry' = FALSE
    PROVE  Landed
<1>1. CASE queue = <<>>
  <2>1. path' = p /\ NoRequest /\ Emit(before) /\ queue' = queue
    BY <1>1 DEF DispatchNext
  <2>2. events' \in Seq(Events) /\ Reads(screen', events', u)
    BY <2>1, Sent
  <2>3. Fits(u, path', running', Mode', queue', retry')
    BY <2>1 DEF NoRequest, Request, Mode
  <2> QED BY <2>1, <2>2, <2>3 DEF Landed, Follows, NoRequest, Request
<1>2. CASE queue # <<>>
  <2>1. queue' = Tail(queue) /\ StartUserTurn(p, Head(queue), "SteeredStarted", before)
    BY <1>2 DEF DispatchNext
  <2>2. Head(queue) \in Nat
    BY <1>2
  <2> QED BY <1>2, <2>1, <2>2, Starts
<1> QED BY <1>1, <1>2

LEMMA Resumes ==
    ASSUME events \in Seq(Events), queue \in Seq(Nat), path \in Seq(Still),
           NEW s \in Screens, KeepsQueue(s, queue), Reads(screen, events, s),
           NEW es \in Seq(Events), NEW u, Reads(s, es, u),
           Fits(u, path, {}, "fresh", queue, FALSE),
           Resume(es), screen' = screen, retry' = FALSE, queue' = queue
    PROVE  Landed
<1> DEFINE e == Event("StreamError")
<1>1. e \in Events
  BY EventsAre DEF Plain
<1>2. Shown(u, e) = CommitInterrupted(u)
  BY ShownPlain
<1> HIDE DEF e
<1>3. es \o <<e>> \in Seq(Events) /\ Reads(s, es \o <<e>>, CommitInterrupted(u))
  <2>1. <<e>> \in Seq(Events)
    BY <1>1
  <2>2. Reads(s, es \o <<e>>, Shown(u, e))
    BY <1>1, ReadsEach
  <2> QED BY <2>1, <2>2, <1>2, JoinIs
<1>4. CASE path' = path /\ NewRequest /\ Emit(es)
  <2>1. events' \in Seq(Events) /\ Reads(screen', events', u)
    BY <1>4, Sent
  <2>2. Fits(u, path', running', Mode', queue', retry')
    BY <1>4 DEF NewRequest, Request, Mode
  <2> QED BY <1>4, <2>1, <2>2 DEF Landed, Follows, NewRequest, Request
<1>5. CASE path' = path /\ NoRequest /\ Emit(es \o <<e>>)
  <2>1. events' \in Seq(Events) /\ Reads(screen', events', CommitInterrupted(u))
    BY <1>3, <1>5, Sent
  <2>2. Fits(CommitInterrupted(u), path, {}, "none", queue, FALSE)
    BY FitsOver DEF Quiet
  <2>3. Fits(CommitInterrupted(u), path', running', Mode', queue', retry')
    BY <2>2, <1>5 DEF NoRequest, Request, Mode
  <2> QED BY <1>5, <2>1, <2>3 DEF Landed, Follows, NoRequest, Request
<1>6. CASE Allowed("resume") /\ path' = path /\ NoRequest /\ Silent
  <2>1. ~BusyTold /\ ~PaneTold
    BY <1>6 DEF BusyTold, PaneTold, Allowed
  <2>2. Fits(s, path', running', Mode', queue', retry')
    BY <2>1 DEF Fits, KeepsBusy, KeepsPane
  <2> QED BY <1>6, <2>2 DEF Landed, Follows, NoRequest, Request, Silent
<1> QED BY <1>4, <1>5, <1>6 DEF Resume, e

-----------------------------------------------------------------------------
(* The actions                                                              *)

\* One event sent, two, three.
LEMMA SentFew ==
    ASSUME events \in Seq(Events), NEW s, Reads(screen, events, s), screen' = screen,
           NEW a \in Events, NEW b \in Events, NEW c \in Events
    PROVE  /\ Emit(<<a>>) => events' \in Seq(Events) /\ Reads(screen', events', Shown(s, a))
           /\ Emit(<<a, b>>) => /\ events' \in Seq(Events)
                                /\ Reads(screen', events', Shown(Shown(s, a), b))
           /\ Emit(<<a, b, c>>) => /\ events' \in Seq(Events)
                                   /\ Reads(screen', events', Shown(Shown(Shown(s, a), b), c))
<1>1. /\ Reads(s, <<a>>, Shown(s, a)) /\ <<a>> \in Seq(Events)
      /\ Reads(s, <<a, b>>, Shown(Shown(s, a), b)) /\ <<a, b>> \in Seq(Events)
      /\ Reads(s, <<a, b, c>>, Shown(Shown(Shown(s, a), b), c)) /\ <<a, b, c>> \in Seq(Events)
  BY ReadsFew
<1> QED BY <1>1, Sent

\* clear_steered, as the screen reads it.
LEMMA Clears ==
    ASSUME queue \in Seq(Nat), NEW s, NEW p, NEW R, NEW r, NEW w, Fits(s, p, R, r, queue, w)
    PROVE  /\ Cleared \in Seq(Events)
           /\ \E u : Reads(s, Cleared, u) /\ Fits(u, p, R, r, <<>>, w)
<1> DEFINE e == Event("SteeredCleared")
<1>1. e \in Events
  BY EventsAre DEF Plain
<1>2. Shown(s, e) = SteeredCleared(s)
  BY ShownPlain
<1> HIDE DEF e
<1>3. CASE queue = <<>>
  <2>1. Cleared = <<>> /\ Reads(s, <<>>, s) /\ <<>> \in Seq(Events)
    BY <1>3, ReadsNothing DEF Cleared
  <2> QED BY <1>3, <2>1
<1>4. CASE queue # <<>>
  <2>1. Cleared = <<e>>
    BY <1>4 DEF Cleared, e
  <2>2. Reads(s, <<e>>, Shown(s, e)) /\ <<e>> \in Seq(Events)
    BY <1>1, ReadsFew
  <2>3. Fits(SteeredCleared(s), p, R, r, <<>>, w)
    BY FitsQueue
  <2> QED BY <1>2, <2>1, <2>2, <2>3
<1> QED BY <1>3, <1>4

\* A handler that starts a turn, or none, keeps the invariant.
LEMMA LandedIs ==
    ASSUME Landed, retry' = FALSE, budget' \in [turn : Nat, overflow : Nat], screen' \in Screens,
           asks' \in SUBSET Nat, prompts' \in Nat, calls' \in Nat, failures' \in Nat,
           commands' \in Nat
    PROVE  IInv'
BY DEF Landed, IInv, TypeOK, Alone, Runs

LEMMA ShowStep ==
    ASSUME IInv, Show
    PROVE  IInv'
<1>1. PICK s : Fits(s, path, running, Mode, queue, retry) /\ Reads(screen, events, s)
  BY DEF IInv, Follows
<1>2. events \in Seq(Events) /\ events # <<>> /\ screen \in Screens
  BY DEF IInv, TypeOK, Show
<1>3. Head(events) \in Events /\ Tail(events) \in Seq(Events)
  BY <1>2
<1>4. screen' \in Screens
  BY <1>2, <1>3, ShownType DEF Show
<1>5. Reads(screen', events', s)
  BY <1>1, <1>2, ReadsFirst DEF Show
<1>6. Follows'
  BY <1>1, <1>5 DEF Show, core, turn, Follows, Mode
<1> QED BY <1>3, <1>4, <1>6 DEF IInv, TypeOK, Alone, Show, core, turn, bounds

\* A prompt cannot be sent, with whatever the screen makes of the news.
LEMMA TellsError ==
    ASSUME IInv, Emit(<<Event("StreamError")>>), UNCHANGED <<core, screen>>,
           \/ ~IsBusy /\ ~Reporting
           \/ ~PaneTold /\ ~BusyTold
    PROVE  events' \in Seq(Events) /\ Follows'
<1>1. PICK s : Fits(s, path, running, Mode, queue, retry) /\ Reads(screen, events, s)
  BY DEF IInv, Follows
<1> DEFINE e == Event("StreamError")
           u == CommitInterrupted(s)
<1>2. e \in Events /\ Shown(s, e) = u
  BY EventsAre, ShownPlain DEF Plain
<1>3. events' \in Seq(Events) /\ Reads(screen', events', u)
  BY <1>1, <1>2, SentFew DEF IInv, TypeOK
<1>4. Fits(u, path, running, Mode, queue, retry)
  <2>1. CASE ~IsBusy /\ ~Reporting
    <3>1. run = "none" /\ retry = FALSE /\ running = {} /\ path \in Seq(Still)
      BY <2>1 DEF IInv, TypeOK, Alone, Runs, IsBusy, Streaming, Reporting
    <3>2. Mode = "none" /\ "none" # "compacted" /\ "none" \in Quiet
      BY <3>1 DEF Mode, Quiet
    <3>3. Fits(s, path, {}, "none", queue, FALSE)
      BY <3>1, <3>2, <1>1
    <3>4. Fits(u, path, {}, "none", queue, FALSE)
      BY <3>1, <3>2, <3>3, FitsOver
    <3> QED BY <3>1, <3>2, <3>4
  <2>2. CASE ~PaneTold /\ ~BusyTold
    BY <2>2, <1>1, FitsError
  <2> QED BY <2>1, <2>2
<1>5. Follows'
  BY <1>3, <1>4 DEF Follows, core, turn, Mode
<1> QED BY <1>3, <1>5

LEMMA SendMessageStep ==
    ASSUME IInv, SendMessage
    PROVE  IInv'
<1>1. PICK s : Fits(s, path, running, Mode, queue, retry) /\ Reads(screen, events, s)
  BY DEF IInv, Follows
<1>2. /\ events \in Seq(Events) /\ screen' = screen /\ prompts' \in Nat /\ queue \in Seq(Nat)
      /\ calls' = calls /\ failures' = failures /\ commands' = commands /\ path \in Seq(Still)
      /\ asks' = asks
  BY DEF IInv, TypeOK, SendMessage, ui
<1>3. CASE IsBusy
  <2> DEFINE a == EventOf("PromptSteered", prompts')
  <2>1. a \in Events
    BY <1>2, EventsAre DEF Numbered
  <2>2. Shown(s, a) = SteeredQueued(s, prompts')
    BY DEF Shown, EventOf
  <2>3. /\ queue' = Append(queue, prompts') /\ Emit(<<a>>)
        /\ UNCHANGED <<path, running, run, progressed, cancelled, retry, budget>>
    BY <1>3 DEF SendMessage, turn
  <2> HIDE DEF a
  <2>4. events' \in Seq(Events) /\ Reads(screen', events', SteeredQueued(s, prompts'))
    BY <1>1, <1>2, <2>1, <2>2, <2>3, SentFew
  <2>5. Fits(SteeredQueued(s, prompts'), path, running, Mode, Append(queue, prompts'), retry)
    BY <1>1, <1>2, FitsQueue
  <2>6. Follows'
    BY <2>3, <2>4, <2>5 DEF Follows, Mode
  <2>7. Append(queue, prompts') \in Seq(Nat)
    BY <1>2
  <2> QED BY <1>2, <2>3, <2>4, <2>6, <2>7 DEF IInv, TypeOK, Alone
<1>4. CASE ~IsBusy
  <2>1. /\ StartUserTurn(path, prompts', "TurnStarted", <<>>)
        /\ budget' = NoRetries /\ queue' = queue /\ retry' = FALSE
        /\ run = "none" /\ retry = FALSE /\ running = {}
    <3>1. ~Reporting /\ retry = FALSE
      BY <1>4 DEF SendMessage, IInv, TypeOK, IsBusy
    <3>2. run = "none" /\ running = {}
      BY <1>4, <3>1 DEF IInv, TypeOK, Alone, Runs, IsBusy, Streaming, Reporting
    <3>3. /\ StartUserTurn(path, prompts', "TurnStarted", <<>>)
          /\ budget' = NoRetries /\ queue' = queue /\ retry' = retry
      BY <1>4 DEF SendMessage
    <3> QED BY <3>1, <3>2, <3>3
  <2>2. Reads(s, <<>>, s) /\ <<>> \in Seq(Events) /\ Fits(s, path, {}, "none", queue, FALSE)
    <3>1. Fits(s, path, {}, "none", queue, FALSE)
      BY <1>1, <2>1 DEF Mode
    <3>2. Reads(s, <<>>, s) /\ <<>> \in Seq(Events)
      BY ReadsNothing
    <3> QED BY <3>1, <3>2
  <2>3. Landed
    BY <1>1, <1>2, <2>1, <2>2, Starts
  <2> QED BY <1>2, <2>1, <2>3, LandedIs DEF IInv, TypeOK, NoRetries
<1> QED BY <1>3, <1>4

LEMMA AttachmentFailsStep ==
    ASSUME IInv, AttachmentFails
    PROVE  IInv'
<1>1. events' \in Seq(Events) /\ Follows'
  BY TellsError DEF AttachmentFails, Allowed, PaneTold, BusyTold, ui
<1> QED BY <1>1 DEF IInv, TypeOK, Alone, AttachmentFails, core, turn, ui

LEMMA CancelFlowStep ==
    ASSUME IInv, CancelFlow
    PROVE  IInv'
BY DEF IInv, TypeOK, Alone, Follows, Mode, CancelFlow, Silent, bounds

LEMMA CancelRetryStep ==
    ASSUME IInv, CancelRetry
    PROVE  IInv'
<1>1. PICK s : Fits(s, path, running, Mode, queue, retry) /\ Reads(screen, events, s)
  BY DEF IInv, Follows
<1> DEFINE e == Event("StreamError")
           u == CommitInterrupted(s)
<1>2. /\ events \in Seq(Events) /\ path \in Seq(Still) /\ queue \in Seq(Nat)
      /\ retry /\ run = "none" /\ running = {}
      /\ retry' = FALSE /\ screen' = screen /\ DispatchNext(path, <<e>>)
  BY DEF IInv, TypeOK, Alone, CancelRetry
<1>3. e \in Events /\ Shown(s, e) = u
  BY EventsAre, ShownPlain DEF Plain
<1>4. Fits(u, path, {}, "none", queue, FALSE)
  <2>1. Fits(s, path, {}, "none", queue, retry)
    BY <1>1, <1>2 DEF Mode
  <2> HIDE DEF u
  <2> QED BY <1>2, <2>1, FitsOver DEF u, Quiet
<1> HIDE DEF e, u
<1>5. Reads(s, <<e>>, u) /\ <<e>> \in Seq(Events)
  BY <1>3, ReadsFew
<1>6. Landed
  BY <1>1, <1>2, <1>4, <1>5, Dispatches
<1> QED BY <1>6, LandedIs DEF IInv, TypeOK, CancelRetry, bounds

LEMMA RecallSteeredStep ==
    ASSUME IInv, RecallSteered
    PROVE  IInv'
<1>1. PICK s : Fits(s, path, running, Mode, queue, retry) /\ Reads(screen, events, s)
  BY DEF IInv, Follows
<1> DEFINE e == Event("SteeredRecalled")
<1>2. e \in Events /\ Shown(s, e) = SteeredRecalled(s)
  BY EventsAre, ShownPlain DEF Plain
<1>3. /\ events \in Seq(Events) /\ screen' = screen /\ queue \in Seq(Nat)
      /\ queue # <<>> /\ queue' = Front(queue) /\ Emit(<<e>>)
  BY DEF IInv, TypeOK, RecallSteered, ui
<1> HIDE DEF e
<1>4. events' \in Seq(Events) /\ Reads(screen', events', SteeredRecalled(s))
  BY <1>1, <1>2, <1>3, SentFew
<1>5. Fits(SteeredRecalled(s), path, running, Mode, Front(queue), retry)
  BY <1>1, <1>3, FitsQueue
<1>6. Follows'
  BY <1>3, <1>4, <1>5 DEF Follows, Mode, RecallSteered, turn
<1>7. Front(queue) \in Seq(Nat)
  <2>1. Len(queue) # 0
    BY <1>3
  <2> QED BY <1>3, <2>1, FrontLast DEF Front
<1> QED BY <1>3, <1>4, <1>6, <1>7 DEF IInv, TypeOK, Alone, RecallSteered, Spend, turn, ui

\* A fork, a branch, a compacted path are conversations in which nothing runs.
LEMMA PathsAre ==
    ASSUME NEW p \in Seq(Still)
    PROVE  /\ BeforeAPrompt(p) \in SUBSET Seq(Still)
           /\ BehindATurn(p) \in SUBSET Seq(Still)
           /\ BeforeARow(p) \in SUBSET Seq(Still)
           /\ \A q \in Seq(Still) : Append(q, Summary) \in Seq(Still)
           /\ Compacted(p) \in SUBSET Seq(Still)
           /\ \A i \in DOMAIN p : SubSeq(p, 1, i - 1) \in Seq(Still)
<1>1. ASSUME NEW i \in DOMAIN p PROVE SubSeq(p, 1, i - 1) \in Seq(Still)
  <2> DEFINE n == i - 1
  <2>1. n \in Nat /\ 1 \in Nat \ {0} /\ n <= Len(p) /\ 1 <= n + 1
    BY <1>1
  <2> HIDE DEF n
  <2>2. SubSeq(p, 1, n) \in Seq(Still)
    BY <2>1, PieceIs
  <2> QED BY <2>2 DEF n
<1>2. ASSUME NEW i \in DOMAIN p PROVE SubSeq(p, 1, i) \in Seq(Still)
  <2>1. i \in Nat /\ 1 \in Nat \ {0} /\ i <= Len(p) /\ 1 <= i + 1
    BY <1>2
  <2> QED BY <2>1, PieceIs
<1>3. ASSUME NEW i \in DOMAIN p PROVE SubSeq(p, i, Len(p)) \in Seq(Still)
  <2> DEFINE n == Len(p)
  <2>1. n \in Nat /\ i \in Nat \ {0} /\ n <= Len(p) /\ i <= n + 1
    BY <1>3
  <2> HIDE DEF n
  <2>2. SubSeq(p, i, n) \in Seq(Still)
    BY <2>1, PieceIs
  <2> QED BY <2>2 DEF n
<1>4. ASSUME NEW i \in DOMAIN p
      PROVE  SubSeq(p, 1, i - 1) \o <<Summary>> \o SubSeq(p, i, Len(p)) \in Seq(Still)
  <2> DEFINE a == SubSeq(p, 1, i - 1)
             b == SubSeq(p, i, Len(p))
             c == <<Summary>>
  <2>1. a \in Seq(Still) /\ b \in Seq(Still) /\ c \in Seq(Still)
    <3>1. Summary \in Still
      BY StillBlocks
    <3>2. c \in Seq(Still)
      BY <3>1
    <3> QED BY <3>2, <1>1, <1>3
  <2> HIDE DEF a, b, c
  <2>2. a \o c \in Seq(Still)
    BY <2>1, JoinIs
  <2>3. (a \o c) \o b \in Seq(Still)
    BY <2>1, <2>2, JoinIs
  <2> QED BY <2>3 DEF a, b, c
<1>5. \A q \in Seq(Still) : Append(q, Summary) \in Seq(Still)
  <2>1. Summary \in Still
    BY StillBlocks
  <2> QED BY <2>1
<1>6. BeforeAPrompt(p) \in SUBSET Seq(Still)
  BY <1>1 DEF BeforeAPrompt
<1>7. BehindATurn(p) \in SUBSET Seq(Still)
  BY <1>2 DEF BehindATurn
<1>8. BeforeARow(p) \in SUBSET Seq(Still)
  BY <1>1 DEF BeforeARow
<1> QED BY <1>1, <1>4, <1>5, <1>6, <1>7, <1>8 DEF Compacted

\* A reload behind other events.
LEMMA Forks ==
    ASSUME events \in Seq(Events), NEW s, Reads(screen, events, s),
           NEW es \in Seq(Events), NEW v \in Screens, Reads(s, es, v), NEW q, KeepsQueue(v, q),
           NEW p \in Seq(Still), NEW b \in BOOLEAN,
           BusyTold => b \/ (~v.busy /\ ~v.compacting),
           Emit(es \o <<Fork(p, b)>>), screen' = screen
    PROVE  events' \in Seq(Events)
           /\ \E u : Reads(screen', events', u) /\ Fits(u, p, {}, "none", q, FALSE)
<1> DEFINE e == Fork(p, b)
           u == Forked(v, p, b)
<1>1. e \in Events
  BY EventsAre
<1>2. Shown(v, e) = u
  BY DEF Shown, Fork
<1>3. Fits(u, p, {}, "none", q, FALSE)
  <2>1. BusyTold => /\ (v.busy /\ ~b) <=> ("none" \in Alive \/ FALSE)
                    /\ (v.compacting /\ ~b) => "none" \in Compacts
    BY DEF Alive, Compacts
  <2> QED BY <2>1, FitsReload
<1> HIDE DEF e, u
<1>4. Reads(s, es \o <<e>>, u)
  BY <1>1, <1>2, ReadsEach
<1>5. es \o <<e>> \in Seq(Events)
  <2>1. <<e>> \in Seq(Events)
    BY <1>1
  <2> QED BY <2>1, JoinIs
<1>6. Emit(es \o <<e>>)
  BY DEF e
<1>7. events' \in Seq(Events) /\ Reads(screen', events', u)
  BY <1>4, <1>5, <1>6, Sent
<1> QED BY <1>3, <1>7

\* The screen, once a cut and what clear_steered tells it have been read.
LEMMA CutClears ==
    ASSUME IInv, ~Reporting, run # "compacting", NEW s,
           Fits(s, path, running, Mode, queue, retry), NEW cut, NEW p,
           cut = IF Streaming THEN <<Event("StreamCancelled")>> ELSE <<>>,
           p = IF Streaming THEN CutPath ELSE path
    PROVE  /\ p \in Seq(Still) /\ cut \o Cleared \in Seq(Events)
           /\ \E v : /\ Reads(s, cut \o Cleared, v)
                     /\ Fits(v, p, {}, "none", <<>>, retry)
<1> DEFINE e == Event("StreamCancelled")
           u == IF Streaming THEN CommitInterrupted(s) ELSE s
<1>1. e \in Events /\ Shown(s, e) = CommitInterrupted(s)
  BY EventsAre, ShownPlain DEF Plain
<1>2. /\ path \in Seq(Still) /\ running \in SUBSET Nat /\ IsFiniteSet(running)
      /\ queue \in Seq(Nat) /\ retry \in BOOLEAN
  BY Finite DEF IInv, TypeOK
<1> HIDE DEF e
<1>3. cut \in Seq(Events) /\ Reads(s, cut, u)
  <2>1. Reads(s, <<e>>, Shown(s, e)) /\ <<e>> \in Seq(Events)
        /\ Reads(s, <<>>, s) /\ <<>> \in Seq(Events)
    BY <1>1, ReadsFew
  <2> QED BY <1>1, <2>1 DEF e
<1>4. p \in Seq(Still) /\ Fits(u, p, {}, "none", queue, retry)
  <2>1. CASE Streaming
    <3>1. run = "live" /\ retry = FALSE /\ p = path \o Calls(running, "killed")
      BY <2>1 DEF IInv, TypeOK, Alone, Streaming, CutPath
    <3>2. /\ Fits(CommitInterrupted(s), path \o Calls(running, "killed"), {}, "none", queue, FALSE)
          /\ path \o Calls(running, "killed") \in Seq(Still)
      <4>1. Mode # "compacted" /\ "none" \in Quiet
        BY <3>1 DEF Mode, Quiet
      <4> QED BY <1>2, <4>1, FitsCut
    <3> QED BY <2>1, <3>1, <3>2
  <2>2. CASE ~Streaming
    <3>1. run = "none" /\ running = {} /\ p = path
      BY <2>2 DEF IInv, TypeOK, Alone, Runs, Streaming, Reporting
    <3>2. Mode = "none"
      BY <3>1 DEF Mode
    <3> QED BY <1>2, <2>2, <3>1, <3>2
  <2> QED BY <2>1, <2>2
<1> HIDE DEF u
<1>5. Cleared \in Seq(Events)
  BY <1>2, <1>4, Clears
<1>6. PICK v : Reads(u, Cleared, v) /\ Fits(v, p, {}, "none", <<>>, retry)
  BY <1>2, <1>4, Clears
<1>7. Reads(s, cut \o Cleared, v)
  BY <1>3, <1>5, <1>6, ReadsMore
<1>8. cut \o Cleared \in Seq(Events)
  BY <1>3, <1>5, JoinIs
<1> QED BY <1>4, <1>6, <1>7, <1>8

\* A core that does nothing.
LEMMA IdleCore ==
    ASSUME IInv, ~Streaming, ~Reporting
    PROVE  run = "none" /\ running = {} /\ Mode = "none"
BY DEF IInv, TypeOK, Alone, Runs, Streaming, Reporting, Mode

\* A retry that is dropped without a word.
LEMMA FitsWait ==
    ASSUME NEW s, NEW p, NEW q, NEW w \in BOOLEAN, Fits(s, p, {}, "none", q, w),
           w => Allowed("wait")
    PROVE  Fits(s, p, {}, "none", q, FALSE)
<1>1. w => ~BusyTold /\ ~PaneTold
  BY DEF BusyTold, PaneTold, Allowed
<1>2. CASE w
  BY <1>1, <1>2 DEF Fits, KeepsBusy, KeepsPane
<1>3. CASE ~w
  <2>1. w = FALSE
    BY <1>3
  <2> QED BY <2>1
<1> QED BY <1>2, <1>3

\* What a fork leaves, in its three ways.
Left(q) == /\ path' \in Seq(Still) /\ events' \in Seq(Events)
           /\ \E u : Reads(screen', events', u) /\ Fits(u, path', {}, "none", q, FALSE)

LEMMA ForkPlainLeaves ==
    ASSUME events \in Seq(Events), NEW s, Reads(screen, events, s), screen' = screen,
           NEW before \in Seq(Events), NEW v, Reads(s, before, v), NEW p \in Seq(Still),
           retry \in BOOLEAN, Fits(v, p, {}, "none", <<>>, retry), ForkPlain(p, before)
    PROVE  Left(<<>>)
<1>1. PICK b \in BOOLEAN : /\ path' \in Seq(Still)
                           /\ Emit(before \o <<Fork(path', b)>>)
                           /\ b \/ (retry => Allowed("wait"))
  BY PathsAre DEF ForkPlain
<1>2. v \in Screens /\ KeepsQueue(v, <<>>) /\ (BusyTold => b \/ (~v.busy /\ ~v.compacting))
  <2>1. BusyTold => ~Allowed("wait")
    BY DEF BusyTold, Allowed
  <2> QED BY <1>1, <2>1 DEF Fits, KeepsBusy, Alive, Compacts
<1>3. /\ events' \in Seq(Events)
      /\ \E u : Reads(screen', events', u) /\ Fits(u, path', {}, "none", <<>>, FALSE)
  BY <1>1, <1>2, Forks
<1> QED BY <1>1, <1>3 DEF Left

LEMMA ForkSummarizedLeaves ==
    ASSUME events \in Seq(Events), NEW s, Reads(screen, events, s), screen' = screen,
           NEW before \in Seq(Events), NEW v, Reads(s, before, v), NEW p \in Seq(Still),
           retry \in BOOLEAN, Fits(v, p, {}, "none", <<>>, retry), ForkSummarized(p, before)
    PROVE  Left(<<>>)
<1> DEFINE fs == before \o CompactionEvents
           x == CompactionSaid(v)
<1>1. v \in Screens /\ KeepsQueue(v, <<>>)
  BY DEF Fits
<1>2. fs \in Seq(Events) /\ Reads(s, fs, x)
  BY <1>1, CompactionRead
<1>3. x \in Screens /\ KeepsQueue(x, <<>>)
  <2>1. Alike(x, v)
    BY <1>1, SignsAre
  <2> QED BY <1>1, <2>1 DEF Alike, KeepsQueue
<1>4. CASE \E q \in BeforeAPrompt(p) :
              /\ q # <<>> /\ path' = Append(q, Summary)
              /\ Emit(fs \o <<Fork(Append(q, Summary), TRUE)>>)
  <2>1. path' \in Seq(Still) /\ Emit(fs \o <<Fork(path', TRUE)>>) /\ TRUE \in BOOLEAN
    <3> HIDE DEF fs
    <3> QED BY <1>4, PathsAre
  <2> HIDE DEF fs, x
  <2>2. /\ events' \in Seq(Events)
        /\ \E u : Reads(screen', events', u) /\ Fits(u, path', {}, "none", <<>>, FALSE)
    BY <1>2, <1>3, <2>1, Forks
  <2> QED BY <2>1, <2>2 DEF Left
<1>5. CASE \E q \in BeforeAPrompt(p) \cup BeforeARow(p) :
              /\ Allowed("summary") /\ path' = Append(q, Summary)
              /\ Emit(fs \o <<Fork(Append(q, Summary), FALSE)>>)
  <2>1. path' \in Seq(Still) /\ Emit(fs \o <<Fork(path', FALSE)>>) /\ FALSE \in BOOLEAN
    <3> HIDE DEF fs
    <3> QED BY <1>5, PathsAre
  <2>2. ~BusyTold
    BY <1>5 DEF BusyTold, Allowed
  <2> HIDE DEF fs, x
  <2>3. /\ events' \in Seq(Events)
        /\ \E u : Reads(screen', events', u) /\ Fits(u, path', {}, "none", <<>>, FALSE)
    BY <1>2, <1>3, <2>1, <2>2, Forks
  <2> QED BY <2>1, <2>3 DEF Left
<1>6. CASE /\ retry => Allowed("wait")
           /\ path' = p /\ Emit(fs \o <<Event("SessionError")>>)
  <2>1. Fits(v, p, {}, "none", <<>>, FALSE)
    BY <1>6, FitsWait
  <2>2. /\ events' \in Seq(Events)
        /\ \E u : Reads(screen', events', u) /\ Fits(u, p, {}, "none", <<>>, FALSE)
    BY <1>6, <2>1, CompactionErrs
  <2> QED BY <1>6, <2>2 DEF Left
<1> QED BY <1>4, <1>5, <1>6 DEF ForkSummarized

LEMMA ForkFailsLeaves ==
    ASSUME events \in Seq(Events), NEW s, Reads(screen, events, s), screen' = screen,
           NEW before \in Seq(Events), NEW v, Reads(s, before, v), NEW p \in Seq(Still),
           retry \in BOOLEAN, Fits(v, p, {}, "none", <<>>, retry), ForkFails(p, before)
    PROVE  Left(<<>>)
<1> DEFINE e == Event("SessionError")
<1>1. Fits(v, p, {}, "none", <<>>, FALSE)
  BY FitsWait DEF ForkFails
<1>2. Fits(ShowError(v), p, {}, "none", <<>>, FALSE)
  BY <1>1, FitsErrorShown DEF Compacts
<1>3. CASE path' = p /\ Emit(before \o <<>>)
  <2>1. before \o <<>> = before
    OBVIOUS
  <2>2. events' \in Seq(Events) /\ Reads(screen', events', v)
    BY <1>3, <2>1, Sent
  <2> QED BY <1>1, <1>3, <2>2 DEF Left
<1>4. CASE path' = p /\ Emit(before \o <<e>>)
  <2>1. /\ events' \in Seq(Events)
        /\ \E u : Reads(screen', events', u) /\ Fits(u, p, {}, "none", <<>>, FALSE)
    BY <1>2, <1>4, Errs
  <2> QED BY <1>4, <2>1 DEF Left
<1>5. CASE \E q \in BehindATurn(p) \cup BeforeAPrompt(p) : NotReloaded(q, before)
  <2>1. PICK q \in BehindATurn(p) \cup BeforeAPrompt(p) : NotReloaded(q, before)
    BY <1>5
  <2>2. q \in Seq(Still)
    BY PathsAre
  <2>3. ~PaneTold /\ path' = q /\ Emit(before \o <<e>>)
    BY <2>1 DEF NotReloaded, PaneTold, Allowed
  <2>4. Fits(ShowError(v), q, {}, "none", <<>>, FALSE)
    BY <1>2, <2>3, FitsUntold
  <2>5. /\ events' \in Seq(Events)
        /\ \E u : Reads(screen', events', u) /\ Fits(u, q, {}, "none", <<>>, FALSE)
    BY <2>3, <2>4, Errs
  <2> QED BY <2>2, <2>3, <2>5 DEF Left
<1> QED BY <1>3, <1>4, <1>5 DEF ForkFails

LEMMA ForkSessionStep ==
    ASSUME IInv, ForkSession
    PROVE  IInv'
<1>1. PICK s : Fits(s, path, running, Mode, queue, retry) /\ Reads(screen, events, s)
  BY DEF IInv, Follows
<1> DEFINE p == IF Streaming THEN CutPath ELSE path
           cut == IF Streaming THEN <<Event("StreamCancelled")>> ELSE <<>>
           before == cut \o Cleared
<1>2. p \in Seq(Still) /\ before \in Seq(Events)
  BY <1>1, CutClears DEF ForkSession
<1>3. PICK v : Reads(s, before, v) /\ Fits(v, p, {}, "none", <<>>, retry)
  BY <1>1, CutClears DEF ForkSession
<1>4. ForkPlain(p, before) \/ ForkSummarized(p, before) \/ ForkFails(p, before)
  BY DEF ForkSession
<1> HIDE DEF p, before, cut
<1>5. /\ events \in Seq(Events) /\ screen' = screen /\ NoRequest /\ queue' = <<>>
      /\ retry' = FALSE /\ budget' \in [turn : Nat, overflow : Nat] /\ retry \in BOOLEAN
      /\ asks' = asks
  BY DEF IInv, TypeOK, ForkSession, ui
<1>6. Left(<<>>)
  <2>1. CASE ForkPlain(p, before)
    BY <1>1, <1>2, <1>3, <1>5, <2>1, ForkPlainLeaves
  <2>2. CASE ForkSummarized(p, before)
    BY <1>1, <1>2, <1>3, <1>5, <2>2, ForkSummarizedLeaves
  <2>3. CASE ForkFails(p, before)
    BY <1>1, <1>2, <1>3, <1>5, <2>3, ForkFailsLeaves
  <2> QED BY <1>4, <2>1, <2>2, <2>3
<1>7. Follows'
  BY <1>5, <1>6 DEF Left, Follows, NoRequest, Request, Mode
<1>8. <<>> \in Seq(Nat)
  OBVIOUS
<1>9. prompts' \in Nat /\ calls' \in Nat /\ failures' \in Nat /\ commands' \in Nat
       /\ screen \in Screens /\ asks \in SUBSET Nat
  BY DEF IInv, TypeOK, ForkSession, Spend
<1>10. Landed
  BY <1>5, <1>6, <1>7, <1>8 DEF Left, Landed, NoRequest, Request
<1> QED BY <1>5, <1>9, <1>10, LandedIs

\* A command that is refused.
LEMMA RefusedStep ==
    ASSUME IInv, Refused, prompts' \in Nat, calls' = calls, failures' \in Nat, commands' \in Nat
    PROVE  IInv'
<1>1. events' \in Seq(Events) /\ Follows'
  BY TellsError DEF Refused, Allowed, PaneTold, BusyTold, ui
<1>2. UNCHANGED <<path, running, run, progressed, cancelled, queue, retry, budget, asks, screen>>
  BY DEF Refused, core, turn, ui
<1> QED BY <1>1, <1>2 DEF IInv, TypeOK, Alone

LEMMA LoadSessionStep ==
    ASSUME IInv, LoadSession
    PROVE  IInv'
<1>1. PICK s : Fits(s, path, running, Mode, queue, retry) /\ Reads(screen, events, s)
  BY DEF IInv, Follows
<1>2. /\ prompts' \in Nat /\ calls' \in Nat /\ failures' \in Nat /\ commands' \in Nat
      /\ events \in Seq(Events) /\ screen \in Screens
      /\ queue \in Seq(Nat) /\ path \in Seq(Still) /\ retry \in BOOLEAN
      /\ progressed \in BOOLEAN /\ cancelled \in BOOLEAN /\ asks \in SUBSET Nat
  BY DEF IInv, TypeOK, LoadSession, Spend, ui
<1>3. CASE Refused
  <2>1. calls' = calls
    BY DEF LoadSession
  <2> QED BY <1>2, <1>3, <2>1, RefusedStep
<1>4. CASE /\ ~Streaming /\ (retry => Allowed("wait"))
           /\ \/ /\ path' = OtherSession /\ queue' = <<>>
                 /\ Emit(Cleared \o <<Reload("SessionLoaded", OtherSession)>>)
              \/ /\ path' = path /\ queue' = <<>>
                 /\ Emit(Cleared \o <<Event("SessionError")>>)
              \/ Silent /\ UNCHANGED <<path, queue>>
           /\ retry' = FALSE /\ budget' = [budget EXCEPT !.turn = 0]
           /\ UNCHANGED <<turn, asks, ui>>
  <2>0. UNCHANGED <<running, run, progressed, cancelled, screen, asks>>
    BY <1>4 DEF turn, ui
  <2>1. run = "none" /\ running = {} /\ run' = "none" /\ running' = {} /\ screen' = screen
        /\ progressed' \in BOOLEAN /\ cancelled' \in BOOLEAN /\ retry' = FALSE
        /\ asks' \in SUBSET Nat /\ Mode = "none" /\ Mode' = "none"
    <3>1. run = "none" /\ running = {}
      BY <1>4, IdleCore DEF LoadSession
    <3> QED BY <1>2, <1>4, <2>0, <3>1 DEF Mode
  <2>2. Fits(s, path, {}, "none", queue, FALSE)
    <3>1. Fits(s, path, {}, "none", queue, retry)
      BY <1>1, <2>1
    <3> QED BY <3>1, <1>2, <1>4, FitsWait
  <2>3. budget' \in [turn : Nat, overflow : Nat]
    BY <1>4 DEF IInv, TypeOK
  <2>4. Cleared \in Seq(Events)
    BY <1>2, <2>2, Clears
  <2>5. PICK v : Reads(s, Cleared, v) /\ Fits(v, path, {}, "none", <<>>, FALSE)
    BY <1>2, <2>2, Clears
  <2>6. <<>> \in Seq(Nat)
    OBVIOUS
  <2>7. CASE path' = OtherSession /\ queue' = <<>>
             /\ Emit(Cleared \o <<Reload("SessionLoaded", OtherSession)>>)
    <3> DEFINE e == Reload("SessionLoaded", OtherSession)
               u == SessionLoaded(v, OtherSession)
    <3>1. OtherSession \in Seq(Still)
      <4>1. Prompt(0) \in Still /\ Text \in Still
        BY StillBlocks
      <4> QED BY <4>1 DEF OtherSession
    <3>2. e \in Events /\ Shown(v, e) = u
      <4>1. e \in Events
        BY <3>1, EventsAre DEF Reloads
      <4>2. Shown(v, e) = u
        BY DEF Shown, Reload
      <4> QED BY <4>1, <4>2
    <3>3. Fits(u, OtherSession, {}, "none", <<>>, FALSE)
      <4>1. BusyTold => (v.busy <=> ("none" \in Alive \/ FALSE))
        BY <2>5 DEF Fits, KeepsBusy
      <4>2. v \in Screens /\ KeepsQueue(v, <<>>)
        BY <2>5 DEF Fits
      <4> QED BY <3>1, <4>1, <4>2, FitsReload
    <3> HIDE DEF e, u
    <3>4. Reads(s, Cleared \o <<e>>, u) /\ Cleared \o <<e>> \in Seq(Events)
      <4>1. Reads(s, Cleared \o <<e>>, Shown(v, e))
        BY <2>4, <2>5, <3>2, ReadsEach
      <4>2. <<e>> \in Seq(Events)
        BY <3>2
      <4> QED BY <2>4, <3>2, <4>1, <4>2, JoinIs
    <3>5. events' \in Seq(Events) /\ Reads(screen', events', u)
      <4>1. Emit(Cleared \o <<e>>)
        BY <2>7 DEF e
      <4> QED BY <4>1, <3>4, <1>1, <1>2, <2>1, Sent
    <3>6. Follows'
      BY <2>1, <2>7, <3>3, <3>5 DEF Follows
    <3>7. Landed
      BY <2>1, <2>6, <2>7, <3>1, <3>5, <3>6 DEF Landed
    <3> QED BY <1>2, <2>1, <2>3, <3>7, LandedIs
  <2>8. CASE path' = path /\ queue' = <<>> /\ Emit(Cleared \o <<Event("SessionError")>>)
    <3>0. Fits(ShowError(v), path, {}, "none", <<>>, FALSE)
      BY <2>5, FitsErrorShown DEF Compacts
    <3>1. /\ events' \in Seq(Events)
          /\ \E u : Reads(screen', events', u) /\ Fits(u, path, {}, "none", <<>>, FALSE)
      BY <1>1, <1>2, <2>1, <2>4, <2>5, <2>8, <3>0, Errs
    <3>2. Follows'
      BY <2>1, <2>8, <3>1 DEF Follows
    <3>3. Landed
      BY <1>2, <2>1, <2>6, <2>8, <3>1, <3>2 DEF Landed
    <3> QED BY <1>2, <2>1, <2>3, <3>3, LandedIs
  <2>9. CASE Silent /\ UNCHANGED <<path, queue>>
    <3>1. Follows'
      BY <1>1, <2>1, <2>2, <2>9 DEF Follows, Silent
    <3>2. Landed
      BY <1>2, <2>1, <2>9, <3>1 DEF Landed, Silent
    <3> QED BY <1>2, <2>1, <2>3, <3>2, LandedIs
  <2> QED BY <1>4, <2>7, <2>8, <2>9
<1> QED BY <1>3, <1>4 DEF LoadSession

\* A command that stops nothing, and drops the retry there may be.
LEMMA Drops ==
    ASSUME IInv, ~Streaming, ~Reporting, retry => Allowed("wait"),
           retry' = FALSE, budget' = [budget EXCEPT !.turn = 0], UNCHANGED <<asks, ui>>,
           NEW s, Fits(s, path, running, Mode, queue, retry), Reads(screen, events, s)
    PROVE  /\ Fits(s, path, {}, "none", queue, FALSE) /\ screen' = screen
           /\ events \in Seq(Events) /\ path \in Seq(Still) /\ queue \in Seq(Nat)
           /\ \A q \in Seq(Nat) :
                 /\ UNCHANGED turn /\ queue' = q /\ Left(q)
                 /\ prompts' \in Nat /\ calls' \in Nat /\ failures' \in Nat /\ commands' \in Nat
                 => IInv'
<1>1. /\ retry \in BOOLEAN /\ progressed \in BOOLEAN /\ cancelled \in BOOLEAN
      /\ asks' \in SUBSET Nat /\ screen' = screen /\ screen' \in Screens
      /\ events \in Seq(Events) /\ path \in Seq(Still) /\ queue \in Seq(Nat)
      /\ budget' \in [turn : Nat, overflow : Nat]
  BY DEF IInv, TypeOK, ui
<1>2. run = "none" /\ running = {} /\ Mode = "none"
  BY IdleCore
<1>3. Fits(s, path, {}, "none", queue, FALSE)
  <2>1. Fits(s, path, {}, "none", queue, retry)
    BY <1>2
  <2> QED BY <2>1, <1>1, FitsWait
<1>4. ASSUME NEW q \in Seq(Nat), UNCHANGED turn, queue' = q, Left(q),
             prompts' \in Nat, calls' \in Nat, failures' \in Nat, commands' \in Nat
      PROVE  IInv'
  <2>1. /\ run' = "none" /\ running' = {} /\ progressed' \in BOOLEAN /\ cancelled' \in BOOLEAN
        /\ Mode' = "none"
    BY <1>1, <1>2, <1>4 DEF turn, Mode
  <2>2. Follows'
    BY <1>4, <2>1 DEF Left, Follows
  <2>3. Landed
    BY <1>4, <2>1, <2>2 DEF Left, Landed
  <2> QED BY <1>1, <1>4, <2>3, LandedIs
<1> QED BY <1>1, <1>3, <1>4

LEMMA DeleteBranchStep ==
    ASSUME IInv, DeleteBranch
    PROVE  IInv'
<1>1. PICK s : Fits(s, path, running, Mode, queue, retry) /\ Reads(screen, events, s)
  BY DEF IInv, Follows
<1>2. /\ prompts' \in Nat /\ calls' \in Nat /\ failures' \in Nat /\ commands' \in Nat
  BY DEF IInv, TypeOK, DeleteBranch, Spend
<1>3. CASE Refused
  <2>1. calls' = calls
    BY DEF DeleteBranch
  <2> QED BY <1>2, <1>3, <2>1, RefusedStep
<1>4. CASE ~Refused
  <2>1. /\ ~Streaming /\ ~Reporting /\ (retry => Allowed("wait"))
        /\ retry' = FALSE /\ budget' = [budget EXCEPT !.turn = 0]
        /\ UNCHANGED <<asks, ui>> /\ UNCHANGED turn
    BY <1>4 DEF DeleteBranch
  <2>2. \/ \E q \in BehindATurn(path) \cup BeforeAPrompt(path) :
              \/ path' = q /\ queue' = <<>> /\ Emit(Cleared \o <<Fork(q, FALSE)>>)
              \/ NotReloaded(q, <<>>) /\ UNCHANGED queue
        \/ Silent /\ UNCHANGED <<path, queue>>
        \/ Failed /\ UNCHANGED <<path, queue>>
    BY <1>4 DEF DeleteBranch
  <2>3. /\ Fits(s, path, {}, "none", queue, FALSE) /\ screen' = screen
        /\ events \in Seq(Events) /\ path \in Seq(Still) /\ queue \in Seq(Nat)
        /\ \A q \in Seq(Nat) : queue' = q /\ Left(q) => IInv'
    BY <1>1, <1>2, <2>1, Drops
  <2>4. CASE \E q \in BehindATurn(path) \cup BeforeAPrompt(path) :
                path' = q /\ queue' = <<>> /\ Emit(Cleared \o <<Fork(q, FALSE)>>)
    <3>1. path' \in Seq(Still) /\ queue' = <<>> /\ Emit(Cleared \o <<Fork(path', FALSE)>>)
      BY <2>3, <2>4, PathsAre
    <3>2. Cleared \in Seq(Events)
      BY <2>3, Clears
    <3>3. PICK v : Reads(s, Cleared, v) /\ Fits(v, path, {}, "none", <<>>, FALSE)
      BY <2>3, Clears
    <3>4. v \in Screens /\ KeepsQueue(v, <<>>)
          /\ (BusyTold => FALSE \/ (~v.busy /\ ~v.compacting)) /\ FALSE \in BOOLEAN
      BY <3>3 DEF Fits, KeepsBusy, Alive, Compacts
    <3>5. /\ events' \in Seq(Events)
          /\ \E u : Reads(screen', events', u) /\ Fits(u, path', {}, "none", <<>>, FALSE)
      BY <1>1, <2>3, <3>1, <3>2, <3>3, <3>4, Forks
    <3>6. <<>> \in Seq(Nat)
      OBVIOUS
    <3>7. Left(<<>>)
      BY <3>1, <3>5 DEF Left
    <3> QED BY <2>3, <3>1, <3>6, <3>7
  <2>5. CASE \E q \in BehindATurn(path) \cup BeforeAPrompt(path) :
                NotReloaded(q, <<>>) /\ UNCHANGED queue
    <3>1. PICK q \in BehindATurn(path) \cup BeforeAPrompt(path) :
             NotReloaded(q, <<>>) /\ UNCHANGED queue
      BY <2>5
    <3>2. q \in Seq(Still)
      BY <2>3, PathsAre
    <3>3. ~PaneTold /\ path' = q /\ Emit(<<>> \o <<Event("SessionError")>>)
      BY <3>1 DEF NotReloaded, PaneTold, Allowed
    <3>4. Fits(s, q, {}, "none", queue, FALSE)
      BY <2>3, <3>3, FitsUntold
    <3>5. /\ events' \in Seq(Events)
          /\ \E u : Reads(screen', events', u) /\ Fits(u, q, {}, "none", queue, FALSE)
      BY <1>1, <2>3, <3>3, <3>4, ErrsOnly DEF Compacts
    <3>6. Left(queue)
      BY <3>2, <3>3, <3>5 DEF Left
    <3> QED BY <2>3, <3>1, <3>6
  <2>6. CASE Silent /\ UNCHANGED <<path, queue>>
    <3>1. Left(queue)
      BY <1>1, <2>3, <2>6 DEF Left, Silent
    <3> QED BY <2>3, <2>6, <3>1
  <2>7. CASE Failed /\ UNCHANGED <<path, queue>>
    <3>1. Emit(<<Event("SessionError")>>)
      BY <2>7 DEF Failed
    <3>2. /\ events' \in Seq(Events)
          /\ \E u : Reads(screen', events', u) /\ Fits(u, path, {}, "none", queue, FALSE)
      BY <1>1, <2>3, <3>1, ErrsOnly DEF Compacts
    <3>3. Left(queue)
      BY <2>3, <2>7, <3>2 DEF Left
    <3> QED BY <2>3, <2>7, <3>3
  <2> QED BY <2>2, <2>4, <2>5, <2>6, <2>7
<1> QED BY <1>3, <1>4

LEMMA NewSessionStep ==
    ASSUME IInv, NewSession
    PROVE  IInv'
<1>1. /\ prompts' \in Nat /\ calls' = calls /\ calls \in Nat /\ failures' \in Nat
      /\ commands' \in Nat
      /\ events \in Seq(Events) /\ queue \in Seq(Nat) /\ screen' = Blank
      /\ progressed \in BOOLEAN /\ cancelled \in BOOLEAN
      /\ asks \in SUBSET Nat /\ asks' = asks
  BY DEF IInv, TypeOK, NewSession, Spend
<1>2. Blank \in Screens
  BY DEF Blank, Screens
<1>3. ASSUME Allowed("new"), events' \in Seq(Events) PROVE Follows'
  <2>1. PICK u \in Screens : Reads(Blank, events', u)
    BY <1>2, <1>3, ReadsExist
  <2>2. ~QueueTold /\ ~BusyTold /\ ~PaneTold
    BY <1>3 DEF Allowed, QueueTold, BusyTold, PaneTold
  <2>3. Fits(u, path', running', Mode', queue', retry')
    BY <2>1, <2>2 DEF Fits, KeepsQueue, KeepsBusy, KeepsPane
  <2> QED BY <1>1, <2>1, <2>3 DEF Follows
<1>4. CASE Streaming /\ Allowed("new") /\ Emit(<<Event("StreamError")>>) /\ UNCHANGED core
  <2>1. <<Event("StreamError")>> \in Seq(Events)
    BY EventsAre DEF Plain
  <2>2. events' \in Seq(Events)
    BY <1>1, <1>4, <2>1, JoinIs DEF Emit
  <2>3. Follows'
    BY <1>3, <1>4, <2>2
  <2> QED BY <1>1, <1>2, <1>4, <2>2, <2>3 DEF IInv, TypeOK, Alone, core, turn
<1>5. CASE /\ ~Streaming /\ (events # <<>> => Allowed("new"))
           /\ path' = <<>> /\ queue' = <<>> /\ Emit(Cleared)
           /\ retry' = FALSE /\ budget' = NoRetries
           /\ UNCHANGED turn
  <2>0. run = "none" /\ running = {}
    BY <1>5, IdleCore DEF NewSession
  <2>1. /\ run' = "none" /\ running' = {} /\ retry' = FALSE /\ Mode' = "none"
        /\ progressed' \in BOOLEAN /\ cancelled' \in BOOLEAN
    BY <1>1, <1>5, <2>0 DEF turn, Mode
  <2>2. Fits(Blank, <<>>, {}, "none", <<>>, FALSE)
    <3>1. <<>> \in Seq(Still) /\ Blank.turns = <<>> /\ Blank.inflight = <<>>
      BY DEF Blank
    <3>2. Pane(Blank, <<>>, {})
      BY <3>1, PaneReload
    <3> QED BY <1>2, <3>1, <3>2 DEF Fits, KeepsQueue, KeepsBusy, KeepsPane, Blank, Alive
  <2>3. Cleared \in Seq(Events) /\ events' \in Seq(Events)
    <3>1. <<Event("SteeredCleared")>> \in Seq(Events) /\ <<>> \in Seq(Events)
      BY EventsAre DEF Plain
    <3>2. Cleared \in Seq(Events)
      BY <3>1 DEF Cleared
    <3> QED BY <1>1, <1>5, <3>2, JoinIs DEF Emit
  <2>4. Follows'
    <3>1. CASE Allowed("new")
      BY <1>3, <2>3, <3>1
    <3>2. CASE events = <<>>
      <4>1. events' = Cleared
        BY <1>5, <2>3, <3>2 DEF Emit
      <4>2. \E u : Reads(Blank, Cleared, u) /\ Fits(u, <<>>, {}, "none", <<>>, FALSE)
        <5>1. CASE queue = <<>>
          <6>1. Cleared = <<>> /\ Reads(Blank, <<>>, Blank)
            BY <5>1, ReadsNothing DEF Cleared
          <6> QED BY <2>2, <6>1
        <5>2. CASE queue # <<>>
          <6> DEFINE e == Event("SteeredCleared")
          <6>1. e \in Events /\ Shown(Blank, e) = SteeredCleared(Blank)
            BY EventsAre, ShownPlain DEF Plain
          <6>2. Cleared = <<e>>
            BY <5>2 DEF Cleared
          <6> HIDE DEF e
          <6>3. Reads(Blank, <<e>>, Shown(Blank, e))
            BY <6>1, ReadsFew
          <6>4. Fits(SteeredCleared(Blank), <<>>, {}, "none", <<>>, FALSE)
            <7>1. <<>> \in Seq(Nat)
              OBVIOUS
            <7> QED BY <2>2, <7>1, FitsQueue
          <6> QED BY <6>1, <6>2, <6>3, <6>4
        <5> QED BY <5>1, <5>2
      <4> QED BY <1>1, <1>5, <2>1, <4>1, <4>2 DEF Follows
    <3> QED BY <1>5, <3>1, <3>2
  <2>5. Landed
    <3>1. <<>> \in Seq(Nat) /\ <<>> \in Seq(Still)
      OBVIOUS
    <3> QED BY <1>1, <1>5, <2>1, <2>3, <2>4, <3>1 DEF Landed
  <2>6. budget' \in [turn : Nat, overflow : Nat]
    BY <1>5 DEF NoRetries
  <2> QED BY <1>1, <1>2, <2>1, <2>5, <2>6, LandedIs
<1> QED BY <1>4, <1>5 DEF NewSession

LEMMA ReplayStep ==
    ASSUME IInv, Replay
    PROVE  IInv'
<1>1. PICK s : Fits(s, path, running, Mode, queue, retry) /\ Reads(screen, events, s)
  BY DEF IInv, Follows
<1>2. /\ prompts' \in Nat /\ calls' \in Nat /\ failures' \in Nat /\ commands' \in Nat
  BY DEF IInv, TypeOK, Replay, Spend
<1>3. CASE Refused
  <2>1. calls' = calls
    BY DEF Replay
  <2> QED BY <1>2, <1>3, <2>1, RefusedStep
<1>4. CASE ~Refused
  <2>1. /\ ~Streaming /\ ~Reporting /\ (retry => Allowed("wait"))
        /\ retry' = FALSE /\ budget' = [budget EXCEPT !.turn = 0]
        /\ UNCHANGED <<asks, ui>> /\ queue' = queue
    BY <1>4 DEF Replay
  <2>2. \/ \E i \in DOMAIN path :
              \/ /\ Emit(<<Fork(SubSeq(path, 1, i - 1), FALSE)>>)
                 /\ path' = SubSeq(path, 1, i - 1) /\ UNCHANGED turn
              \/ /\ Emit(<<Fork(SubSeq(path, 1, i - 1), FALSE)>>)
                 /\ Allowed("replay") /\ path' = Append(SubSeq(path, 1, i - 1), path[i])
                 /\ NewRequest
              \/ NotReloaded(SubSeq(path, 1, i - 1), <<>>) /\ UNCHANGED turn
        \/ Failed /\ UNCHANGED <<path, turn>>
    BY <1>4 DEF Replay
  <2>3. /\ Fits(s, path, {}, "none", queue, FALSE) /\ screen' = screen
        /\ events \in Seq(Events) /\ path \in Seq(Still) /\ queue \in Seq(Nat)
        /\ UNCHANGED turn /\ Left(queue) => IInv'
    BY <1>1, <1>2, <2>1, Drops
  <2>4. ASSUME NEW i \in DOMAIN path, NEW q, q = SubSeq(path, 1, i - 1),
               \/ /\ Emit(<<Fork(q, FALSE)>>)
                  /\ path' = q /\ UNCHANGED turn
               \/ /\ Emit(<<Fork(q, FALSE)>>)
                  /\ Allowed("replay") /\ path' = Append(q, path[i]) /\ NewRequest
               \/ NotReloaded(q, <<>>) /\ UNCHANGED turn
        PROVE  IInv'
    <3>1. q \in Seq(Still) /\ path[i] \in Still
      BY <2>3, <2>4, PathsAre
    <3>2. ASSUME Emit(<<Fork(q, FALSE)>>)
          PROVE  /\ events' \in Seq(Events)
                 /\ \E u : Reads(screen', events', u) /\ Fits(u, q, {}, "none", queue, FALSE)
      <4> DEFINE e == Fork(q, FALSE)
      <4>1. <<>> \o <<e>> = <<e>>
        OBVIOUS
      <4>2. Emit(<<>> \o <<e>>)
        BY <3>2, <4>1
      <4>3. s \in Screens /\ KeepsQueue(s, queue)
            /\ (BusyTold => FALSE \/ (~s.busy /\ ~s.compacting))
            /\ FALSE \in BOOLEAN /\ <<>> \in Seq(Events) /\ Reads(s, <<>>, s)
        BY <2>3, ReadsNothing DEF Fits, KeepsBusy, Alive, Compacts
      <4> QED BY <1>1, <2>3, <3>1, <4>2, <4>3, Forks
    <3>3. CASE Emit(<<Fork(q, FALSE)>>) /\ path' = q /\ UNCHANGED turn
      <4>1. Left(queue)
        BY <3>1, <3>2, <3>3 DEF Left
      <4> QED BY <2>3, <3>3, <4>1
    <3>4. CASE /\ Emit(<<Fork(q, FALSE)>>)
               /\ Allowed("replay") /\ path' = Append(q, path[i]) /\ NewRequest
      <4>1. ~BusyTold /\ ~PaneTold
        BY <3>4 DEF Allowed, BusyTold, PaneTold
      <4>2. PICK u : Reads(screen', events', u) /\ Fits(u, q, {}, "none", queue, FALSE)
        BY <3>2, <3>4
      <4>3. Fits(u, path', running', Mode', queue', retry')
        BY <2>1, <4>1, <4>2 DEF Fits, KeepsBusy, KeepsPane
      <4>4. Follows'
        BY <4>2, <4>3 DEF Follows
      <4>5. path' \in Seq(Still)
        BY <3>1, <3>4
      <4>6. events' \in Seq(Events)
        BY <3>2, <3>4
      <4>7. Landed
        BY <2>1, <2>3, <3>4, <4>4, <4>5, <4>6 DEF Landed, NewRequest, Request
      <4>8. /\ budget' \in [turn : Nat, overflow : Nat] /\ screen' \in Screens
            /\ asks' \in SUBSET Nat
        BY <2>1, <2>3 DEF IInv, TypeOK
      <4> QED BY <1>2, <2>1, <4>7, <4>8, LandedIs
    <3>5. CASE NotReloaded(q, <<>>) /\ UNCHANGED turn
      <4>1. ~PaneTold /\ path' = q /\ Emit(<<>> \o <<Event("SessionError")>>)
        BY <3>5 DEF NotReloaded, PaneTold, Allowed
      <4>2. Fits(s, q, {}, "none", queue, FALSE)
        BY <2>3, <4>1, FitsUntold
      <4>3. /\ events' \in Seq(Events)
            /\ \E u : Reads(screen', events', u) /\ Fits(u, q, {}, "none", queue, FALSE)
        BY <1>1, <2>3, <4>1, <4>2, ErrsOnly DEF Compacts
      <4>4. Left(queue)
        BY <3>1, <4>1, <4>3 DEF Left
      <4> QED BY <2>3, <3>5, <4>4
    <3> QED BY <2>4, <3>3, <3>4, <3>5
  <2>5. CASE Failed /\ UNCHANGED <<path, turn>>
    <3>1. Emit(<<Event("SessionError")>>)
      BY <2>5 DEF Failed
    <3>2. /\ events' \in Seq(Events)
          /\ \E u : Reads(screen', events', u) /\ Fits(u, path, {}, "none", queue, FALSE)
      BY <1>1, <2>3, <3>1, ErrsOnly DEF Compacts
    <3>3. Left(queue)
      BY <2>3, <2>5, <3>2 DEF Left
    <3> QED BY <2>3, <2>5, <3>3
  <2> QED BY <2>2, <2>4, <2>5
<1> QED BY <1>3, <1>4

\* A command that fails and changes nothing.
LEMMA FailedStep ==
    ASSUME IInv, Failed, ~Reporting, UNCHANGED <<core, asks, screen>>,
           prompts' \in Nat, calls' = calls, failures' \in Nat, commands' \in Nat
    PROVE  IInv'
<1>1. PICK s : Fits(s, path, running, Mode, queue, retry) /\ Reads(screen, events, s)
  BY DEF IInv, Follows
<1>2. BusyTold => Mode \notin Compacts
  BY DEF Failed, Allowed, BusyTold, Mode, Compacts, Reporting, IInv, TypeOK, Runs
<1>3. Emit(<<Event("SessionError")>>) /\ screen' = screen /\ events \in Seq(Events)
  BY DEF Failed, IInv, TypeOK
<1>4. /\ events' \in Seq(Events)
      /\ \E u : Reads(screen', events', u) /\ Fits(u, path, running, Mode, queue, retry)
  BY <1>1, <1>2, <1>3, ErrsOnly
<1>5. /\ UNCHANGED <<path, running, run, progressed, cancelled, queue, retry, budget, asks>>
      /\ Mode' = Mode
  BY DEF core, turn, Mode
<1>6. Follows'
  BY <1>4, <1>5 DEF Follows
<1> QED BY <1>3, <1>4, <1>5, <1>6 DEF IInv, TypeOK, Alone

LEMMA CommandFailsStep ==
    ASSUME IInv, CommandFails
    PROVE  IInv'
<1>1. /\ prompts' \in Nat /\ calls' = calls /\ failures' \in Nat /\ commands' \in Nat
      /\ UNCHANGED <<core, asks, screen>> /\ Failed /\ ~Reporting
  BY DEF CommandFails, Spend, IInv, TypeOK, ui
<1> QED BY <1>1, FailedStep

LEMMA CompactSessionStep ==
    ASSUME IInv, CompactSession
    PROVE  IInv'
<1>1. PICK s : Fits(s, path, running, Mode, queue, retry) /\ Reads(screen, events, s)
  BY DEF IInv, Follows
<1>2. /\ prompts' \in Nat /\ calls' = calls /\ calls' \in Nat /\ failures' \in Nat
      /\ commands' \in Nat
      /\ events \in Seq(Events) /\ screen \in Screens /\ screen' = screen
      /\ queue \in Seq(Nat) /\ path \in Seq(Still) /\ progressed \in BOOLEAN
      /\ cancelled \in BOOLEAN /\ budget' \in [turn : Nat, overflow : Nat]
      /\ asks' = asks /\ asks \in SUBSET Nat /\ ~Reporting
      /\ UNCHANGED <<running, run, progressed, cancelled, queue, retry>>
      /\ UNCHANGED <<turn, queue, retry, budget>>
  BY DEF IInv, TypeOK, CompactSession, Spend, turn, ui
<1>3. CASE IsBusy /\ Failed /\ UNCHANGED path
  <2>1. UNCHANGED <<core, asks, screen>> /\ Failed
    BY <1>2, <1>3 DEF core
  <2> QED BY <1>2, <2>1, FailedStep
<1>4. CASE ~IsBusy
  <2>1. run = "none" /\ running = {} /\ Mode = "none" /\ retry = FALSE /\ Mode' = "none"
    <3>1. ~Streaming /\ retry = FALSE
      BY <1>4 DEF IInv, TypeOK, IsBusy
    <3>2. run = "none" /\ running = {} /\ Mode = "none"
      BY <1>2, <3>1, IdleCore
    <3> QED BY <1>2, <3>1, <3>2 DEF Mode
  <2>2. Fits(s, path, {}, "none", queue, FALSE) /\ s \in Screens
    <3>1. Fits(s, path, {}, "none", queue, FALSE)
      BY <1>1, <2>1
    <3> QED BY <3>1 DEF Fits
  <2>3. Left(queue) => IInv'
    <3>1. ASSUME Left(queue) PROVE Landed
      <4>1. Follows'
        BY <1>2, <2>1, <3>1 DEF Left, Follows
      <4> QED BY <1>2, <2>1, <3>1, <4>1 DEF Left, Landed
    <3> QED BY <1>2, <2>1, <3>1, LandedIs
  <2> DEFINE v == CompactionSaid(s)
             fs == CompactionEvents
             c == Event("SessionError")
  <2>4. fs \in Seq(Events) /\ Reads(s, fs, v) /\ <<>> \o fs = fs
        /\ <<>> \in Seq(Events) /\ Reads(s, <<>>, s)
    <3>1. <<>> \in Seq(Events) /\ Reads(s, <<>>, s)
      BY ReadsNothing
    <3>2. <<>> \o fs \in Seq(Events) /\ Reads(s, <<>> \o fs, v)
      BY <2>2, <3>1, CompactionRead
    <3>3. <<>> \o fs = fs
      BY DEF CompactionEvents
    <3> HIDE DEF fs, v
    <3> QED BY <3>1, <3>2, <3>3
  <2>5. v \in Screens /\ KeepsQueue(v, queue)
    BY <2>2, FitsCompaction
  <2> HIDE DEF v, fs, c
  <2>6. CASE \E p \in Compacted(path) :
                path' = p /\ Emit(fs \o <<Reload("SessionCompacted", p)>>)
    <3>1. path' \in Seq(Still) /\ Emit(fs \o <<Reload("SessionCompacted", path')>>)
      BY <1>2, <2>6, PathsAre
    <3> DEFINE e == Reload("SessionCompacted", path')
               u == SessionCompacted(v, path')
    <3>2. e \in Events
      BY <3>1, EventsAre DEF Reloads
    <3>3. Shown(v, e) = u
      BY ShownOther
    <3>4. Fits(u, path', {}, "none", queue, FALSE)
      BY <2>5, <3>1, FitsReload DEF Quiet
    <3>5. Emit(fs \o <<e>>)
      BY <3>1
    <3> HIDE DEF e, u
    <3>6. Reads(s, fs \o <<e>>, u)
      <4>1. Reads(s, fs \o <<e>>, Shown(v, e))
        BY <2>4, <3>2, ReadsEach
      <4> QED BY <4>1, <3>3
    <3>7. fs \o <<e>> \in Seq(Events)
      <4>1. <<e>> \in Seq(Events)
        BY <3>2
      <4> QED BY <2>4, <4>1, JoinIs
    <3>8. events' \in Seq(Events) /\ Reads(screen', events', u)
      BY <1>1, <1>2, <3>5, <3>6, <3>7, Sent
    <3>9. Left(queue)
      BY <3>1, <3>4, <3>8 DEF Left
    <3> QED BY <2>3, <3>9
  <2>7. ASSUME Emit(fs \o <<c>>), NEW p, Fits(s, p, {}, "none", queue, FALSE)
        PROVE  /\ events' \in Seq(Events)
               /\ \E u : Reads(screen', events', u) /\ Fits(u, p, {}, "none", queue, FALSE)
    <3>1. Emit((<<>> \o CompactionEvents) \o <<Event("SessionError")>>)
      BY <2>4, <2>7 DEF fs, c
    <3> QED BY <1>1, <1>2, <2>4, <2>7, <3>1, CompactionErrs
  <2>8. CASE \E p \in Compacted(path) : NotReloaded(p, fs)
    <3>1. PICK p \in Compacted(path) : NotReloaded(p, fs)
      BY <2>8
    <3>2. p \in Seq(Still)
      BY <1>2, PathsAre
    <3>3. ~PaneTold /\ path' = p /\ Emit(fs \o <<c>>)
      BY <3>1 DEF NotReloaded, PaneTold, Allowed, c
    <3>4. Fits(s, p, {}, "none", queue, FALSE)
      BY <2>2, <3>3, FitsUntold
    <3>5. Left(queue)
      BY <2>7, <3>2, <3>3, <3>4 DEF Left
    <3> QED BY <2>3, <3>5
  <2>9. CASE path' = path /\ Emit(fs \o <<c>>)
    <3>1. Left(queue)
      BY <1>2, <2>2, <2>7, <2>9 DEF Left
    <3> QED BY <2>3, <3>1
  <2>10. CASE path' = path /\ Emit(<<>> \o <<c>>)
    <3>1. Emit(<<>> \o <<Event("SessionError")>>)
      BY <2>10 DEF c
    <3>2. /\ events' \in Seq(Events)
          /\ \E u : Reads(screen', events', u) /\ Fits(u, path, {}, "none", queue, FALSE)
      BY <1>1, <1>2, <2>2, <3>1, ErrsOnly DEF Compacts
    <3>3. Left(queue)
      BY <1>2, <2>10, <3>2 DEF Left
    <3> QED BY <2>3, <3>3
  <2>11. \/ \E p \in Compacted(path) :
               \/ path' = p /\ Emit(fs \o <<Reload("SessionCompacted", p)>>)
               \/ NotReloaded(p, fs)
         \/ path' = path /\ \E before \in {<<>>, fs} : Emit(before \o <<c>>)
    BY <1>4 DEF CompactSession, fs, c
  <2> QED BY <2>6, <2>8, <2>9, <2>10, <2>11
<1> QED BY <1>3, <1>4 DEF CompactSession

\* The user answers: the screen says it calls the tool, and changes nothing else.
LEMMA AnswerStep ==
    ASSUME IInv, Answer
    PROVE  IInv'
<1>1. PICK s : Fits(s, path, running, Mode, queue, retry) /\ Reads(screen, events, s)
  BY DEF IInv, Follows
<1>2. /\ UNCHANGED <<path, running, run, progressed, cancelled, queue, retry, budget, asks, events>>
      /\ UNCHANGED bounds /\ Mode' = Mode /\ screen \in Screens /\ events \in Seq(Events)
  BY DEF Answer, Mode, IInv, TypeOK
<1>3. \/ screen' = screen
      \/ screen' = Busy(screen) /\ (BusyTold => screen.busy /\ ~screen.compacting)
  BY DEF Answer, BusyTold, Allowed
<1>4. screen' \in Screens /\ \E t : Reads(screen', events, t)
                                  /\ Fits(t, path, running, Mode, queue, retry)
  <2>1. CASE screen' = screen
    BY <1>1, <1>2, <2>1
  <2>2. CASE screen' = Busy(screen) /\ BusyTold /\ screen.busy /\ ~screen.compacting
    <3>1. Busy(screen) = screen
      BY <1>2, <2>2 DEF Screens, Busy
    <3> QED BY <1>1, <1>2, <2>2, <3>1
  <2>3. CASE screen' = Busy(screen) /\ ~BusyTold
    <3>1. Alike(screen', screen)
      BY <1>2, <2>3, SignsAre
    <3>2. PICK t : Reads(screen', events, t) /\ Alike(t, s)
      BY <1>1, <1>2, <3>1, ReadsSame
    <3>3. KeepsBusy(t, Mode, retry)
      BY <2>3 DEF KeepsBusy
    <3>4. Fits(t, path, running, Mode, queue, retry)
      BY <1>1, <3>2, <3>3, FitsAlike
    <3> QED BY <3>1, <3>2, <3>4 DEF Alike
  <2> QED BY <1>3, <2>1, <2>2, <2>3
<1>5. Follows'
  BY <1>2, <1>4 DEF Follows
<1> QED BY <1>2, <1>4, <1>5 DEF IInv, TypeOK, Alone, bounds

\* Another line over the status of a compaction.
LEMMA StatusLineStep ==
    ASSUME IInv, StatusLine
    PROVE  IInv'
<1>1. PICK s : Fits(s, path, running, Mode, queue, retry) /\ Reads(screen, events, s)
  BY DEF IInv, Follows
<1>2. /\ UNCHANGED <<path, running, run, progressed, cancelled, queue, retry, budget, asks, events>>
      /\ UNCHANGED bounds /\ Mode' = Mode /\ screen \in Screens /\ events \in Seq(Events)
      /\ screen' = [screen EXCEPT !.compacting = FALSE] /\ (events # <<>> => Allowed("status"))
  BY DEF StatusLine, core, turn, Mode, IInv, TypeOK
<1>3. Alike(screen', screen)
  BY <1>2, SignsAre
<1>4. PICK t : Reads(screen', events, t) /\ Alike(t, s)
  BY <1>1, <1>2, <1>3, ReadsSame
<1>5. KeepsBusy(t, Mode, retry)
  <2>1. CASE BusyTold
    <3>1. events = <<>>
      BY <1>2, <2>1 DEF BusyTold, Allowed
    <3>2. t = screen' /\ s = screen
      BY <1>1, <1>4, <3>1, ReadsNothing
    <3>3. t.busy = s.busy /\ t.streaming = s.streaming /\ ~t.compacting
      BY <1>2, <3>2 DEF Screens
    <3> QED BY <1>1, <3>3 DEF Fits, KeepsBusy
  <2>2. CASE ~BusyTold
    BY <2>2 DEF KeepsBusy
  <2> QED BY <2>1, <2>2
<1>6. Fits(t, path, running, Mode, queue, retry)
  BY <1>1, <1>4, <1>5, FitsAlike
<1>7. Follows'
  BY <1>2, <1>4, <1>6 DEF Follows
<1> QED BY <1>2, <1>3, <1>7 DEF IInv, TypeOK, Alone, bounds, Alike

LEMMA TokenStep ==
    ASSUME IInv, Token
    PROVE  IInv'
<1>1. PICK s : Fits(s, path, running, Mode, queue, retry) /\ Reads(screen, events, s)
  BY DEF IInv, Follows
<1> DEFINE e == Event("TokenReceived")
<1>2. /\ events \in Seq(Events) /\ screen' = screen /\ path \in Seq(Still) /\ retry \in BOOLEAN
      /\ run = "live" /\ running = {} /\ Emit(<<e>>) /\ path' = WithText(path)
      /\ UNCHANGED <<running, run, queue, retry, asks>> /\ progressed' = TRUE
  BY DEF IInv, TypeOK, Token, Unfailing, ui
<1>3. e \in Events /\ Shown(s, e) = TokenReceived(s)
  BY EventsAre, ShownPlain DEF Plain
<1> HIDE DEF e
<1>4. events' \in Seq(Events) /\ Reads(screen', events', TokenReceived(s))
  BY <1>1, <1>2, <1>3, SentFew
<1>5. Fits(s, path, {}, Mode, queue, retry) /\ Mode \in Working /\ Mode' = "live"
  BY <1>1, <1>2 DEF Mode, Working
<1>6. Fits(TokenReceived(s), WithText(path), {}, "live", queue, retry)
      /\ WithText(path) \in Seq(Still)
  BY <1>2, <1>5, FitsToken
<1>7. Follows'
  BY <1>2, <1>4, <1>5, <1>6 DEF Follows
<1> QED BY <1>2, <1>4, <1>6, <1>7 DEF IInv, TypeOK, Alone, Token, Unfailing, ui

LEMMA ToolStartStep ==
    ASSUME IInv, ToolStart
    PROVE  IInv'
<1>1. PICK s : Fits(s, path, running, Mode, queue, retry) /\ Reads(screen, events, s)
  BY DEF IInv, Follows
<1> DEFINE e == EventOf("ToolStarted", calls')
<1>2. /\ events \in Seq(Events) /\ screen' = screen /\ path \in Seq(Still) /\ retry \in BOOLEAN
      /\ run = "live" /\ Emit(<<e>>) /\ running' = running \cup {calls'} /\ calls' \in Nat
      /\ UNCHANGED <<path, run, queue, retry>> /\ progressed' = TRUE /\ asks' \in SUBSET Nat
  <2>1. calls' \in Nat /\ asks \in SUBSET Nat /\ asks' \in SUBSET (asks \cup {calls'})
    BY DEF IInv, TypeOK, ToolStart
  <2> QED BY <2>1 DEF IInv, TypeOK, ToolStart, Unfailing, ui
<1>3. e \in Events
  BY <1>2, EventsAre DEF Numbered
<1>4. Shown(s, e) = ToolStarted(s, calls')
  BY DEF Shown, EventOf
<1> HIDE DEF e
<1>5. events' \in Seq(Events) /\ Reads(screen', events', ToolStarted(s, calls'))
  BY <1>1, <1>2, <1>3, <1>4, SentFew
<1>6. /\ Fits(s, path, running, Mode, queue, retry) /\ running \in SUBSET Nat
      /\ Mode \in Working /\ Mode' = "live"
  BY <1>1, <1>2, Finite DEF IInv, Mode, Working
<1>7. Fits(ToolStarted(s, calls'), path, running \cup {calls'}, "live", queue, retry)
  BY <1>2, <1>6, FitsStarted
<1>8. Follows'
  BY <1>2, <1>5, <1>6, <1>7 DEF Follows
<1>9. running' \in SUBSET (1..calls')
  BY DEF IInv, TypeOK, ToolStart
<1> QED BY <1>2, <1>5, <1>8, <1>9 DEF IInv, TypeOK, Alone, ToolStart, Unfailing, ui

LEMMA ToolResultStep ==
    ASSUME IInv, ToolResult
    PROVE  IInv'
<1>1. PICK s : Fits(s, path, running, Mode, queue, retry) /\ Reads(screen, events, s)
  BY DEF IInv, Follows
<1>2. PICK c \in running \ waiting :
         /\ running' = running \ {c} /\ path' = Append(path, Tool(c, "ok"))
         /\ Emit(<<EventOf("ToolFinished", c)>>)
  BY DEF ToolResult
<1> DEFINE e == EventOf("ToolFinished", c)
<1>3. /\ events \in Seq(Events) /\ screen' = screen /\ path \in Seq(Still) /\ retry \in BOOLEAN
      /\ run = "live" /\ Emit(<<e>>) /\ running \in SUBSET Nat
      /\ UNCHANGED <<run, queue, retry, asks>> /\ progressed' = TRUE /\ c \in running
  BY <1>2, Finite DEF IInv, TypeOK, ToolResult, Unfailing, ui
<1>4. e \in Events
  BY <1>3, EventsAre DEF Numbered
<1>5. Shown(s, e) = ToolFinished(s, c)
  BY DEF Shown, EventOf
<1> HIDE DEF e
<1>6. events' \in Seq(Events) /\ Reads(screen', events', ToolFinished(s, c))
  BY <1>1, <1>3, <1>4, <1>5, SentFew
<1>7. Fits(s, path, running, Mode, queue, retry) /\ Mode \in Working /\ Mode' = "live"
  BY <1>1, <1>3 DEF Mode, Working
<1>8. /\ Fits(ToolFinished(s, c), Append(path, Tool(c, "ok")), running \ {c}, "live", queue, retry)
      /\ Append(path, Tool(c, "ok")) \in Seq(Still)
  BY <1>3, <1>7, FitsFinished
<1>9. Follows'
  BY <1>2, <1>3, <1>6, <1>7, <1>8 DEF Follows
<1>10. running' \in SUBSET (1..calls') /\ path' \in Seq(Still)
  BY <1>2, <1>8 DEF IInv, TypeOK, ToolResult
<1> QED BY <1>3, <1>6, <1>9, <1>10 DEF IInv, TypeOK, Alone, ToolResult, Unfailing, ui

\* The end of a run: its path and its events, whatever they are, if they fit.
LEMMA EndStep ==
    ASSUME IInv, NEW outcome \in Runs \ {"none", "live"}, NEW p \in Seq(Still),
           NEW es \in Seq(Events), End(outcome, p, es), failures' \in Nat,
           NEW s, Reads(screen, events, s), NEW u, Reads(s, es, u),
           Fits(u, p, {}, outcome, queue, FALSE), Streaming
    PROVE  IInv'
<1>1. retry = FALSE
  BY DEF IInv, TypeOK, Alone, Streaming
<1>2. /\ screen' = screen /\ Emit(es) /\ run' = outcome /\ path' = p /\ running' = {}
      /\ UNCHANGED <<progressed, cancelled, queue, retry, budget, asks, screen>>
      /\ UNCHANGED <<prompts, calls, commands>> /\ Mode' = outcome
  BY DEF End, ui, Mode
<1>3. events' \in Seq(Events) /\ Reads(screen', events', u)
  BY <1>2, Sent DEF IInv, TypeOK
<1>4. Follows'
  BY <1>1, <1>2, <1>3 DEF Follows
<1> QED BY <1>1, <1>2, <1>3, <1>4 DEF IInv, TypeOK, Alone, Runs

\* What the end of a run starts from.
LEMMA AtTheEnd ==
    ASSUME IInv, run = "live", NEW s, Fits(s, path, running, Mode, queue, retry)
    PROVE  /\ Fits(s, path, running, Mode, queue, FALSE) /\ Mode \in Working /\ Streaming
           /\ running \in SUBSET Nat /\ IsFiniteSet(running) /\ path \in Seq(Still)
           /\ \A r \in Quiet : Fits(CommitInterrupted(s), CutPath, {}, r, queue, FALSE)
           /\ CutPath \in Seq(Still) /\ (running = {} => CutPath = path)
<1>1. /\ retry = FALSE /\ path \in Seq(Still) /\ Mode \in Working /\ Mode # "compacted"
      /\ Streaming
  BY DEF IInv, TypeOK, Alone, Streaming, Mode, Working
<1>2. running \in SUBSET Nat /\ IsFiniteSet(running)
  BY Finite DEF IInv
<1>3. Fits(s, path, running, Mode, queue, FALSE)
  BY <1>1
<1>4. \A r \in Quiet :
         /\ Fits(CommitInterrupted(s), path \o Calls(running, "killed"), {}, r, queue, FALSE)
         /\ path \o Calls(running, "killed") \in Seq(Still)
         /\ path \o Calls({}, "killed") = path
  BY <1>1, <1>2, <1>3, FitsCut
<1>5. "none" \in Quiet
  BY DEF Quiet
<1> QED BY <1>1, <1>2, <1>3, <1>4, <1>5 DEF CutPath

LEMMA ReplyDoneStep ==
    ASSUME IInv, ReplyDone
    PROVE  IInv'
<1>1. PICK s : Fits(s, path, running, Mode, queue, retry) /\ Reads(screen, events, s)
  BY DEF IInv, Follows
<1> DEFINE e == Event("StreamDone")
           u == CommitDone(s)
<1>2. e \in Events /\ Shown(s, e) = u
  BY EventsAre, ShownPlain DEF Plain
<1>3. run = "live" /\ running = {} /\ failures' \in Nat
  BY DEF ReplyDone, IInv, TypeOK
<1>4. /\ Fits(s, path, running, Mode, queue, FALSE) /\ path \in Seq(Still)
      /\ Mode \in Working /\ Streaming /\ "ended" \in Runs \ {"none", "live"}
  BY <1>1, <1>3, AtTheEnd DEF Runs
<1>5. Fits(u, path, {}, "ended", queue, FALSE)
  <2>1. Fits(s, path, {}, Mode, queue, FALSE)
    BY <1>3, <1>4
  <2>2. FALSE \in BOOLEAN /\ "ended" \in Quiet
    BY DEF Quiet
  <2> QED BY <1>4, <2>1, <2>2, FitsDone
<1> HIDE DEF e, u
<1>6. <<e>> \in Seq(Events) /\ Reads(s, <<e>>, u)
  BY <1>2, ReadsFew
<1>7. CASE End("ended", path, <<e>>)
  BY <1>1, <1>3, <1>4, <1>5, <1>6, <1>7, EndStep
<1>8. CASE Allowed("final") /\ ~progressed /\ End("ended", WithText(path), <<e>>)
  <2>1. WithText(path) \in Seq(Still)
    <3>1. Text \in Still /\ Still \in SUBSET Block /\ path \in Seq(Block) /\ <<>> \in Seq(Block)
      BY <1>4, StillBlocks
    <3> QED BY <1>4, <3>1, GroupedText
  <2>2. ~PaneTold
    BY <1>8 DEF PaneTold, Allowed
  <2>3. Fits(u, WithText(path), {}, "ended", queue, FALSE)
    BY <1>5, <2>2 DEF Fits, KeepsPane
  <2> QED BY <1>1, <1>3, <1>4, <1>6, <1>8, <2>1, <2>3, EndStep
<1> QED BY <1>7, <1>8 DEF ReplyDone, e

LEMMA CutAtBoundaryStep ==
    ASSUME IInv, CutAtBoundary
    PROVE  IInv'
<1>1. PICK s : Fits(s, path, running, Mode, queue, retry) /\ Reads(screen, events, s)
  BY DEF IInv, Follows
<1> DEFINE e == Event("StreamCancelled")
           u == CommitInterrupted(s)
<1>2. e \in Events /\ Shown(s, e) = u
  BY EventsAre, ShownPlain DEF Plain
<1>3. run = "live" /\ failures' \in Nat
  BY DEF CutAtBoundary, IInv, TypeOK
<1>4. /\ Fits(u, CutPath, {}, "ended", queue, FALSE) /\ CutPath \in Seq(Still)
      /\ Streaming /\ "ended" \in Runs \ {"none", "live"}
  BY <1>1, <1>3, AtTheEnd DEF Quiet, Runs
<1>5. End("ended", CutPath, <<e>>)
  BY DEF CutAtBoundary
<1> HIDE DEF e, u
<1>6. <<e>> \in Seq(Events) /\ Reads(s, <<e>>, u)
  BY <1>2, ReadsFew
<1> QED BY <1>1, <1>3, <1>4, <1>5, <1>6, EndStep

LEMMA FailsStep ==
    ASSUME IInv, Fails
    PROVE  IInv'
<1>1. PICK s : Fits(s, path, running, Mode, queue, retry) /\ Reads(screen, events, s)
  BY DEF IInv, Follows
<1>2. /\ run = "live" /\ failures' \in Nat /\ End("failed", CutPath, <<>>)
      /\ running # {} => Allowed("calls")
  BY DEF Fails, IInv, TypeOK
<1>3. /\ Fits(s, path, running, Mode, queue, FALSE) /\ Mode \in Working /\ CutPath \in Seq(Still)
      /\ running = {} => CutPath = path
      /\ Streaming /\ "failed" \in Runs \ {"none", "live"}
  BY <1>1, <1>2, AtTheEnd DEF Runs
<1>4. Fits(s, CutPath, {}, "failed", queue, FALSE)
  <2>1. KeepsBusy(s, "failed", FALSE)
    BY <1>3 DEF Fits, KeepsBusy, Working, Alive, Compacts
  <2>2. KeepsPane(s, CutPath, {}, "failed", FALSE)
    <3>1. CASE running = {}
      BY <1>3, <3>1 DEF Fits, KeepsPane, Working
    <3>2. CASE running # {}
      BY <1>2, <3>2 DEF KeepsPane, PaneTold, Allowed
    <3> QED BY <3>1, <3>2
  <2> QED BY <1>3, <2>1, <2>2 DEF Fits
<1>5. <<>> \in Seq(Events) /\ Reads(s, <<>>, s)
  BY ReadsNothing
<1> QED BY <1>1, <1>2, <1>3, <1>4, <1>5, EndStep

\* The status of a compaction inside a run, behind its error or repeated; and
\* of one that has succeeded, until the pane is loaded again.
LEMMA FitsStatus ==
    ASSUME NEW s, NEW p, NEW q, NEW r \in {"overflowed", "compacting"},
           Fits(s, p, {}, r, q, FALSE)
    PROVE  /\ Fits(CompactionSaid(s), p, {}, "compacting", q, FALSE)
           /\ \A p2 : Fits(CompactionSaid(s), p2, {}, "compacted", q, FALSE)
<1> DEFINE u == CompactionSaid(s)
<1>1. Alike(u, s) /\ u.busy /\ u.compacting
  BY SignsAre DEF Fits
<1> HIDE DEF u
<1>2. KeepsBusy(u, "compacting", FALSE) /\ KeepsBusy(u, "compacted", FALSE)
  BY <1>1 DEF KeepsBusy, Alive, Compacts
<1>3. u \in Screens /\ KeepsQueue(u, q)
  BY <1>1 DEF Alike, Fits, KeepsQueue
<1>4. KeepsPane(u, p, {}, "compacting", FALSE)
  <2>1. Pane(s, p, {}) => Pane(u, p, {})
    BY <1>1, PaneSame DEF Alike
  <2> QED BY <1>1, <2>1 DEF Alike, Fits, KeepsPane
<1>5. \A p2 : KeepsPane(u, p2, {}, "compacted", FALSE)
  BY DEF KeepsPane
<1> QED BY <1>2, <1>3, <1>4, <1>5 DEF Fits, u

LEMMA OverflowsStep ==
    ASSUME IInv, Overflows
    PROVE  IInv'
<1>1. PICK s : Fits(s, path, running, Mode, queue, retry) /\ Reads(screen, events, s)
  BY DEF IInv, Follows
<1> DEFINE e == Event("StreamError")
           a == Event("CompactionStarted")
           u == CommitInterrupted(s)
           v == CompactionSaid(u)
<1>2. /\ e \in Events /\ a \in Events /\ Shown(s, e) = u /\ Shown(u, a) = v
  BY EventsAre, ShownPlain DEF Plain
<1>3. /\ run = "live" /\ failures' \in Nat
      /\ {"overflowed", "compacting"} \in SUBSET (Runs \ {"none", "live"})
  BY DEF Overflows, IInv, TypeOK, Runs
<1>4. Fits(u, CutPath, {}, "overflowed", queue, FALSE) /\ CutPath \in Seq(Still) /\ Streaming
  BY <1>1, <1>3, AtTheEnd DEF Quiet
<1>5. Fits(v, CutPath, {}, "compacting", queue, FALSE)
  <2> HIDE DEF u
  <2> QED BY <1>4, FitsStatus
<1> HIDE DEF e, a, u, v
<1>6. /\ Reads(s, <<e>>, u) /\ <<e>> \in Seq(Events)
      /\ Reads(s, <<e, a>>, v) /\ <<e, a>> \in Seq(Events)
  <2>1. Reads(s, <<e>>, Shown(s, e)) /\ <<e>> \in Seq(Events)
    BY <1>2, ReadsFew
  <2>2. Reads(s, <<e, a>>, Shown(Shown(s, e), a)) /\ <<e, a>> \in Seq(Events)
    BY <1>2, ReadsFew
  <2> QED BY <1>2, <2>1, <2>2
<1>7. CASE End("overflowed", CutPath, <<e>>)
  BY <1>1, <1>3, <1>4, <1>6, <1>7, EndStep
<1>8. CASE End("compacting", CutPath, <<e, a>>)
  BY <1>1, <1>3, <1>4, <1>5, <1>6, <1>8, EndStep
<1> QED BY <1>7, <1>8 DEF Overflows, e, a

LEMMA CompactionEndsStep ==
    ASSUME IInv, CompactionEnds
    PROVE  IInv'
<1>1. PICK s : Fits(s, path, running, Mode, queue, retry) /\ Reads(screen, events, s)
  BY DEF IInv, Follows
<1> DEFINE e == Event("StreamError")
           b == Event("CompactionFinished")
           u == CompactionSaid(s)
<1>2. /\ e \in Events /\ b \in Events /\ Shown(s, b) = u
      /\ Shown(s, e) = CommitInterrupted(s) /\ Shown(u, e) = CommitInterrupted(u)
  BY EventsAre, ShownPlain DEF Plain
<1>3. /\ run = "compacting" /\ Streaming /\ failures' \in Nat /\ path \in Seq(Still)
      /\ running = {} /\ retry = FALSE /\ Mode = "compacting"
      /\ {"overflowed", "compacted"} \in SUBSET (Runs \ {"none", "live"})
  BY DEF CompactionEnds, IInv, TypeOK, Alone, Streaming, Mode, Runs
<1>4. Fits(s, path, {}, "compacting", queue, FALSE)
  BY <1>1, <1>3
<1>5. Fits(u, path, {}, "compacting", queue, FALSE)
      /\ \A p : Fits(u, p, {}, "compacted", queue, FALSE)
  BY <1>4, FitsStatus
<1> HIDE DEF u
<1>6. /\ Fits(CommitInterrupted(s), path, {}, "overflowed", queue, FALSE)
      /\ Fits(CommitInterrupted(u), path, {}, "overflowed", queue, FALSE)
  BY <1>3, <1>4, <1>5, FitsOver DEF Quiet
<1> HIDE DEF e, b
<1>7. /\ Reads(s, <<e>>, CommitInterrupted(s)) /\ <<e>> \in Seq(Events)
      /\ Reads(s, <<b>>, u) /\ <<b>> \in Seq(Events)
      /\ Reads(s, <<b>> \o <<e>>, CommitInterrupted(u)) /\ <<b>> \o <<e>> \in Seq(Events)
  <2>1. Reads(s, <<e>>, Shown(s, e)) /\ <<e>> \in Seq(Events)
    BY <1>2, ReadsFew
  <2>2. Reads(s, <<b>>, Shown(s, b)) /\ <<b>> \in Seq(Events)
    BY <1>2, ReadsFew
  <2>3. Reads(s, <<b>>, u)
    BY <1>2, <2>2
  <2>4. Reads(s, <<b>> \o <<e>>, Shown(u, e))
    BY <1>2, <2>2, <2>3, ReadsEach
  <2>5. <<b>> \o <<e>> \in Seq(Events)
    BY <2>1, <2>2, JoinIs
  <2> QED BY <1>2, <2>1, <2>2, <2>3, <2>4, <2>5
<1>8. <<>> \o <<e>> = <<e>>
  BY <1>2
<1>9. CASE End("overflowed", path, <<>> \o <<e>>)
  <2>1. End("overflowed", path, <<e>>)
    BY <1>8, <1>9
  <2> QED BY <1>1, <1>3, <1>6, <1>7, <2>1, EndStep
<1>10. CASE End("overflowed", path, <<b>> \o <<e>>)
  BY <1>1, <1>3, <1>6, <1>7, <1>10, EndStep
<1>11. CASE \E p \in Compacted(path) : End("compacted", p, <<b>>)
  <2>1. PICK p \in Compacted(path) : End("compacted", p, <<b>>)
    BY <1>11
  <2>2. p \in Seq(Still)
    BY <1>3, PathsAre
  <2> QED BY <1>1, <1>3, <1>5, <1>7, <2>1, <2>2, EndStep
<1> QED BY <1>9, <1>10, <1>11 DEF CompactionEnds, e, b

LEMMA HandleEndStep ==
    ASSUME IInv, HandleEnd
    PROVE  IInv'
<1>1. PICK s : Fits(s, path, running, Mode, queue, retry) /\ Reads(screen, events, s)
  BY DEF IInv, Follows
<1>2. /\ events \in Seq(Events) /\ path \in Seq(Still) /\ queue \in Seq(Nat)
      /\ running = {} /\ retry = FALSE /\ Mode = "ended"
      /\ retry' = FALSE /\ screen' = screen /\ DispatchNext(path, <<>>)
  BY DEF IInv, TypeOK, Alone, HandleEnd, ui, Mode
<1>3. Fits(s, path, {}, "none", queue, FALSE)
  <2>1. Fits(s, path, {}, "ended", queue, FALSE)
    BY <1>1, <1>2
  <2> QED BY <2>1, FitsQuiet DEF Quiet
<1>4. <<>> \in Seq(Events) /\ Reads(s, <<>>, s)
  BY ReadsNothing
<1>5. Landed
  BY <1>1, <1>2, <1>3, <1>4, Dispatches
<1> QED BY <1>2, <1>5, LandedIs DEF IInv, TypeOK, HandleEnd, bounds, ui, NoRetries

LEMMA HandleOverflowStep ==
    ASSUME IInv, HandleOverflow
    PROVE  IInv'
<1>1. PICK s : Fits(s, path, running, Mode, queue, retry) /\ Reads(screen, events, s)
  BY DEF IInv, Follows
<1>2. /\ events \in Seq(Events) /\ path \in Seq(Still) /\ queue \in Seq(Nat)
      /\ running = {} /\ retry = FALSE /\ run \in {"compacted", "overflowed"}
      /\ retry' = FALSE /\ screen' = screen /\ queue' = queue /\ Mode = run
  BY DEF IInv, TypeOK, Alone, HandleOverflow, ui, Mode
<1>3. /\ screen \in Screens /\ asks' \in SUBSET Nat
      /\ prompts' \in Nat /\ calls' \in Nat /\ failures' \in Nat
      /\ commands' \in Nat /\ budget \in [turn : Nat, overflow : Nat]
  BY DEF IInv, TypeOK, HandleOverflow, bounds
<1>4. Fits(s, path, {}, run, queue, FALSE) /\ s \in Screens /\ KeepsQueue(s, queue)
  <2>1. Fits(s, path, {}, run, queue, FALSE)
    BY <1>1, <1>2
  <2> QED BY <2>1 DEF Fits
<1>5. CASE run = "compacted" /\ budget.overflow < MaxOverflows
  <2> DEFINE e == Fork(path, FALSE)
             u == Forked(s, path, FALSE)
  <2>1. budget' = [budget EXCEPT !.overflow = @ + 1] /\ Resume(<<e>>)
    BY <1>5 DEF HandleOverflow
  <2>2. e \in Events
    BY <1>2, EventsAre
  <2>3. Shown(s, e) = u
    BY DEF Shown, Fork
  <2>4. Fits(u, path, {}, "fresh", queue, FALSE)
    <3>1. BusyTold => /\ (s.busy /\ ~FALSE) <=> ("fresh" \in Alive \/ FALSE)
                      /\ (s.compacting /\ ~FALSE) => "fresh" \in Compacts
      BY <1>4, <1>5 DEF Fits, KeepsBusy, Alive, Compacts
    <3>2. FALSE \in BOOLEAN
      OBVIOUS
    <3> QED BY <1>2, <1>4, <3>1, <3>2, FitsReload
  <2> HIDE DEF e, u
  <2>5. <<e>> \in Seq(Events) /\ Reads(s, <<e>>, u)
    BY <2>2, <2>3, ReadsFew
  <2>6. Landed
    BY <1>1, <1>2, <1>4, <2>1, <2>4, <2>5, Resumes
  <2>7. budget' \in [turn : Nat, overflow : Nat]
    BY <1>3, <2>1
  <2> QED BY <1>2, <1>3, <2>6, <2>7, LandedIs
<1>6. CASE ~(run = "compacted" /\ budget.overflow < MaxOverflows)
  <2> DEFINE e == Event("StreamError")
             u == CommitInterrupted(s)
  <2>1. /\ run = "compacted" => Allowed("exhaust")
        /\ budget' = [budget EXCEPT !.overflow = 0]
        /\ path' = path /\ NoRequest /\ Emit(<<e>>)
    BY <1>6 DEF HandleOverflow
  <2>2. e \in Events /\ Shown(s, e) = u
    BY EventsAre, ShownPlain DEF Plain
  <2> HIDE DEF e
  <2>3. events' \in Seq(Events) /\ Reads(screen', events', u)
    BY <1>1, <1>2, <2>1, <2>2, SentFew
  <2>4. Fits(u, path, {}, "none", queue, FALSE)
    <3>1. CASE run = "compacted"
      <4>1. ~PaneTold
        BY <2>1, <3>1 DEF PaneTold, Allowed
      <4> QED BY <1>4, <4>1, FitsError DEF Quiet
    <3>2. CASE run # "compacted"
      <4> HIDE DEF u
      <4> QED BY <1>2, <1>4, <3>2, FitsOver DEF Quiet, u
    <3> QED BY <3>1, <3>2
  <2>5. Follows'
    BY <1>2, <2>1, <2>3, <2>4 DEF Follows, NoRequest, Request, Mode
  <2>6. Landed
    BY <1>2, <2>1, <2>3, <2>5 DEF Landed, NoRequest, Request
  <2>7. budget' \in [turn : Nat, overflow : Nat]
    BY <1>3, <2>1
  <2> QED BY <1>2, <1>3, <2>6, <2>7, LandedIs
<1> QED BY <1>5, <1>6

LEMMA HandleFailureStep ==
    ASSUME IInv, HandleFailure
    PROVE  IInv'
<1>1. PICK s : Fits(s, path, running, Mode, queue, retry) /\ Reads(screen, events, s)
  BY DEF IInv, Follows
<1>2. /\ events \in Seq(Events) /\ path \in Seq(Still) /\ queue \in Seq(Nat)
      /\ running = {} /\ retry = FALSE /\ run = "failed"
      /\ screen' = screen /\ queue' = queue /\ path' = path /\ NoRequest
      /\ Mode = "failed" /\ Mode' = "none"
  BY DEF IInv, TypeOK, Alone, HandleFailure, ui, NoRequest, Request, Mode
<1>3. /\ screen \in Screens /\ asks' \in SUBSET Nat
      /\ prompts' \in Nat /\ calls' \in Nat /\ failures' \in Nat
      /\ commands' \in Nat /\ budget \in [turn : Nat, overflow : Nat]
  BY DEF IInv, TypeOK, HandleFailure, bounds
<1>4. Fits(s, path, {}, "failed", queue, FALSE)
  BY <1>1, <1>2
<1> DEFINE spent == IF progressed THEN 0 ELSE budget.turn
           a == Event("RetryScheduled")
           e == Event("StreamError")
<1>5. spent \in Nat
  BY <1>3
<1>6. \/ /\ budget' = [budget EXCEPT !.turn = spent + 1] /\ retry' = TRUE /\ Emit(<<a>>)
      \/ /\ budget' = [budget EXCEPT !.turn = 0] /\ retry' = FALSE /\ Emit(<<e>>)
  BY DEF HandleFailure
<1> HIDE DEF spent
<1>7. budget' \in [turn : Nat, overflow : Nat]
  BY <1>3, <1>5, <1>6
<1>8. a \in Events /\ e \in Events /\ Shown(s, a) = RetryScheduled(s)
      /\ Shown(s, e) = CommitInterrupted(s)
  BY EventsAre, ShownPlain DEF Plain
<1> HIDE DEF a, e
<1>9. CASE retry' = TRUE /\ Emit(<<a>>)
  <2>1. events' \in Seq(Events) /\ Reads(screen', events', RetryScheduled(s))
    BY <1>1, <1>2, <1>8, <1>9, SentFew
  <2>2. Fits(RetryScheduled(s), path, {}, "none", queue, TRUE)
    BY <1>2, <1>4, FitsRetry
  <2>3. Follows'
    BY <1>2, <1>9, <2>1, <2>2 DEF Follows, NoRequest, Request
  <2>4. run' = "none" /\ running' = {} /\ progressed' \in BOOLEAN /\ cancelled' \in BOOLEAN
    BY <1>2 DEF NoRequest, Request
  <2> QED BY <1>2, <1>3, <1>7, <1>9, <2>1, <2>3, <2>4 DEF IInv, TypeOK, Alone, Runs
<1>10. CASE retry' = FALSE /\ Emit(<<e>>)
  <2>1. events' \in Seq(Events) /\ Reads(screen', events', CommitInterrupted(s))
    BY <1>1, <1>2, <1>8, <1>10, SentFew
  <2>2. Fits(CommitInterrupted(s), path, {}, "none", queue, FALSE)
    BY <1>2, <1>4, FitsOver DEF Quiet
  <2>3. Follows'
    BY <1>2, <1>10, <2>1, <2>2 DEF Follows, NoRequest, Request
  <2>4. Landed
    BY <1>2, <2>1, <2>3 DEF Landed, NoRequest, Request
  <2> QED BY <1>2, <1>3, <1>7, <1>10, <2>4, LandedIs
<1> QED BY <1>6, <1>9, <1>10

LEMMA RetryFiresStep ==
    ASSUME IInv, RetryFires
    PROVE  IInv'
<1>1. PICK s : Fits(s, path, running, Mode, queue, retry) /\ Reads(screen, events, s)
  BY DEF IInv, Follows
<1>2. /\ events \in Seq(Events) /\ path \in Seq(Still) /\ queue \in Seq(Nat)
      /\ running = {} /\ retry = TRUE /\ run = "none"
      /\ retry' = FALSE /\ screen' = screen /\ queue' = queue /\ Resume(<<>>)
      /\ Mode = "none"
  BY DEF IInv, TypeOK, Alone, RetryFires, ui, Mode
<1>3. Fits(s, path, {}, "none", queue, TRUE)
  BY <1>1, <1>2
<1>4. Fits(s, path, {}, "fresh", queue, FALSE) /\ s \in Screens /\ KeepsQueue(s, queue)
  BY <1>3 DEF Fits, KeepsBusy, KeepsPane, Alive, Compacts
<1>5. <<>> \in Seq(Events) /\ Reads(s, <<>>, s)
  BY ReadsNothing
<1>6. Landed
  BY <1>1, <1>2, <1>4, <1>5, Resumes
<1> QED BY <1>2, <1>6, LandedIs DEF IInv, TypeOK, RetryFires, bounds, ui

LEMMA GraceFiresStep ==
    ASSUME IInv, GraceFires
    PROVE  IInv'
<1>1. PICK s : Fits(s, path, running, Mode, queue, retry) /\ Reads(screen, events, s)
  BY DEF IInv, Follows
<1> DEFINE e == Event("StreamCancelled")
           u == CommitInterrupted(s)
<1>2. /\ events \in Seq(Events) /\ queue \in Seq(Nat) /\ run = "live" /\ retry = FALSE
      /\ retry' = FALSE /\ screen' = screen /\ DispatchNext(CutPath, <<e>>)
  BY DEF IInv, TypeOK, Alone, GraceFires, ui
<1>3. e \in Events /\ Shown(s, e) = u
  BY EventsAre, ShownPlain DEF Plain
<1>4. Fits(u, CutPath, {}, "none", queue, FALSE) /\ CutPath \in Seq(Still)
  BY <1>1, <1>2, AtTheEnd DEF Quiet
<1> HIDE DEF e, u
<1>5. <<e>> \in Seq(Events) /\ Reads(s, <<e>>, u)
  BY <1>3, ReadsFew
<1>6. Landed
  BY <1>1, <1>2, <1>4, <1>5, Dispatches
<1> QED BY <1>2, <1>6, LandedIs DEF IInv, TypeOK, GraceFires, bounds, ui

\* A question or a permission, heard: whoever hears it is busy already.
LEMMA HearAskStep ==
    ASSUME IInv, HearAsk
    PROVE  IInv'
<1>1. PICK s : Fits(s, path, running, Mode, queue, retry) /\ Reads(screen, events, s)
  BY DEF IInv, Follows
<1>2. PICK c \in asks : asks' = asks \ {c} /\ Emit(<<EventOf("Asked", c)>>)
  BY DEF HearAsk
<1> DEFINE e == EventOf("Asked", c)
<1>3. /\ events \in Seq(Events) /\ screen' = screen /\ c \in Nat /\ asks' \in SUBSET Nat
      /\ Emit(<<e>>) /\ Mode' = Mode
      /\ UNCHANGED <<path, running, run, progressed, cancelled, queue, retry, budget, bounds>>
  BY <1>2 DEF HearAsk, core, turn, ui, Mode, IInv, TypeOK
<1>4. e \in Events
  BY <1>3, EventsAre DEF Numbered
<1>5. Shown(s, e) = Busy(s)
  BY DEF Shown, EventOf
<1> HIDE DEF e
<1>6. events' \in Seq(Events) /\ Reads(screen', events', Busy(s))
  BY <1>1, <1>3, <1>4, <1>5, SentFew
<1>7. Alike(Busy(s), s) /\ Busy(s).busy /\ ~Busy(s).compacting
  BY <1>1, SignsAre DEF Fits
<1>8. BusyTold => Mode \in Alive \/ retry
  BY DEF HearAsk, IsBusy, Streaming, BusyTold, Allowed, Mode, Alive
<1>9. KeepsBusy(Busy(s), Mode, retry)
  BY <1>7, <1>8 DEF KeepsBusy
<1>10. Fits(Busy(s), path, running, Mode, queue, retry)
  BY <1>1, <1>7, <1>9, FitsAlike
<1>11. Follows'
  BY <1>3, <1>6, <1>10 DEF Follows
<1> QED BY <1>3, <1>6, <1>11 DEF IInv, TypeOK, Alone, bounds

-----------------------------------------------------------------------------

LEMMA InitInv == Init => IInv
<1> SUFFICES ASSUME Init PROVE IInv
  OBVIOUS
<1>1. TypeOK /\ Alone
  <2>1. screen \in Screens
    BY DEF Init, Blank, Screens
  <2>2. path \in Seq(Still) /\ queue \in Seq(Nat) /\ events \in Seq(Events)
    BY DEF Init
  <2> QED BY <2>1, <2>2 DEF Init, TypeOK, Alone, Runs, NoRetries
<1>2. Fits(Blank, <<>>, {}, "none", <<>>, FALSE)
  <2>1. <<>> \in Seq(Still) /\ Blank.turns = <<>> /\ Blank.inflight = <<>> /\ Blank \in Screens
    BY DEF Blank, Screens
  <2>2. Pane(Blank, <<>>, {})
    BY <2>1, PaneReload
  <2> QED BY <2>1, <2>2 DEF Fits, KeepsQueue, KeepsBusy, KeepsPane, Blank, Alive
<1>3. Reads(Blank, <<>>, Blank)
  BY ReadsNothing
<1>4. Follows
  BY <1>2, <1>3 DEF Init, Follows, Mode
<1> QED BY <1>1, <1>4 DEF IInv

LEMMA StutterStep ==
    ASSUME IInv, UNCHANGED vars
    PROVE  IInv'
BY DEF IInv, TypeOK, Alone, Follows, Mode, vars, core, turn, ui, bounds

LEMMA NextInv == IInv /\ [Next]_vars => IInv'
<1> SUFFICES ASSUME IInv, [Next]_vars PROVE IInv'
  OBVIOUS
<1>1. CASE Show
  BY <1>1, ShowStep
<1>2. CASE Command
  BY <1>2, SendMessageStep, AttachmentFailsStep, CancelFlowStep, CancelRetryStep,
     RecallSteeredStep, ForkSessionStep, LoadSessionStep, DeleteBranchStep, NewSessionStep,
     ReplayStep, CompactSessionStep, CommandFailsStep DEF Command
<1>3. CASE Stream
  BY <1>3, TokenStep, ToolStartStep, ToolResultStep, ReplyDoneStep, CutAtBoundaryStep,
     FailsStep, OverflowsStep, CompactionEndsStep DEF Stream
<1>4. CASE Loop
  BY <1>4, HandleEndStep, HandleOverflowStep, HandleFailureStep, RetryFiresStep,
     GraceFiresStep, HearAskStep DEF Loop
<1>5. CASE Answer \/ StatusLine
  BY <1>5, AnswerStep, StatusLineStep
<1>6. CASE UNCHANGED vars
  BY <1>6, StutterStep
<1> QED BY <1>1, <1>2, <1>3, <1>4, <1>5, <1>6 DEF Next

LEMMA Inductive == Spec => []IInv
BY InitInv, NextInv, PTL DEF Spec

\* A screen that has read everything is the one that fits.
LEMMA ReadAll ==
    ASSUME IInv, events = <<>>
    PROVE  Fits(screen, path, running, Mode, queue, retry)
<1>1. PICK s : Fits(s, path, running, Mode, queue, retry) /\ Reads(screen, <<>>, s)
  BY DEF IInv, Follows
<1> QED BY <1>1, ReadsNothing

(* A screen that has read every event lists the prompts the run loop holds,  *)
(* in its order, in every history without a queued prompt that cannot be     *)
(* stored and without a /new that outruns the events.                        *)
THEOREM QueueCorrect ==
    ASSUME QueueTold
    PROVE  Spec => []SteeredTrue
<1>1. IInv => SteeredTrue
  BY ReadAll DEF Fits, KeepsQueue, SteeredTrue
<1> QED BY <1>1, Inductive, PTL

(* Such a screen shows its sign of life exactly while a reply runs, waits    *)
(* for a retry or is about to go on, and takes a double Escape for a cancel  *)
(* only then, in every history the model has in which every prompt's         *)
(* attachments can be read or the core is idle, no command is refused, no    *)
(* /new outruns the events, no command drops a retry without a word, every   *)
(* session can be resumed, /replay sends no prompt, a fork that summarizes   *)
(* recalls a prompt, every ask is heard and answered while its run goes on,  *)
(* no command fails beside a compaction in a run, and no other line of       *)
(* status outruns the events of a compaction.  A queued prompt that cannot   *)
(* be stored, a run compacted once too often, calls that are running when    *)
(* their request fails, a reply in one piece and a session that cannot be    *)
(* loaded again may be among them.  (The model has no fork beside a          *)
(* compaction that a run makes.)                                             *)
THEOREM BusyCorrect ==
    ASSUME BusyTold
    PROVE  Spec => []BusyTrue
<1>1. IInv => BusyTrue
  <2> SUFFICES ASSUME IInv, events = <<>> PROVE BusyTrue
    BY DEF BusyTrue
  <2>1. KeepsBusy(screen, Mode, retry)
    BY ReadAll DEF Fits
  <2>2. (Mode \in Alive) <=> (Streaming \/ run \in {"failed", "compacted"})
    BY DEF Mode, Alive, Streaming, IInv, TypeOK, Runs
  <2> QED BY <2>1, <2>2 DEF KeepsBusy, BusyTrue, IsBusy
<1> QED BY <1>1, Inductive, PTL

(* Such a screen shows what a reload of the session would show, and the      *)
(* calls that run, in every history the model has without the situations in  *)
(* which the screen is not told of a change, or of one that was not made.  A *)
(* queued prompt that cannot be stored, forks that summarize, late asks,     *)
(* commands that fail beside a compaction and lines over its status may be   *)
(* among them.                                                               *)
THEOREM PaneCorrect ==
    ASSUME PaneTold
    PROVE  Spec => []PaneIsStore
<1>1. IInv => PaneIsStore
  <2> SUFFICES ASSUME IInv, events = <<>>, run # "compacted"
               PROVE  Grouped(screen.turns \o screen.inflight) =
                          Grouped(path \o Calls(running, "running"))
    BY DEF PaneIsStore
  <2>1. Pane(screen, path, running)
    BY ReadAll DEF Fits, KeepsPane, Mode
  <2>2. /\ running \in SUBSET Nat /\ IsFiniteSet(running) /\ path \in Seq(Block)
        /\ "running" \in {"running", "ok", "killed"}
    BY Finite, StillBlocks DEF IInv, TypeOK
  <2>3. Grouped(path \o Calls(running, "running"))
            = Beside(Grouped(path), Tools(running, "running"))
    BY <2>2, GroupedCalls
  <2> QED BY <2>1, <2>3 DEF Pane
<1> QED BY <1>1, Inductive, PTL

================================================================================
