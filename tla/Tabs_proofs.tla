------------------------------ MODULE Tabs_proofs ------------------------------
(* The tabs, for any number of them and any bounds.                         *)
(*                                                                          *)
(* What the App does to its slots is stated first, of any App: each move    *)
(* keeps the screens staged and loses none.  TypeOK, StripInv and StreamInv *)
(* are then kept together, whatever the windows, and give OwnStream;        *)
(* AnswersInv and PicksInv rest on them and give CommandsAtHome and         *)
(* PicksReachAll.                                                           *)
EXTENDS Tabs, FiniteSetTheorems, TLAPS

(***************************************************************************)
(* Queues and the strip                                                    *)
(***************************************************************************)
\* What joins a queue is its last.
LEMMA Joins ==
    ASSUME NEW S, NEW q \in Seq(S), NEW e \in S
    PROVE  /\ Append(q, e) \in Seq(S) /\ Append(q, e) # <<>> /\ Len(q) \in Nat
           /\ Len(Append(q, e)) = Len(q) + 1
           /\ DOMAIN q = 1..Len(q) /\ DOMAIN Append(q, e) = 1..(Len(q) + 1)
           /\ Append(q, e)[Len(q) + 1] = e
           /\ \A i \in DOMAIN q : i \in DOMAIN Append(q, e) /\ Append(q, e)[i] = q[i]
           /\ ToSet(Append(q, e)) = ToSet(q) \cup {e}
<1>1. /\ Append(q, e) \in Seq(S) /\ Append(q, e) # <<>> /\ Len(q) \in Nat
      /\ Len(Append(q, e)) = Len(q) + 1
      /\ DOMAIN q = 1..Len(q) /\ DOMAIN Append(q, e) = 1..(Len(q) + 1)
      /\ Append(q, e)[Len(q) + 1] = e
      /\ \A i \in DOMAIN q : Append(q, e)[i] = q[i]
  OBVIOUS
<1> DEFINE r == Append(q, e)
<1> HIDE DEF r
<1>2. ToSet(r) = ToSet(q) \cup {e}
  <2>1. ASSUME NEW x \in ToSet(r) PROVE x \in ToSet(q) \cup {e}
    <3> PICK i \in DOMAIN r : r[i] = x
      BY <2>1 DEF ToSet
    <3> QED BY <1>1 DEF ToSet, r
  <2>2. ASSUME NEW x \in ToSet(q) \cup {e} PROVE x \in ToSet(r)
    <3>1. CASE x = e
      BY <1>1, <3>1 DEF ToSet, r
    <3>2. CASE x # e
      <4> PICK i \in DOMAIN q : q[i] = x
        BY <2>2, <3>2 DEF ToSet
      <4> QED BY <1>1 DEF ToSet, r
    <3> QED BY <3>1, <3>2
  <2> QED BY <2>1, <2>2
<1> QED BY <1>1, <1>2 DEF r

\* The rest moves up when the first leaves.
LEMMA Leads ==
    ASSUME NEW S, NEW q \in Seq(S), q # <<>>
    PROVE  /\ Tail(q) \in Seq(S) /\ Len(q) \in Nat \ {0} /\ Len(Tail(q)) = Len(q) - 1
           /\ Head(q) \in S /\ Head(q) = q[1] /\ 1 \in DOMAIN q
           /\ DOMAIN q = 1..Len(q) /\ DOMAIN Tail(q) = 1..(Len(q) - 1)
           /\ \A i \in DOMAIN Tail(q) : i + 1 \in DOMAIN q /\ Tail(q)[i] = q[i + 1]
           /\ \A i \in DOMAIN q : i # 1 => i - 1 \in DOMAIN Tail(q) /\ Tail(q)[i - 1] = q[i]
           /\ ToSet(q) = ToSet(Tail(q)) \cup {Head(q)}
<1>1. /\ Tail(q) \in Seq(S) /\ Len(q) \in Nat \ {0} /\ Len(Tail(q)) = Len(q) - 1
      /\ Head(q) \in S /\ Head(q) = q[1] /\ 1 \in DOMAIN q
      /\ DOMAIN q = 1..Len(q) /\ DOMAIN Tail(q) = 1..(Len(q) - 1)
  OBVIOUS
<1>2. \A i \in DOMAIN Tail(q) : i + 1 \in DOMAIN q /\ Tail(q)[i] = q[i + 1]
  BY <1>1
<1>3. \A i \in DOMAIN q : i # 1 => i - 1 \in DOMAIN Tail(q) /\ Tail(q)[i - 1] = q[i]
  <2> SUFFICES ASSUME NEW i \in DOMAIN q, i # 1
               PROVE  i - 1 \in DOMAIN Tail(q) /\ Tail(q)[i - 1] = q[i]
    OBVIOUS
  <2>1. i - 1 \in DOMAIN Tail(q) /\ (i - 1) + 1 = i
    BY <1>1
  <2> QED BY <1>2, <2>1
<1> DEFINE r == Tail(q)
           h == Head(q)
<1> HIDE DEF r, h
<1>4. ToSet(q) = ToSet(r) \cup {h}
  <2>1. ASSUME NEW x \in ToSet(q) PROVE x \in ToSet(r) \cup {h}
    <3> PICK i \in DOMAIN q : q[i] = x
      BY <2>1 DEF ToSet
    <3> QED BY <1>1, <1>3 DEF ToSet, r, h
  <2>2. ASSUME NEW x \in ToSet(r) \cup {h} PROVE x \in ToSet(q)
    <3>1. CASE x = h
      BY <1>1, <3>1 DEF ToSet, h
    <3>2. CASE x # h
      <4> PICK i \in DOMAIN r : r[i] = x
        BY <2>2, <3>2 DEF ToSet
      <4> QED BY <1>2 DEF ToSet, r
    <3> QED BY <3>1, <3>2
  <2> QED BY <2>1, <2>2
<1> QED BY <1>1, <1>2, <1>3, <1>4 DEF r, h

\* What is not yet in a queue may join it.
LEMMA JoinsOnce ==
    ASSUME NEW S, NEW q \in Seq(S), NEW e \in S, IsInjective(q), e \notin ToSet(q)
    PROVE  IsInjective(Append(q, e))
<1> DEFINE r == Append(q, e)
<1>1. /\ DOMAIN r = 1..(Len(q) + 1) /\ DOMAIN q = 1..Len(q) /\ r[Len(q) + 1] = e /\ Len(q) \in Nat
      /\ \A i \in DOMAIN q : r[i] = q[i] /\ q[i] # e
  BY Joins DEF ToSet
<1> HIDE DEF r
<1> QED BY <1>1 DEF IsInjective, r

\* What is left of and right of a place.
LEMMA Pieces ==
    ASSUME NEW S, NEW q \in Seq(S), NEW k \in DOMAIN q
    PROVE  /\ SubSeq(q, 1, k - 1) \in Seq(S) /\ Len(SubSeq(q, 1, k - 1)) = k - 1
           /\ \A i \in 1..(k - 1) : SubSeq(q, 1, k - 1)[i] = q[i]
           /\ SubSeq(q, k + 1, Len(q)) \in Seq(S) /\ Len(SubSeq(q, k + 1, Len(q))) = Len(q) - k
           /\ \A i \in 1..(Len(q) - k) : SubSeq(q, k + 1, Len(q))[i] = q[k + i]
<1>1. DOMAIN q = 1..Len(q) /\ Len(q) \in Nat /\ k \in 1..Len(q)
  OBVIOUS
<1>2. /\ SubSeq(q, 1, k - 1) \in Seq(S) /\ Len(SubSeq(q, 1, k - 1)) = k - 1
      /\ \A i \in 1..(k - 1) : SubSeq(q, 1, k - 1)[i] = q[i]
  BY <1>1
<1>3. /\ SubSeq(q, k + 1, Len(q)) \in Seq(S) /\ Len(SubSeq(q, k + 1, Len(q))) = Len(q) - k
      /\ \A i \in 1..(Len(q) - k) : SubSeq(q, k + 1, Len(q))[i] = q[k + i]
  BY <1>1
<1> QED BY <1>2, <1>3

\* One leaves, wherever it stands.
LEMMA LeavesOnce ==
    ASSUME NEW S, NEW q \in Seq(S), IsInjective(q), NEW k \in DOMAIN q
    PROVE  /\ RemoveAt(q, k) \in Seq(S) /\ IsInjective(RemoveAt(q, k))
           /\ ToSet(RemoveAt(q, k)) = ToSet(q) \ {q[k]}
           /\ \A i, j \in DOMAIN RemoveAt(q, k) : i < j =>
                 \E m, n \in DOMAIN q :
                    m < n /\ RemoveAt(q, k)[i] = q[m] /\ RemoveAt(q, k)[j] = q[n]
<1> DEFINE e == q[k]
           r == RemoveAt(q, k)
<1>1. DOMAIN q = 1..Len(q) /\ Len(q) \in Nat /\ k \in 1..Len(q)
  OBVIOUS
<1>2. /\ SubSeq(q, 1, k - 1) \in Seq(S) /\ Len(SubSeq(q, 1, k - 1)) = k - 1
      /\ \A i \in 1..(k - 1) : SubSeq(q, 1, k - 1)[i] = q[i]
      /\ SubSeq(q, k + 1, Len(q)) \in Seq(S) /\ Len(SubSeq(q, k + 1, Len(q))) = Len(q) - k
      /\ \A i \in 1..(Len(q) - k) : SubSeq(q, k + 1, Len(q))[i] = q[k + i]
  BY Pieces
<1> DEFINE a == SubSeq(q, 1, k - 1)
           b == SubSeq(q, k + 1, Len(q))
<1>4. r = a \o b
  BY DEF RemoveAt
<1> HIDE DEF a, b, r
<1>3. /\ a \in Seq(S) /\ Len(a) = k - 1 /\ \A i \in 1..(k - 1) : a[i] = q[i]
      /\ b \in Seq(S) /\ Len(b) = Len(q) - k /\ \A i \in 1..(Len(q) - k) : b[i] = q[k + i]
  BY <1>2 DEF a, b
<1>5. r \in Seq(S) /\ Len(r) = Len(a) + Len(b)
  <2>1. a \in Seq(S) /\ b \in Seq(S)
    BY <1>3
  <2> QED BY <1>4, <2>1
<1>6. DOMAIN r = 1..(Len(q) - 1)
  <2>1. Len(r) = Len(q) - 1
    BY <1>1, <1>3, <1>5
  <2> QED BY <1>5, <2>1
<1>7. \A i \in 1..(k - 1) : r[i] = q[i]
  BY <1>1, <1>3, <1>4
<1>8. \A i \in k..(Len(q) - 1) : r[i] = q[i + 1]
  <2> SUFFICES ASSUME NEW i \in k..(Len(q) - 1) PROVE r[i] = q[i + 1]
    OBVIOUS
  <2>1. r[i] = b[i - (k - 1)]
    BY <1>1, <1>3, <1>4
  <2>2. b[i - (k - 1)] = q[k + (i - (k - 1))]
    BY <1>1, <1>3
  <2> QED BY <1>1, <2>1, <2>2
<1> DEFINE Was(n) == IF n < k THEN n ELSE n + 1
<1>9. \A n \in DOMAIN r : Was(n) \in DOMAIN q /\ Was(n) # k /\ r[n] = q[Was(n)]
  BY <1>1, <1>6, <1>7, <1>8
<1>10. IsInjective(r)
  <2> SUFFICES ASSUME NEW i \in DOMAIN r, NEW j \in DOMAIN r, r[i] = r[j] PROVE i = j
    BY DEF IsInjective
  <2>1. Was(i) = Was(j)
    BY <1>9 DEF IsInjective
  <2> QED BY <1>1, <1>6, <2>1
<1>11. ASSUME NEW x \in ToSet(r) PROVE x \in ToSet(q) \ {e}
  <2> PICK n \in DOMAIN r : r[n] = x
    BY <1>11 DEF ToSet
  <2>1. Was(n) \in DOMAIN q /\ Was(n) # k /\ q[Was(n)] = x
    BY <1>9
  <2> QED BY <2>1 DEF IsInjective, ToSet, e
<1>12. ASSUME NEW x \in ToSet(q) \ {e} PROVE x \in ToSet(r)
  <2> PICK j \in DOMAIN q : q[j] = x
    BY <1>12 DEF ToSet
  <2>1. j # k
    BY <1>12 DEF e
  <2>2. CASE j < k
    <3>1. j \in 1..(k - 1) /\ j \in DOMAIN r
      BY <1>1, <1>6, <2>2
    <3> QED BY <1>7, <3>1 DEF ToSet
  <2>3. CASE j > k
    <3>1. j - 1 \in k..(Len(q) - 1) /\ j - 1 \in DOMAIN r /\ (j - 1) + 1 = j
      BY <1>1, <1>6, <2>3
    <3> QED BY <1>8, <3>1 DEF ToSet
  <2> QED BY <1>1, <2>1, <2>2, <2>3
<1>13. \A i, j \in DOMAIN r : i < j =>
          \E m, n \in DOMAIN q : m < n /\ r[i] = q[m] /\ r[j] = q[n]
  <2> SUFFICES ASSUME NEW i \in DOMAIN r, NEW j \in DOMAIN r, i < j
               PROVE  \E m, n \in DOMAIN q : m < n /\ r[i] = q[m] /\ r[j] = q[n]
    OBVIOUS
  <2>1. Was(i) < Was(j)
    BY <1>1, <1>6
  <2> QED BY <1>9, <2>1
<1> QED BY <1>5, <1>10, <1>11, <1>12, <1>13 DEF r, e

\* One tab leaves the strip, wherever it stands.
LEMMA StripShrinks ==
    ASSUME NEW S, NEW q \in Seq(S), IsInjective(q), NEW e \in ToSet(q)
    PROVE  /\ Position(q, e) \in DOMAIN q /\ q[Position(q, e)] = e
           /\ RemoveAt(q, Position(q, e)) \in Seq(S)
           /\ IsInjective(RemoveAt(q, Position(q, e)))
           /\ ToSet(RemoveAt(q, Position(q, e))) = ToSet(q) \ {e}
<1> DEFINE k == Position(q, e)
<1>1. k \in DOMAIN q /\ q[k] = e
  BY DEF Position, ToSet
<1> HIDE DEF k
<1>2. /\ RemoveAt(q, k) \in Seq(S) /\ IsInjective(RemoveAt(q, k))
      /\ ToSet(RemoveAt(q, k)) = ToSet(q) \ {q[k]}
  BY <1>1, LeavesOnce
<1> QED BY <1>1, <1>2 DEF k

\* How much of a queue the screens still have to hear.
LEMMA SaidType ==
    ASSUME NEW S, NEW q \in Seq(S)
    PROVE  /\ Said(q) \in Nat
           /\ IsFiniteSet({i \in DOMAIN q : q[i] \in Stream})
           /\ q = <<>> => Said(q) = 0
<1> DEFINE A == {i \in DOMAIN q : q[i] \in Stream}
<1>1. A \in SUBSET (1..Len(q)) /\ Len(q) \in Nat
  OBVIOUS
<1>2. IsFiniteSet(1..Len(q))
  BY <1>1, FS_Interval
<1>3. IsFiniteSet(A) /\ Cardinality(A) \in Nat
  BY <1>1, <1>2, FS_Subset, FS_CardinalityType
<1>4. q = <<>> => A = {}
  OBVIOUS
<1> HIDE DEF A
<1>5. q = <<>> => Cardinality(A) = 0
  BY <1>4, FS_EmptySet
<1> QED BY <1>3, <1>5 DEF Said, A

LEMMA SaidMore ==
    ASSUME NEW S, NEW q \in Seq(S), NEW e \in S
    PROVE  Said(Append(q, e)) = Said(q) + (IF e \in Stream THEN 1 ELSE 0)
<1> DEFINE r == Append(q, e)
           A == {i \in DOMAIN q : q[i] \in Stream}
           B == {i \in DOMAIN r : r[i] \in Stream}
<1>1. /\ Len(q) \in Nat /\ DOMAIN q = 1..Len(q) /\ DOMAIN r = 1..(Len(q) + 1)
      /\ r[Len(q) + 1] = e /\ \A i \in DOMAIN q : r[i] = q[i]
  BY Joins
<1>2. IsFiniteSet(A) /\ Cardinality(A) \in Nat /\ Said(q) = Cardinality(A)
  BY SaidType DEF Said
<1> HIDE DEF r
<1>3. Said(r) = Cardinality(B)
  BY DEF Said
<1>4. CASE e \in Stream
  <2>1. B = A \cup {Len(q) + 1} /\ Len(q) + 1 \notin A
    BY <1>1, <1>4
  <2> HIDE DEF A, B
  <2>2. Cardinality(B) = Cardinality(A) + 1
    BY <1>2, <2>1, FS_AddElement
  <2> QED BY <1>2, <1>3, <1>4, <2>2 DEF r
<1>5. CASE e \notin Stream
  <2>1. B = A
    BY <1>1, <1>5
  <2> HIDE DEF A, B
  <2> QED BY <1>2, <1>3, <1>5, <2>1 DEF r
<1> QED BY <1>4, <1>5

LEMMA SaidLess ==
    ASSUME NEW S, NEW q \in Seq(S), q # <<>>
    PROVE  Said(q) = Said(Tail(q)) + (IF Head(q) \in Stream THEN 1 ELSE 0)
<1> DEFINE r == Tail(q)
           A == {i \in DOMAIN q : q[i] \in Stream}
           B == {i \in DOMAIN r : r[i] \in Stream}
           f == [i \in A \ {1} |-> i - 1]
<1>1. /\ r \in Seq(S) /\ Len(q) \in Nat \ {0} /\ Head(q) = q[1] /\ 1 \in DOMAIN q
      /\ DOMAIN q = 1..Len(q)
      /\ \A i \in DOMAIN r : i + 1 \in DOMAIN q /\ r[i] = q[i + 1] /\ i \in Nat /\ i # 0
      /\ \A i \in DOMAIN q : i # 1 => i - 1 \in DOMAIN r /\ r[i - 1] = q[i]
  <2>1. DOMAIN Tail(q) = 1..(Len(q) - 1) /\ Len(q) \in Nat
    BY Leads
  <2> QED BY <2>1, Leads
<1>2. /\ IsFiniteSet(A) /\ Cardinality(A) \in Nat /\ Said(q) = Cardinality(A)
      /\ IsFiniteSet(B) /\ Cardinality(B) \in Nat /\ Said(r) = Cardinality(B)
  BY <1>1, SaidType DEF Said
<1> HIDE DEF r
<1>3. A \ {1} \subseteq 2..Len(q) /\ A \subseteq Nat
  BY <1>1
<1>4. \A i \in A \ {1} : i - 1 \in B
  BY <1>1
<1>5. \A j \in B : j + 1 \in A \ {1} /\ (j + 1) - 1 = j
  <2> SUFFICES ASSUME NEW j \in B PROVE j + 1 \in A \ {1} /\ (j + 1) - 1 = j
    OBVIOUS
  <2>1. j \in Nat /\ j # 0 /\ j + 1 \in DOMAIN q /\ q[j + 1] \in Stream
    BY <1>1
  <2> QED BY <2>1
<1>6. 1 \in A <=> Head(q) \in Stream
  BY <1>1
<1> HIDE DEF A, B
<1>7. f \in Bijection(A \ {1}, B)
  <2>1. f \in [A \ {1} -> B]
    BY <1>4
  <2>2. \A i, j \in A \ {1} : f[i] = f[j] => i = j
    BY <1>3
  <2>3. \A j \in B : \E i \in A \ {1} : f[i] = j
    <3> SUFFICES ASSUME NEW j \in B PROVE \E i \in A \ {1} : f[i] = j
      OBVIOUS
    <3>1. j + 1 \in A \ {1} /\ (j + 1) - 1 = j
      BY <1>5
    <3>2. f[j + 1] = j
      BY <3>1
    <3> QED BY <3>1, <3>2
  <2> HIDE DEF f
  <2>4. DOMAIN f = A \ {1}
    BY <2>1
  <2>5. IsInjective(f)
    BY <2>2, <2>4 DEF IsInjective
  <2> QED BY <2>1, <2>3, <2>5 DEF Bijection, Injection, Surjection
<1>8. ExistsBijection(A \ {1}, B)
  BY <1>7 DEF ExistsBijection
<1>9. IsFiniteSet(A \ {1}) /\ Cardinality(A \ {1}) = IF 1 \in A THEN Cardinality(A) - 1 ELSE Cardinality(A)
  BY <1>2, FS_RemoveElement
<1>10. Cardinality(B) = Cardinality(A \ {1})
  BY <1>8, <1>9, FS_Bijection
<1> QED BY <1>2, <1>6, <1>9, <1>10 DEF r

(***************************************************************************)
(* The App's slots                                                         *)
(***************************************************************************)
LEMMA NoScreenApart ==
    /\ NoTab \notin Tabs /\ NoScreen \notin Screens
    /\ \A t \in Tabs : t \in Nat /\ t # 0
<1>1. \A t \in Tabs : t \in Nat /\ t # 0
  <2>1. Cardinality(Tabs) \in Nat
    BY TabsAssumption, FS_CardinalityType
  <2>2. Tabs = 1..Cardinality(Tabs)
    BY TabsAssumption
  <2> QED BY <2>1, <2>2
<1>2. NoTab \notin Tabs
  BY <1>1 DEF NoTab
<1>3. NoScreen \notin Screens
  <2> SUFFICES ASSUME NoScreen \in Screens PROVE FALSE
    OBVIOUS
  <2>1. NoScreen.of \in Tabs
    BY DEF Screens
  <2> QED BY <1>2, <2>1 DEF NoScreen
<1> QED BY <1>1, <1>2, <1>3

\* Another tab takes the screen.
LEMMA SetActiveDoes ==
    ASSUME NEW a \in Apps, Staged(a), NEW t \in ToSet(a.strip), NEW b, b = SetActive(a, t)
    PROVE  /\ b \in Apps /\ Staged(b)
           /\ b.strip = a.strip /\ b.next = a.next /\ b.active = t
           /\ \A u \in ToSet(a.strip) : ScreenOf(b, u) = ScreenOf(a, u)
<1>0. /\ a.strip \in Seq(Tabs) /\ a.active \in Tabs /\ a.slot \in Screens /\ a.sender \in Tabs
      /\ a.parked \in [Tabs -> Screens \cup {NoScreen}] /\ a.next \in Nat
  BY DEF Apps
<1>1. ToSet(a.strip) \subseteq Tabs
  BY <1>0 DEF ToSet
<1>2. CASE t = a.active
  BY <1>2 DEF SetActive
<1>3. CASE t # a.active
  <2>1. t \in Tabs /\ a.parked[t] \in Screens /\ a.parked[t].of = t
    BY <1>1, <1>3 DEF Staged
  <2>2. a.parked[t] # NoScreen
    BY <2>1, NoScreenApart
  <2>3. b = [a EXCEPT !.slot = a.parked[t], !.sender = t, !.active = t,
                      !.parked = [@ EXCEPT ![t] = NoScreen, ![a.active] = a.slot]]
    BY <1>3, <2>2 DEF SetActive
  <2>4. /\ b.strip = a.strip /\ b.next = a.next /\ b.active = t /\ b.sender = t
        /\ b.slot = a.parked[t]
        /\ b.parked = [a.parked EXCEPT ![t] = NoScreen, ![a.active] = a.slot]
    BY <2>3 DEF Apps
  <2>5. /\ b.parked \in [Tabs -> Screens \cup {NoScreen}]
        /\ b.parked[a.active] = a.slot
        /\ \A u \in Tabs \ {t, a.active} : b.parked[u] = a.parked[u]
    BY <1>0, <1>3, <2>1, <2>4
  <2>6. b \in Apps
    BY <1>0, <2>1, <2>3, <2>5 DEF Apps
  <2>7. \A u \in ToSet(a.strip) \ {t} : b.parked[u] \in Screens /\ b.parked[u].of = u
    BY <1>0, <1>1, <2>5 DEF Staged
  <2>8. Staged(b)
    BY <2>1, <2>4, <2>7 DEF Staged
  <2>9. \A u \in ToSet(a.strip) : ScreenOf(b, u) = ScreenOf(a, u)
    BY <1>1, <1>3, <2>1, <2>4, <2>5 DEF ScreenOf
  <2> QED BY <2>4, <2>6, <2>8, <2>9
<1> QED BY <1>2, <1>3

\* A tab joins the strip and takes the screen.
LEMMA OpenTabDoes ==
    ASSUME NEW a \in Apps, Staged(a), a.next \in Tabs, conn \in 0..MaxActs,
           NEW b, b = OpenTab(a, a.next)
    PROVE  /\ b \in Apps /\ Staged(b)
           /\ ToSet(b.strip) = ToSet(a.strip) \cup {a.next} /\ a.next \notin ToSet(a.strip)
           /\ b.next = a.next + 1 /\ b.active = a.next
           /\ \A u \in ToSet(a.strip) : ScreenOf(b, u) = ScreenOf(a, u)
           /\ ScreenOf(b, a.next) = Screen(a.next, conn)
<1> DEFINE t == a.next
           p == [a.parked EXCEPT ![t] = Screen(t, conn)]
           q == Append(a.strip, t)
           c == [a EXCEPT !.strip = q, !.parked = p, !.next = @ + 1]
<1>0. /\ a.strip \in Seq(Tabs) /\ a.active \in Tabs /\ a.slot \in Screens /\ a.sender \in Tabs
      /\ a.parked \in [Tabs -> Screens \cup {NoScreen}] /\ a.next \in Nat
  BY DEF Apps
<1>1. ToSet(a.strip) \subseteq Tabs /\ t \notin ToSet(a.strip) /\ a.active # t
      /\ \A u \in ToSet(a.strip) : u \in Nat
  <2>1. \A u \in ToSet(a.strip) : u \in Tabs
    BY <1>0 DEF ToSet
  <2>2. \A u \in ToSet(a.strip) : u \in Nat /\ u < t
    BY <2>1, NoScreenApart DEF Staged
  <2>3. t \notin ToSet(a.strip)
    BY <1>0, <2>2
  <2> QED BY <2>1, <2>2, <2>3 DEF Staged
<1>2. q \in Seq(Tabs) /\ ToSet(q) = ToSet(a.strip) \cup {t} /\ IsInjective(q)
  BY <1>0, <1>1, Joins, JoinsOnce DEF Staged
<1>3. Screen(t, conn) \in Screens /\ Screen(t, conn).of = t
  BY TabsAssumption DEF Screen, Screens
<1>5. /\ p \in [Tabs -> Screens \cup {NoScreen}] /\ p[t] = Screen(t, conn)
      /\ \A u \in Tabs \ {t} : p[u] = a.parked[u]
  BY <1>0, <1>3
<1>9. b = SetActive(c, t)
  BY DEF OpenTab
<1> HIDE DEF p, q
<1>4. /\ c.strip = q /\ c.next = t + 1 /\ c.active = a.active
      /\ c.sender = a.sender /\ c.slot = a.slot /\ c.parked = p
  BY DEF Apps
<1>6. c \in Apps
  <2>1. a.next + 1 \in Nat
    BY <1>0
  <2> QED BY <1>2, <1>5, <2>1 DEF Apps
<1> HIDE DEF c
<1>7. Staged(c)
  <2>1. \A u \in ToSet(c.strip) : u < c.next
    BY <1>0, <1>1, <1>2, <1>4 DEF Staged
  <2>2. \A u \in ToSet(c.strip) \ {c.active} : c.parked[u] \in Screens /\ c.parked[u].of = u
    BY <1>1, <1>2, <1>3, <1>4, <1>5 DEF Staged
  <2> QED BY <1>2, <1>4, <2>1, <2>2 DEF Staged
<1>8. t \in ToSet(c.strip)
  BY <1>2, <1>4
<1>10. /\ b \in Apps /\ Staged(b)
       /\ b.strip = c.strip /\ b.next = c.next /\ b.active = t
       /\ \A u \in ToSet(c.strip) : ScreenOf(b, u) = ScreenOf(c, u)
  BY <1>6, <1>7, <1>8, <1>9, SetActiveDoes
<1>11. \A u \in ToSet(a.strip) : ScreenOf(c, u) = ScreenOf(a, u)
  BY <1>1, <1>4, <1>5 DEF ScreenOf
<1>12. ScreenOf(c, t) = Screen(t, conn)
  BY <1>1, <1>4, <1>5 DEF ScreenOf
<1> QED BY <1>1, <1>2, <1>4, <1>8, <1>10, <1>11, <1>12

\* The tab on screen leaves the strip once another has the screen.
LEMMA CloseTabDoes ==
    ASSUME NEW a \in Apps, Staged(a), Len(a.strip) > 1, NEW b, b = CloseTab(a, a.active)
    PROVE  /\ b \in Apps /\ Staged(b) /\ b.next = a.next
           /\ ToSet(b.strip) = ToSet(a.strip) \ {a.active}
           /\ \A u \in ToSet(b.strip) : ScreenOf(b, u) = ScreenOf(a, u)
<1> DEFINE t == a.active
           n == Neighbour(a.strip, t)
           c == SetActive(a, n)
<1>0. a.strip \in Seq(Tabs) /\ t \in Tabs /\ IsInjective(a.strip) /\ t \in ToSet(a.strip)
  BY DEF Apps, Staged
<1>1. Position(a.strip, t) \in DOMAIN a.strip /\ a.strip[Position(a.strip, t)] = t
  BY <1>0, StripShrinks
<1>2. n \in ToSet(a.strip) /\ n # t
  <2> DEFINE k == Position(a.strip, t)
  <2>1. k \in 1..Len(a.strip) /\ Len(a.strip) \in Nat /\ DOMAIN a.strip = 1..Len(a.strip)
    BY <1>0, <1>1
  <2>2. n = IF k < Len(a.strip) THEN a.strip[k + 1] ELSE a.strip[k - 1]
    BY DEF Neighbour
  <2> HIDE DEF k, n
  <2>3. CASE k < Len(a.strip)
    <3>1. k + 1 \in DOMAIN a.strip /\ k + 1 # k /\ n = a.strip[k + 1]
      BY <2>1, <2>2, <2>3
    <3> QED BY <1>0, <1>1, <3>1 DEF IsInjective, ToSet, k
  <2>4. CASE ~(k < Len(a.strip))
    <3>1. k - 1 \in DOMAIN a.strip /\ k - 1 # k /\ n = a.strip[k - 1]
      BY <2>1, <2>2, <2>4
    <3> QED BY <1>0, <1>1, <3>1 DEF IsInjective, ToSet, k
  <2> QED BY <2>3, <2>4
<1> HIDE DEF n
<1>3. /\ c \in Apps /\ Staged(c) /\ c.strip = a.strip /\ c.next = a.next /\ c.active = n
      /\ \A u \in ToSet(a.strip) : ScreenOf(c, u) = ScreenOf(a, u)
  BY <1>2, SetActiveDoes
<1>4. b = [c EXCEPT !.strip = RemoveAt(@, Position(@, t)), !.parked[t] = NoScreen]
  BY DEF CloseTab, n
<1> HIDE DEF c
<1> DEFINE q == RemoveAt(a.strip, Position(a.strip, t))
<1>5. q \in Seq(Tabs) /\ IsInjective(q) /\ ToSet(q) = ToSet(a.strip) \ {t}
  BY <1>0, StripShrinks
<1>6. /\ c.active \in Tabs /\ c.slot \in Screens /\ c.sender \in Tabs /\ c.next \in Nat
      /\ c.parked \in [Tabs -> Screens \cup {NoScreen}]
  BY <1>3 DEF Apps
<1>7. /\ b.strip = q /\ b.next = c.next /\ b.active = c.active /\ b.sender = c.sender
      /\ b.slot = c.slot /\ b.parked = [c.parked EXCEPT ![t] = NoScreen]
  BY <1>3, <1>4 DEF Apps
<1> HIDE DEF q
<1>8. /\ b.parked \in [Tabs -> Screens \cup {NoScreen}]
      /\ \A u \in Tabs \ {t} : b.parked[u] = c.parked[u]
  BY <1>6, <1>7
<1>9. b \in Apps
  BY <1>3, <1>4, <1>5, <1>6, <1>7, <1>8 DEF Apps, q
<1>10. ToSet(q) \subseteq Tabs
  BY <1>5 DEF ToSet
<1>11. Staged(b)
  <2>1. \A u \in ToSet(b.strip) \ {b.active} : b.parked[u] \in Screens /\ b.parked[u].of = u
    BY <1>3, <1>5, <1>7, <1>8, <1>10 DEF Staged
  <2> QED BY <1>2, <1>3, <1>5, <1>7, <2>1 DEF Staged
<1>12. \A u \in ToSet(b.strip) : ScreenOf(b, u) = ScreenOf(a, u)
  BY <1>3, <1>5, <1>7, <1>8, <1>10 DEF ScreenOf
<1> QED BY <1>3, <1>5, <1>7, <1>9, <1>11, <1>12

\* A message lands on the screen of its own tab.
LEMMA HeardDoes ==
    ASSUME NEW a \in Apps, Staged(a), NEW t \in ToSet(a.strip),
           ScreenOf(a, t).heard < MaxSaid, NEW b, b = Heard(a, t)
    PROVE  /\ b \in Apps /\ Staged(b) /\ b.strip = a.strip /\ b.next = a.next
           /\ b.active = a.active
           /\ ScreenOf(b, t).heard = ScreenOf(a, t).heard + 1
           /\ \A u \in ToSet(a.strip) \ {t} : ScreenOf(b, u) = ScreenOf(a, u)
<1>0. /\ a.strip \in Seq(Tabs) /\ a.active \in Tabs /\ a.slot \in Screens /\ a.sender \in Tabs
      /\ a.parked \in [Tabs -> Screens \cup {NoScreen}] /\ a.next \in Nat
  BY DEF Apps
<1>1. ToSet(a.strip) \subseteq Tabs
  BY <1>0 DEF ToSet
<1>2. \A s \in Screens : s.heard < MaxSaid
         => LET r == [s EXCEPT !.heard = @ + 1]
            IN r \in Screens /\ r.of = s.of /\ r.heard = s.heard + 1
  BY TabsAssumption DEF Screens
<1>3. CASE t = a.active
  <2> DEFINE s == [a.slot EXCEPT !.heard = @ + 1]
  <2>1. s \in Screens /\ s.of = a.slot.of /\ s.heard = a.slot.heard + 1
    BY <1>0, <1>2, <1>3 DEF ScreenOf
  <2>2. b = [a EXCEPT !.slot = s]
    BY <1>3 DEF Heard
  <2> HIDE DEF s
  <2>3. /\ b.strip = a.strip /\ b.next = a.next /\ b.active = a.active
        /\ b.sender = a.sender /\ b.slot = s /\ b.parked = a.parked
    BY <2>2 DEF Apps
  <2>4. b \in Apps
    BY <1>0, <2>1, <2>2 DEF Apps
  <2>5. Staged(b)
    BY <2>1, <2>3 DEF Staged
  <2> QED BY <1>3, <2>1, <2>3, <2>4, <2>5 DEF ScreenOf
<1>4. CASE t # a.active
  <2> DEFINE s == [a.parked[t] EXCEPT !.heard = @ + 1]
  <2>0. t \in Tabs /\ a.parked[t] \in Screens /\ a.parked[t].of = t
    BY <1>1, <1>4 DEF Staged
  <2>1. s \in Screens /\ s.of = t /\ s.heard = a.parked[t].heard + 1
    BY <1>2, <1>4, <2>0 DEF ScreenOf
  <2>2. b = [a EXCEPT !.parked = [@ EXCEPT ![t] = s]]
    BY <1>4 DEF Heard
  <2> HIDE DEF s
  <2>3. /\ b.strip = a.strip /\ b.next = a.next /\ b.active = a.active
        /\ b.sender = a.sender /\ b.slot = a.slot /\ b.parked = [a.parked EXCEPT ![t] = s]
    BY <2>2 DEF Apps
  <2>4. /\ b.parked \in [Tabs -> Screens \cup {NoScreen}] /\ b.parked[t] = s
        /\ \A u \in Tabs \ {t} : b.parked[u] = a.parked[u]
    BY <1>0, <2>0, <2>1, <2>3
  <2>5. b \in Apps
    BY <1>0, <2>2, <2>3, <2>4 DEF Apps
  <2>6. \A u \in ToSet(a.strip) \ {a.active} : b.parked[u] \in Screens /\ b.parked[u].of = u
    BY <1>1, <2>1, <2>4 DEF Staged
  <2>7. Staged(b)
    BY <2>3, <2>6 DEF Staged
  <2> QED BY <1>1, <1>4, <2>1, <2>3, <2>4, <2>5, <2>7 DEF ScreenOf
<1> QED BY <1>3, <1>4

(***************************************************************************)
(* What the steps do                                                       *)
(***************************************************************************)
Base == TypeOK /\ StripInv /\ StreamInv

LEMMA OpenTabs ==
    ASSUME TypeOK, StripInv
    PROVE  /\ Open \subseteq Tabs /\ app.active \in Open /\ app.sender = app.active
           /\ app.slot.of = app.active /\ app.active \in Tabs
           /\ \A t \in Tabs : t >= app.next => t \notin Open
<1>1. app.strip \in Seq(Tabs) /\ app.next \in Nat
  BY DEF TypeOK, Apps
<1>2. Open \subseteq Tabs
  BY <1>1 DEF Open, ToSet
<1>3. \A t \in Open : t < app.next /\ t \in Nat
  BY <1>2, NoScreenApart DEF StripInv, Staged, Open
<1>4. \A t \in Tabs : t >= app.next => t \notin Open
  BY <1>1, <1>3
<1> QED BY <1>2, <1>4 DEF StripInv, Staged, Open

\* The channels grow at open tabs alone.
Grows ==
    /\ cmds' \in [Tabs -> Seq(Commands)] /\ \A t \in Tabs : Len(cmds'[t]) <= CommandBuffer
    /\ \A t \in Tabs \ Open : cmds'[t] = cmds[t]

LEMMA SentDoes ==
    ASSUME TypeOK, NEW t \in Tabs, NEW cmd \in Commands, NEW queues, queues = Sent(cmds, t, cmd)
    PROVE  /\ queues \in [Tabs -> Seq(Commands)]
           /\ \A u \in Tabs : Len(queues[u]) <= CommandBuffer
           /\ \A u \in Tabs \ {t} : queues[u] = cmds[u]
           /\ queues[t] = cmds[t] \/ queues[t] = Append(cmds[t], cmd)
           /\ Room(t) => queues[t] = Append(cmds[t], cmd)
<1>1. /\ cmds \in [Tabs -> Seq(Commands)] /\ \A u \in Tabs : Len(cmds[u]) <= CommandBuffer
      /\ CommandBuffer \in Nat
  BY TabsAssumption DEF TypeOK
<1>2. CASE Room(t)
  <2>1. /\ Append(cmds[t], cmd) \in Seq(Commands)
        /\ Len(Append(cmds[t], cmd)) = Len(cmds[t]) + 1 /\ Len(cmds[t]) \in Nat
    BY <1>1, Joins
  <2>2. queues = [cmds EXCEPT ![t] = Append(cmds[t], cmd)]
    BY <1>2 DEF Sent, Room
  <2> QED BY <1>1, <1>2, <2>1, <2>2 DEF Room
<1>3. CASE ~Room(t)
  BY <1>1, <1>3 DEF Sent, Room
<1> QED BY <1>2, <1>3

LEMMA SentOne ==
    ASSUME TypeOK, NEW t \in Tabs, NEW cmd, cmds' = Sent(cmds, t, cmd)
    PROVE  /\ \A u \in Tabs \ {t} : cmds'[u] = cmds[u]
           /\ cmds'[t] = cmds[t] \/ cmds'[t] = Append(cmds[t], cmd)
<1>1. cmds \in [Tabs -> Seq(Commands)]
  BY DEF TypeOK
<1>2. cmds' = cmds \/ cmds' = [cmds EXCEPT ![t] = Append(cmds[t], cmd)]
  BY DEF Sent
<1> QED BY <1>1, <1>2

LEMMA SentGrows ==
    ASSUME TypeOK, StripInv, NEW t \in Open, NEW cmd \in Commands, cmds' = Sent(cmds, t, cmd)
    PROVE  Grows
<1>1. t \in Tabs
  BY OpenTabs
<1>2. /\ cmds' \in [Tabs -> Seq(Commands)] /\ \A u \in Tabs : Len(cmds'[u]) <= CommandBuffer
      /\ \A u \in Tabs \ {t} : cmds'[u] = cmds[u]
  BY <1>1, SentDoes
<1> QED BY <1>2 DEF Grows

LEMMA SentAllDoes ==
    ASSUME TypeOK, StripInv, NEW key \in Keys, NEW v \in 0..MaxActs, cmds' = SentAll(key, v)
    PROVE  /\ Grows
           /\ \A t \in Open : \/ cmds'[t] = cmds[t]
                              \/ cmds'[t] = Append(cmds[t], Setting(t, key, v))
           /\ \A t \in Open : Room(t) => cmds'[t] = Append(cmds[t], Setting(t, key, v))
<1>1. \A t \in Tabs : Setting(t, key, v) \in Commands
  BY DEF Setting, Commands
<1>2. {t \in Open : t # app.active} \cup {app.sender} = Open
  BY OpenTabs
<1>3. cmds \in [Tabs -> Seq(Commands)] /\ \A u \in Tabs : Len(cmds[u]) <= CommandBuffer
  BY DEF TypeOK
<1>4. cmds' = [t \in Tabs |-> IF t \in Open THEN Sent(cmds, t, Setting(t, key, v))[t] ELSE cmds[t]]
  BY <1>2 DEF SentAll
<1>5. \A t \in Open : t \in Tabs /\ cmds'[t] = Sent(cmds, t, Setting(t, key, v))[t]
  BY <1>4, OpenTabs
<1>6. \A t \in Open :
        /\ cmds'[t] \in Seq(Commands) /\ Len(cmds'[t]) <= CommandBuffer
        /\ cmds'[t] = cmds[t] \/ cmds'[t] = Append(cmds[t], Setting(t, key, v))
        /\ Room(t) => cmds'[t] = Append(cmds[t], Setting(t, key, v))
  <2> SUFFICES ASSUME NEW t \in Open
               PROVE  /\ cmds'[t] \in Seq(Commands) /\ Len(cmds'[t]) <= CommandBuffer
                      /\ cmds'[t] = cmds[t] \/ cmds'[t] = Append(cmds[t], Setting(t, key, v))
                      /\ Room(t) => cmds'[t] = Append(cmds[t], Setting(t, key, v))
    OBVIOUS
  <2> DEFINE queues == Sent(cmds, t, Setting(t, key, v))
  <2>1. t \in Tabs /\ cmds'[t] = queues[t] /\ Setting(t, key, v) \in Commands
    BY <1>1, <1>5
  <2>2. /\ queues \in [Tabs -> Seq(Commands)]
        /\ \A u \in Tabs : Len(queues[u]) <= CommandBuffer
        /\ queues[t] = cmds[t] \/ queues[t] = Append(cmds[t], Setting(t, key, v))
        /\ Room(t) => queues[t] = Append(cmds[t], Setting(t, key, v))
    BY <2>1, SentDoes
  <2> HIDE DEF queues
  <2> QED BY <2>1, <2>2
<1>7. \A t \in Tabs \ Open : cmds'[t] = cmds[t]
  BY <1>4
<1>8. cmds' \in [Tabs -> Seq(Commands)] /\ \A t \in Tabs : Len(cmds'[t]) <= CommandBuffer
  <2>1. \A t \in Tabs : cmds'[t] \in Seq(Commands) /\ Len(cmds'[t]) <= CommandBuffer
    BY <1>3, <1>6, <1>7
  <2>2. DOMAIN cmds' = Tabs /\ cmds' = [t \in Tabs |-> cmds'[t]]
    BY <1>4
  <2> QED BY <2>1, <2>2
<1> QED BY <1>6, <1>7, <1>8 DEF Grows

Asks ==
    \/ Prompt \/ OpenPicker \/ OpenTree \/ PickSession \/ Fork \/ DeleteBranch
    \/ PickModel \/ SetCodemode \/ PickerRefresh

LEMMA ActsType ==
    ASSUME TypeOK, Acts
    PROVE  acts' \in 0..MaxActs /\ acts + 1 \in 0..MaxActs /\ render = Selecting
BY TabsAssumption DEF Acts, TypeOK

\* What the user asks goes to the core of the tab on screen, a model to every
\* open tab's.
LEMMA AsksDoes ==
    ASSUME Base, Asks
    PROVE  /\ Grows /\ UNCHANGED <<app, core, events, prefs, file, render, conn, live, faults>>
           /\ render = Selecting
           /\ overlay' \in {"none", "picker", "tree"} /\ (overlay' = "tree" => overlay = "tree")
           /\ picker' \in [open : BOOLEAN, list : Tabs \cup {NoTab}]
           /\ tree' \in [open : BOOLEAN, of : Tabs \cup {NoTab}] /\ tree'.of = tree.of
           /\ chosen' \in Prefs /\ acts' \in 0..MaxActs
<1> USE DEF Base
<1>0. /\ overlay \in {"none", "picker", "tree"} /\ chosen \in Prefs /\ acts \in 0..MaxActs
      /\ picker \in [open : BOOLEAN, list : Tabs \cup {NoTab}]
      /\ tree \in [open : BOOLEAN, of : Tabs \cup {NoTab}] /\ NoTab \notin Tabs
      /\ app.sender \in Open /\ app.slot.of \in Tabs
  BY OpenTabs, NoScreenApart DEF TypeOK
<1>1. CASE Prompt
  <2>1. [do |-> "send", from |-> app.slot.of] \in Commands
    BY <1>0 DEF Commands
  <2>2. Grows
    BY <1>0, <1>1, <2>1, SentGrows DEF Prompt
  <2> QED BY <1>0, <1>1, <2>2, ActsType DEF Prompt, ui, dialogs, cores
<1>2. CASE OpenPicker
  <2>1. [do |-> "list", from |-> app.slot.of] \in Commands
    BY <1>0 DEF Commands
  <2>2. Grows
    BY <1>0, <1>2, <2>1, SentGrows DEF OpenPicker
  <2> QED BY <1>0, <1>2, <2>2, ActsType DEF OpenPicker, ui, dialogs, cores
<1>3. CASE OpenTree
  <2>1. [do |-> "tree", from |-> app.slot.of] \in Commands
    BY <1>0 DEF Commands
  <2>2. Grows
    BY <1>0, <1>3, <2>1, SentGrows DEF OpenTree
  <2> QED BY <1>0, <1>3, <2>2, ActsType DEF OpenTree, ui, dialogs, cores
<1>4. CloseOverlay => /\ overlay' = "none"
                      /\ picker' \in [open : BOOLEAN, list : Tabs \cup {NoTab}]
                      /\ tree' \in [open : BOOLEAN, of : Tabs \cup {NoTab}] /\ tree'.of = tree.of
  BY <1>0 DEF CloseOverlay
<1>5. CASE PickSession
  <2>1. [do |-> "pick", from |-> picker.list] \in Commands
    BY <1>0, <1>5 DEF Commands, PickSession
  <2>2. Grows
    BY <1>0, <1>5, <2>1, SentGrows DEF PickSession
  <2> QED BY <1>0, <1>4, <1>5, <2>2, ActsType DEF PickSession, ui, dialogs, cores
<1>6. CASE Fork \/ DeleteBranch
  <2>1. tree.of \in Tabs
    BY <1>6 DEF Fork, DeleteBranch, StripInv
  <2>2. [do |-> "pick", from |-> tree.of] \in Commands
    BY <2>1 DEF Commands
  <2>3. Grows
    BY <1>0, <1>6, <2>2, SentGrows DEF Fork, DeleteBranch
  <2> QED BY <1>0, <1>4, <1>6, <2>3, ActsType DEF Fork, DeleteBranch, ui, dialogs, cores
<1>7. CASE PickModel
  <2>1. acts + 1 \in 0..MaxActs /\ "model" \in Keys
    BY <1>7, ActsType DEF PickModel, Keys
  <2>2. Grows
    BY <1>7, <2>1, SentAllDoes DEF PickModel
  <2>3. chosen' \in Prefs
    BY <1>0, <1>7, <2>1 DEF PickModel, Prefs
  <2> QED BY <1>0, <1>7, <2>2, <2>3, ActsType DEF PickModel, ui, dialogs, cores
<1>8. CASE SetCodemode
  <2>1. acts + 1 \in 0..MaxActs /\ "codemode" \in Keys
    BY <1>8, ActsType DEF SetCodemode, Keys
  <2>2. Setting(app.sender, "codemode", acts + 1) \in Commands
    BY <1>0, <2>1, OpenTabs DEF Setting, Commands
  <2>3. Grows
    BY <1>0, <1>8, <2>2, SentGrows DEF SetCodemode
  <2>4. chosen' \in Prefs
    BY <1>0, <1>8, <2>1 DEF SetCodemode, Prefs
  <2> QED BY <1>0, <1>8, <2>3, <2>4, ActsType DEF SetCodemode, ui, dialogs, cores
<1>9. CASE PickerRefresh
  <2>1. [do |-> "list", from |-> app.slot.of] \in Commands
    BY <1>0 DEF Commands
  <2>2. Grows
    BY <1>0, <1>9, <2>1, SentGrows DEF PickerRefresh
  <2> QED BY <1>0, <1>9, <2>2 DEF PickerRefresh, ui, dialogs, cores
<1> QED BY <1>1, <1>2, <1>3, <1>5, <1>6, <1>7, <1>8, <1>9 DEF Asks

\* What a core and its queues say, before and after one of its steps, adds up
\* for the screen; a tab whose core steps was handed out.
LEMMA TellDoes ==
    ASSUME TypeOK, NEW t \in Tabs, NEW e \in Stream \cup Answers, Tell(t, e)
    PROVE  /\ events' \in [Tabs -> Seq(Stream \cup Answers)]
           /\ \A u \in Tabs : Len(events'[u]) <= EventBuffer
           /\ \A u \in Tabs \ {t} : events'[u] = events[u]
           /\ events'[t] = Append(events[t], e)
<1>1. events \in [Tabs -> Seq(Stream \cup Answers)] /\ EventBuffer \in Nat
      /\ \A u \in Tabs : Len(events[u]) <= EventBuffer
  BY TabsAssumption DEF TypeOK
<1>2. /\ Append(events[t], e) \in Seq(Stream \cup Answers)
      /\ Len(Append(events[t], e)) = Len(events[t]) + 1 /\ Len(events[t]) \in Nat
  BY <1>1, Joins
<1>3. Len(events[t]) < EventBuffer /\ events' = [events EXCEPT ![t] = Append(events[t], e)]
  BY DEF Tell
<1> QED BY <1>1, <1>2, <1>3

LEMMA TakesDoes ==
    ASSUME TypeOK, NEW t \in Tabs, NEW do, Takes(t, do)
    PROVE  /\ cmds' \in [Tabs -> Seq(Commands)]
           /\ \A u \in Tabs : Len(cmds'[u]) <= CommandBuffer
           /\ \A u \in Tabs \ {t} : cmds'[u] = cmds[u]
           /\ cmds[t] \in Seq(Commands) /\ cmds[t] # <<>> /\ cmds'[t] = Tail(cmds[t])
           /\ Head(cmds[t]) \in Commands
           /\ Head(cmds[t]).do = do /\ core[t].at = "up" /\ core[t].say = <<>>
<1>1. /\ cmds \in [Tabs -> Seq(Commands)] /\ CommandBuffer \in Nat
      /\ \A u \in Tabs : Len(cmds[u]) <= CommandBuffer
  BY TabsAssumption DEF TypeOK
<1>2. /\ cmds[t] # <<>> /\ cmds' = [cmds EXCEPT ![t] = Tail(cmds[t])]
      /\ Head(cmds[t]).do = do /\ core[t].at = "up" /\ core[t].say = <<>>
  BY DEF Takes
<1>3. /\ Tail(cmds[t]) \in Seq(Commands) /\ Len(Tail(cmds[t])) = Len(cmds[t]) - 1
      /\ Len(cmds[t]) \in Nat /\ Head(cmds[t]) \in Commands
  BY <1>1, <1>2, Leads
<1> QED BY <1>1, <1>2, <1>3

\* One core changes.
LEMMA CoreChanges ==
    ASSUME TypeOK, NEW t \in Tabs, NEW c \in Cores, core' = [core EXCEPT ![t] = c]
    PROVE  /\ core' \in [Tabs -> Cores] /\ core'[t] = c
           /\ \A u \in Tabs \ {t} : core'[u] = core[u]
BY DEF TypeOK

LEMMA CoreType ==
    ASSUME TypeOK, NEW t \in Tabs
    PROVE  /\ core[t] \in Cores /\ core[t].at \in {"none", "up", "ending", "ended"}
           /\ core[t].turn \in BOOLEAN /\ core[t].said \in 0..MaxSaid /\ core[t].said \in Nat
           /\ core[t].say \in Seq(Stream \cup Answers)
<1>1. core[t] \in Cores /\ MaxSaid \in Nat
  BY TabsAssumption DEF TypeOK
<1> QED BY <1>1 DEF Cores

LEMMA SaysDoes ==
    ASSUME TypeOK, NEW t \in Tabs, NEW e \in Answers, Says(t, e), core[t].say = <<>>
    PROVE  /\ core' \in [Tabs -> Cores] /\ \A u \in Tabs \ {t} : core'[u] = core[u]
           /\ core'[t].at = core[t].at /\ core'[t].said = core[t].said
           /\ core'[t].turn = core[t].turn /\ core'[t].say = Append(core[t].say, e)
           /\ Said(core[t].say) = 0 /\ Said(core'[t].say) = 0
<1> DEFINE w == Append(core[t].say, e)
           c == [core[t] EXCEPT !.say = w]
<1>1. core[t] \in Cores /\ core[t].say \in Seq(Stream \cup Answers)
  BY CoreType
<1>2. w \in Seq(Stream \cup Answers) /\ Said(w) = 0 /\ Said(core[t].say) = 0
  <2>1. e \notin Stream /\ e \in Stream \cup Answers
    BY DEF Answers, Stream
  <2>2. w \in Seq(Stream \cup Answers)
    BY <1>1, <2>1
  <2>3. Said(core[t].say) = 0
    BY <1>1, SaidType
  <2>4. Said(w) = Said(core[t].say) + (IF e \in Stream THEN 1 ELSE 0)
    BY <1>1, <2>1, SaidMore
  <2> QED BY <2>1, <2>2, <2>3, <2>4
<1>3. core' = [core EXCEPT ![t] = c]
  BY DEF Says
<1> HIDE DEF w
<1>4. /\ c \in Cores /\ c.at = core[t].at /\ c.said = core[t].said /\ c.turn = core[t].turn
      /\ c.say = w
  BY <1>1, <1>2 DEF Cores
<1> HIDE DEF c
<1>5. /\ core' \in [Tabs -> Cores] /\ core'[t] = c
      /\ \A u \in Tabs \ {t} : core'[u] = core[u]
  BY <1>3, <1>4, CoreChanges
<1> QED BY <1>2, <1>4, <1>5 DEF w

LEMMA CoreStepDoes ==
    ASSUME Base, NEW t \in Tabs, CoreStep(t)
    PROVE  /\ UNCHANGED <<app, overlay, picker, tree, conn, live, render, chosen, acts>>
           /\ cmds' \in [Tabs -> Seq(Commands)] /\ \A u \in Tabs : Len(cmds'[u]) <= CommandBuffer
           /\ events' \in [Tabs -> Seq(Stream \cup Answers)]
           /\ \A u \in Tabs : Len(events'[u]) <= EventBuffer
           /\ core' \in [Tabs -> Cores]
           /\ prefs' \in [Tabs -> Prefs] /\ file' \in Prefs /\ faults' \in 0..MaxFaults
           /\ \A u \in Tabs \ {t} : /\ cmds'[u] = cmds[u] /\ events'[u] = events[u]
                                    /\ core'[u] = core[u]
           /\ core[t] # NoCore
           /\ t \in Open => core'[t].at = core[t].at
           /\ Said(events'[t]) + Said(core'[t].say) + core[t].said
                = Said(events[t]) + Said(core[t].say) + core'[t].said
<1> USE DEF Base
<1>0. /\ cmds \in [Tabs -> Seq(Commands)] /\ \A u \in Tabs : Len(cmds[u]) <= CommandBuffer
      /\ events \in [Tabs -> Seq(Stream \cup Answers)]
      /\ \A u \in Tabs : Len(events[u]) <= EventBuffer
      /\ core \in [Tabs -> Cores]
      /\ prefs \in [Tabs -> Prefs] /\ file \in Prefs /\ faults \in 0..MaxFaults
      /\ events[t] \in Seq(Stream \cup Answers)
  BY DEF TypeOK
<1>1. /\ core[t] \in Cores /\ core[t].turn \in BOOLEAN /\ core[t].said \in 0..MaxSaid
      /\ core[t].said \in Nat /\ core[t].say \in Seq(Stream \cup Answers)
      /\ Said(core[t].say) \in Nat /\ Said(events[t]) \in Nat
  BY <1>0, CoreType, SaidType
<1>2. NoCore.at = "none" /\ NoCore.turn = FALSE /\ NoCore.say = <<>>
  BY DEF NoCore
<1>3. "turn" \in Stream /\ "token" \in Stream /\ "turn" \notin Answers
      /\ {"list", "tree", "reply", "saved"} \subseteq Answers
  BY DEF Stream, Answers
<1>4. CASE TakeSend(t)
  <2>1. Takes(t, "send")
    BY <1>4 DEF TakeSend
  <2>2. CASE core[t].turn \/ core[t].said = MaxSaid
    <3>1. core' = core
      BY <1>4, <2>2 DEF TakeSend
    <3> QED BY <1>0, <1>1, <1>2, <1>4, <2>1, <3>1, TakesDoes DEF TakeSend, ui
  <2>3. CASE ~(core[t].turn \/ core[t].said = MaxSaid)
    <3> DEFINE w == Append(core[t].say, "turn")
               c == [core[t] EXCEPT !.turn = TRUE, !.say = w, !.said = @ + 1]
    <3>1. w \in Seq(Stream \cup Answers) /\ Said(w) = Said(core[t].say) + 1
      BY <1>1, <1>3, SaidMore
    <3>2. core' = [core EXCEPT ![t] = c]
      BY <1>4, <2>3 DEF TakeSend
    <3> HIDE DEF w
    <3>3. core[t].said + 1 \in 0..MaxSaid
      BY <1>1, <2>3, TabsAssumption
    <3>4. c \in Cores /\ c.at = core[t].at /\ c.said = core[t].said + 1 /\ c.say = w
      BY <1>1, <3>1, <3>3 DEF Cores
    <3> HIDE DEF c
    <3>5. /\ core' \in [Tabs -> Cores] /\ core'[t] = c
          /\ \A u \in Tabs \ {t} : core'[u] = core[u]
      BY <3>2, <3>4, CoreChanges
    <3>6. core'[t].say = w /\ core'[t].said = core[t].said + 1 /\ core'[t].at = core[t].at
      BY <3>4, <3>5
    <3>7. events' = events
      BY <1>4 DEF TakeSend
    <3>8. Said(core'[t].say) = Said(core[t].say) + 1
      BY <3>1, <3>6
    <3>9. /\ Said(events'[t]) + Said(core'[t].say) + core[t].said
               = Said(events[t]) + Said(core[t].say) + core'[t].said
      BY <1>1, <3>6, <3>7, <3>8
    <3>10. /\ cmds' \in [Tabs -> Seq(Commands)] /\ core[t].at = "up"
           /\ \A u \in Tabs : Len(cmds'[u]) <= CommandBuffer
           /\ \A u \in Tabs \ {t} : cmds'[u] = cmds[u]
      BY <2>1, TakesDoes
    <3> QED BY <1>0, <1>2, <1>4, <3>5, <3>6, <3>7, <3>9, <3>10 DEF TakeSend, ui
  <2> QED BY <2>2, <2>3
<1>5. CASE TakeList(t)
  <2>1. Takes(t, "list")
    BY <1>5 DEF TakeList
  <2>2. Says(t, "list") \/ Says(t, "reply")
    BY <1>5 DEF TakeList
  <2>3. faults' \in 0..MaxFaults
    BY <1>0, <1>5, TabsAssumption DEF TakeList
  <2>4. core[t].say = <<>> /\ core[t].at = "up"
    BY <2>1, TakesDoes
  <2>5. /\ core' \in [Tabs -> Cores] /\ \A u \in Tabs \ {t} : core'[u] = core[u]
        /\ core'[t].at = core[t].at /\ core'[t].said = core[t].said
        /\ Said(core[t].say) = 0 /\ Said(core'[t].say) = 0
    BY <1>3, <2>2, <2>4, SaysDoes
  <2> QED BY <1>0, <1>1, <1>2, <1>5, <2>1, <2>3, <2>4, <2>5, TakesDoes DEF TakeList, ui, saved
<1>6. CASE TakeTree(t)
  <2>1. Takes(t, "tree") /\ Says(t, "tree")
    BY <1>6 DEF TakeTree
  <2>2. core[t].say = <<>> /\ core[t].at = "up"
    BY <2>1, TakesDoes
  <2>3. /\ core' \in [Tabs -> Cores] /\ \A u \in Tabs \ {t} : core'[u] = core[u]
        /\ core'[t].at = core[t].at /\ core'[t].said = core[t].said
        /\ Said(core[t].say) = 0 /\ Said(core'[t].say) = 0
    BY <1>3, <2>1, <2>2, SaysDoes
  <2> QED BY <1>0, <1>1, <1>2, <1>6, <2>1, <2>2, <2>3, TakesDoes DEF TakeTree, ui, saved
<1>7. CASE TakePick(t)
  <2>1. (\E do \in {"pick", "media"} : Takes(t, do)) /\ Says(t, "reply")
    BY <1>7 DEF TakePick
  <2>2. core[t].say = <<>> /\ core[t].at = "up"
    BY <2>1, TakesDoes
  <2>3. /\ core' \in [Tabs -> Cores] /\ \A u \in Tabs \ {t} : core'[u] = core[u]
        /\ core'[t].at = core[t].at /\ core'[t].said = core[t].said
        /\ Said(core[t].say) = 0 /\ Said(core'[t].say) = 0
    BY <1>3, <2>1, <2>2, SaysDoes
  <2> QED BY <1>0, <1>1, <1>2, <1>7, <2>1, <2>2, <2>3, TakesDoes DEF TakePick, ui, saved
<1>8. CASE TakeSet(t)
  <2>1. Takes(t, "set") /\ Says(t, "saved")
    BY <1>8 DEF TakeSet
  <2>2. core[t].say = <<>> /\ core[t].at = "up" /\ Head(cmds[t]) \in Commands /\ Head(cmds[t]).do = "set"
    BY <2>1, TakesDoes
  <2>3. /\ core' \in [Tabs -> Cores] /\ \A u \in Tabs \ {t} : core'[u] = core[u]
        /\ core'[t].at = core[t].at /\ core'[t].said = core[t].said
        /\ Said(core[t].say) = 0 /\ Said(core'[t].say) = 0
    BY <1>3, <2>1, <2>2, SaysDoes
  <2>4. Head(cmds[t]).key \in Keys /\ Head(cmds[t]).value \in 0..MaxActs
    BY <2>2 DEF Commands
  <2>5. prefs' = [prefs EXCEPT ![t] = [prefs[t] EXCEPT ![Head(cmds[t]).key] = Head(cmds[t]).value]]
    BY <1>8 DEF TakeSet
  <2>6. prefs' \in [Tabs -> Prefs]
    BY <1>0, <2>4, <2>5 DEF Prefs
  <2>7. file' \in Prefs
    BY <1>8, <2>6 DEF TakeSet
  <2> QED BY <1>0, <1>1, <1>2, <1>8, <2>1, <2>2, <2>3, <2>6, <2>7, TakesDoes DEF TakeSet, ui
<1>9. CASE TakeCancel(t)
  <2>1. Takes(t, "cancel") /\ core' = core
    BY <1>9 DEF TakeCancel, cores
  <2> QED BY <1>0, <1>1, <1>2, <1>9, <2>1, TakesDoes DEF TakeCancel, ui, cores
<1>10. CASE Say(t)
  <2> DEFINE w == Tail(core[t].say)
             e == Head(core[t].say)
             c == [core[t] EXCEPT !.say = w]
  <2>1. core[t].say # <<>> /\ Tell(t, e) /\ core' = [core EXCEPT ![t] = c]
    BY <1>10 DEF Say
  <2>2. /\ w \in Seq(Stream \cup Answers) /\ e \in Stream \cup Answers
        /\ Said(core[t].say) = Said(w) + (IF e \in Stream THEN 1 ELSE 0)
        /\ Said(w) \in Nat
    BY <1>1, <2>1, Leads, SaidLess, SaidType
  <2> HIDE DEF w, e
  <2>3. c \in Cores /\ c.at = core[t].at /\ c.said = core[t].said /\ c.say = w
    BY <1>1, <2>2 DEF Cores
  <2> HIDE DEF c
  <2>4. /\ core' \in [Tabs -> Cores] /\ core'[t] = c
        /\ \A u \in Tabs \ {t} : core'[u] = core[u]
    BY <2>1, <2>3, CoreChanges
  <2>5. /\ events' \in [Tabs -> Seq(Stream \cup Answers)]
        /\ \A u \in Tabs : Len(events'[u]) <= EventBuffer
        /\ \A u \in Tabs \ {t} : events'[u] = events[u]
        /\ events'[t] = Append(events[t], e)
    BY <2>1, <2>2, TellDoes
  <2>6. Said(events'[t]) = Said(events[t]) + (IF e \in Stream THEN 1 ELSE 0)
    BY <1>0, <2>2, <2>5, SaidMore
  <2>8. core'[t].say = w /\ core'[t].said = core[t].said
    BY <2>3, <2>4
  <2>9. Said(core'[t].say) = Said(w)
    BY <2>8
  <2>7. /\ Said(events'[t]) + Said(core'[t].say) + core[t].said
             = Said(events[t]) + Said(core[t].say) + core'[t].said
    <3>1. CASE e \in Stream
      BY <1>1, <2>2, <2>6, <2>8, <2>9, <3>1
    <3>2. CASE e \notin Stream
      BY <1>1, <2>2, <2>6, <2>8, <2>9, <3>2
    <3> QED BY <3>1, <3>2
  <2> QED BY <1>0, <1>2, <1>10, <2>1, <2>3, <2>4, <2>5, <2>7 DEF Say, ui, saved
<1>11. CASE Token(t)
  <2> DEFINE c == [core[t] EXCEPT !.said = @ + 1]
  <2>1. /\ core[t].turn /\ core[t].said < MaxSaid /\ Tell(t, "token")
        /\ core' = [core EXCEPT ![t] = c]
    BY <1>11 DEF Token
  <2>2. core[t].said + 1 \in 0..MaxSaid
    BY <1>1, <2>1, TabsAssumption
  <2>3. c \in Cores /\ c.at = core[t].at /\ c.said = core[t].said + 1 /\ c.say = core[t].say
    BY <1>1, <2>2 DEF Cores
  <2> HIDE DEF c
  <2>4. /\ core' \in [Tabs -> Cores] /\ core'[t] = c
        /\ \A u \in Tabs \ {t} : core'[u] = core[u]
    BY <2>1, <2>3, CoreChanges
  <2>5. /\ events' \in [Tabs -> Seq(Stream \cup Answers)]
        /\ \A u \in Tabs : Len(events'[u]) <= EventBuffer
        /\ \A u \in Tabs \ {t} : events'[u] = events[u]
        /\ events'[t] = Append(events[t], "token")
    BY <1>3, <2>1, TellDoes
  <2>6. Said(events'[t]) = Said(events[t]) + 1
    BY <1>0, <1>3, <2>5, SaidMore
  <2>7. /\ Said(events'[t]) + Said(core'[t].say) + core[t].said
             = Said(events[t]) + Said(core[t].say) + core'[t].said
    BY <1>1, <2>3, <2>4, <2>6
  <2> QED BY <1>0, <1>2, <1>11, <2>1, <2>3, <2>4, <2>5, <2>7 DEF Token, ui, saved
<1>12. CASE TurnEnds(t)
  <2> DEFINE c == [core[t] EXCEPT !.turn = FALSE]
  <2>1. core[t].turn /\ core' = [core EXCEPT ![t] = c] /\ events' = events
    BY <1>12 DEF TurnEnds
  <2>2. c \in Cores /\ c.at = core[t].at /\ c.said = core[t].said /\ c.say = core[t].say
    BY <1>1 DEF Cores
  <2> HIDE DEF c
  <2>3. /\ core' \in [Tabs -> Cores] /\ core'[t] = c
        /\ \A u \in Tabs \ {t} : core'[u] = core[u]
    BY <2>1, <2>2, CoreChanges
  <2> QED BY <1>0, <1>2, <1>12, <2>1, <2>2, <2>3 DEF TurnEnds, ui, saved
<1>13. CASE CutAndEnd(t)
  <2> DEFINE c == [core[t] EXCEPT !.at = "ending", !.turn = FALSE, !.say = <<"reply">>]
             d == [core[t] EXCEPT !.at = "ending"]
  <2>1. /\ core[t].at = "up" /\ core[t].say = <<>> /\ t \notin Open /\ events' = events
        /\ core' = [core EXCEPT ![t] = c] \/ core' = [core EXCEPT ![t] = d]
    BY <1>13 DEF CutAndEnd, Closed
  <2>2. <<"reply">> = Append(core[t].say, "reply")
    BY <2>1
  <2>3. /\ <<"reply">> \in Seq(Stream \cup Answers)
        /\ Said(<<"reply">>) = Said(core[t].say) + (IF "reply" \in Stream THEN 1 ELSE 0)
    <3>1. "reply" \in Stream \cup Answers
      BY <1>3
    <3>2. /\ Append(core[t].say, "reply") \in Seq(Stream \cup Answers)
          /\ Said(Append(core[t].say, "reply"))
               = Said(core[t].say) + (IF "reply" \in Stream THEN 1 ELSE 0)
      BY <1>1, <3>1, Joins, SaidMore
    <3> QED BY <2>2, <3>2
  <2>4. /\ c \in Cores /\ c.said = core[t].said /\ c.say = <<"reply">>
        /\ d \in Cores /\ d.said = core[t].said /\ d.say = core[t].say
    BY <1>1, <2>3 DEF Cores
  <2>5. Said(c.say) = Said(core[t].say) /\ Said(d.say) = Said(core[t].say)
    BY <1>1, <2>3, <2>4 DEF Stream
  <2> HIDE DEF c, d
  <2>6. /\ core' \in [Tabs -> Cores] /\ core'[t] \in {c, d}
        /\ \A u \in Tabs \ {t} : core'[u] = core[u]
    BY <2>1, <2>4, CoreChanges
  <2> QED BY <1>0, <1>2, <1>13, <2>1, <2>4, <2>5, <2>6 DEF CutAndEnd, ui, saved
<1>14. CASE End(t)
  <2> DEFINE c == [core[t] EXCEPT !.at = "ended"]
  <2>1. core[t].at = "ending" /\ core' = [core EXCEPT ![t] = c] /\ events' = events
    BY <1>14 DEF End
  <2>2. c \in Cores /\ c.said = core[t].said /\ c.say = core[t].say
    BY <1>1 DEF Cores
  <2> HIDE DEF c
  <2>3. /\ core' \in [Tabs -> Cores] /\ core'[t] = c
        /\ \A u \in Tabs \ {t} : core'[u] = core[u]
    BY <2>1, <2>2, CoreChanges
  <2>4. t \notin Open
    BY <2>1 DEF StripInv
  <2> QED BY <1>0, <1>2, <1>14, <2>1, <2>2, <2>3, <2>4 DEF End, ui, saved
<1> QED BY <1>4, <1>5, <1>6, <1>7, <1>8, <1>9, <1>10, <1>11, <1>12, <1>13, <1>14 DEF CoreStep

LEMMA ReadsDoes ==
    ASSUME Base, NEW t \in Tabs, NEW kinds, Reads(t, kinds)
    PROVE  /\ events' \in [Tabs -> Seq(Stream \cup Answers)]
           /\ \A u \in Tabs : Len(events'[u]) <= EventBuffer
           /\ \A u \in Tabs \ {t} : events'[u] = events[u]
           /\ events[t] \in Seq(Stream \cup Answers) /\ events[t] # <<>>
           /\ events'[t] = Tail(events[t]) /\ Head(events[t]) \in kinds
           /\ Said(events[t]) = Said(events'[t])
                                + (IF Head(events[t]) \in Stream THEN 1 ELSE 0)
           /\ Said(events'[t]) \in Nat /\ render = Selecting /\ render.at = "select"
<1> USE DEF Base
<1>1. /\ events \in [Tabs -> Seq(Stream \cup Answers)] /\ EventBuffer \in Nat
      /\ \A u \in Tabs : Len(events[u]) <= EventBuffer
  BY TabsAssumption DEF TypeOK
<1>2. /\ events[t] # <<>> /\ events' = [events EXCEPT ![t] = Tail(events[t])]
      /\ Head(events[t]) \in kinds /\ render = Selecting /\ render.at = "select"
  BY DEF Reads, Selecting
<1>3. /\ Tail(events[t]) \in Seq(Stream \cup Answers)
      /\ Len(Tail(events[t])) = Len(events[t]) - 1 /\ Len(events[t]) \in Nat
      /\ Said(events[t]) = Said(Tail(events[t])) + (IF Head(events[t]) \in Stream THEN 1 ELSE 0)
      /\ Said(Tail(events[t])) \in Nat
  BY <1>1, <1>2, Leads, SaidLess, SaidType
<1> QED BY <1>1, <1>2, <1>3

\* A command for the core of the tab whose message is applied.
LEMMA StagedSent ==
    ASSUME Base, NEW t \in Open
    PROVE  /\ StagedSender(t) = t
           /\ cmds' = Sent(cmds, StagedSender(t), [do |-> "media", from |-> t]) => Grows
<1>1. StagedSender(t) = t
  BY OpenTabs DEF StagedSender, Base
<1>2. [do |-> "media", from |-> t] \in Commands
  BY OpenTabs DEF Commands, Base
<1> QED BY <1>1, <1>2, SentGrows DEF Base

LEMMA ReadStreamKept ==
    ASSUME Base, NEW t \in Tabs, ReadStream(t)
    PROVE  Base'
<1> USE DEF Base
<1>1. Reads(t, Stream)
  BY DEF ReadStream
<1>2. /\ events' \in [Tabs -> Seq(Stream \cup Answers)]
      /\ \A u \in Tabs : Len(events'[u]) <= EventBuffer
      /\ \A u \in Tabs \ {t} : events'[u] = events[u]
      /\ events[t] # <<>> /\ Said(events[t]) = Said(events'[t]) + 1
      /\ Said(events'[t]) \in Nat
  BY <1>1, ReadsDoes
<1>3. /\ app \in Apps /\ Staged(app) /\ app.next \in Nat
      /\ \A u \in Tabs : u >= app.next => events[u] = <<>>
  BY DEF TypeOK, StripInv, Apps
<1>4. Grows
  <2>1. CASE t \in Open /\ cmds' = Sent(cmds, StagedSender(t), [do |-> "media", from |-> t])
    BY <2>1, StagedSent
  <2>2. CASE cmds' = cmds
    BY <2>2 DEF Grows, TypeOK
  <2> QED BY <2>1, <2>2 DEF ReadStream
<1>5. CASE t \in Open
  <2>1. /\ ScreenOf(app, t).heard + Said(events[t]) + Said(core[t].say) = core[t].said
        /\ Said(core[t].say) \in Nat /\ core[t].said \in 0..MaxSaid /\ MaxSaid \in Nat
    BY <1>5, CoreType, SaidType, TabsAssumption DEF StreamInv
  <2>2. ScreenOf(app, t) \in Screens
    BY <1>3, <1>5 DEF ScreenOf, Staged, Apps, Open
  <2>3. ScreenOf(app, t).heard \in Nat
    BY <2>2, TabsAssumption DEF Screens
  <2>4. ScreenOf(app, t).heard < MaxSaid
    BY <1>2, <2>1, <2>3
  <2>5. /\ app' \in Apps /\ Staged(app') /\ app'.strip = app.strip /\ app'.next = app.next
        /\ ScreenOf(app', t).heard = ScreenOf(app, t).heard + 1
        /\ \A u \in Open \ {t} : ScreenOf(app', u) = ScreenOf(app, u)
    BY <1>3, <1>5, <2>4, HeardDoes DEF ReadStream, Open
  <2>6. TypeOK'
    BY <1>2, <1>4, <2>5 DEF ReadStream, dialogs, cores, Grows, TypeOK
  <2>7. Open' = Open
    BY <2>5 DEF Open
  <2>8. StripInv'
    <3>1. \A u \in Tabs : u >= app.next => u \notin Open
      BY OpenTabs
    <3>2. \A u \in Tabs : u >= app'.next
             => core'[u] = NoCore /\ events'[u] = <<>> /\ cmds'[u] = <<>>
      BY <1>2, <1>3, <1>4, <2>5, <3>1 DEF ReadStream, cores, StripInv, Grows
    <3> QED BY <2>5, <2>7, <3>2 DEF ReadStream, dialogs, cores, StripInv
  <2>9. ScreenOf(app', t).heard + Said(events'[t]) + Said(core[t].say) = core[t].said
    <3>1. /\ ScreenOf(app', t).heard = ScreenOf(app, t).heard + 1
          /\ ScreenOf(app, t).heard \in Nat /\ Said(events'[t]) \in Nat
          /\ Said(core[t].say) \in Nat /\ Said(events[t]) = Said(events'[t]) + 1
          /\ ScreenOf(app, t).heard + Said(events[t]) + Said(core[t].say) = core[t].said
      BY <1>2, <2>1, <2>3, <2>5
    <3> QED BY <3>1
  <2>10. StreamInv'
    <3> SUFFICES ASSUME NEW u \in Open
                 PROVE  ScreenOf(app', u).heard + Said(events'[u]) + Said(core[u].say)
                          = core[u].said
      BY <2>7 DEF StreamInv, ReadStream, cores
    <3>1. CASE u = t
      BY <2>9, <3>1
    <3>2. CASE u # t
      BY <1>2, <2>5, <3>2, OpenTabs DEF StreamInv
    <3> QED BY <3>1, <3>2
  <2> QED BY <2>6, <2>8, <2>10
<1>6. CASE t \notin Open
  <2>1. app' = app /\ cmds' = cmds
    <3>1. app' = app
      <4>1. app' = Heard(app, t) /\ t \notin ToSet(app.strip)
        BY <1>6 DEF ReadStream, Open
      <4>2. t # app.active
        BY <1>3, <4>1 DEF Staged
      <4> QED BY <4>1, <4>2 DEF Heard
    <3>2. cmds' = cmds
      BY <1>6 DEF ReadStream
    <3> QED BY <3>1, <3>2
  <2>2. TypeOK'
    BY <1>2, <1>3, <2>1 DEF ReadStream, dialogs, cores, TypeOK
  <2>3. Open' = Open
    BY <2>1 DEF Open
  <2>4. StripInv'
    BY <1>2, <1>3, <2>1, <2>3 DEF ReadStream, dialogs, cores, StripInv
  <2>5. \A u \in Open : events'[u] = events[u]
    BY <1>2, <1>6, OpenTabs
  <2>6. StreamInv'
    BY <2>1, <2>3, <2>5 DEF StreamInv, ReadStream, cores
  <2> QED BY <2>2, <2>4, <2>6
<1> QED BY <1>5, <1>6

\* The screen in the slot is told of the model.
LEMMA SavedDoes ==
    ASSUME NEW a \in Apps, Staged(a), NEW m \in 0..MaxActs,
           NEW b, b = [a EXCEPT !.slot.model = m]
    PROVE  /\ b \in Apps /\ Staged(b) /\ b.strip = a.strip /\ b.next = a.next
           /\ b.active = a.active
           /\ \A u \in ToSet(a.strip) : ScreenOf(b, u).heard = ScreenOf(a, u).heard
<1> DEFINE s == [a.slot EXCEPT !.model = m]
<1>1. s \in Screens /\ s.of = a.slot.of /\ s.heard = a.slot.heard
  BY DEF Apps, Screens
<1>2. b = [a EXCEPT !.slot = s]
  OBVIOUS
<1> HIDE DEF s
<1>3. /\ b.strip = a.strip /\ b.next = a.next /\ b.active = a.active
      /\ b.sender = a.sender /\ b.slot = s /\ b.parked = a.parked
  BY <1>2 DEF Apps
<1>4. b \in Apps
  BY <1>1, <1>2 DEF Apps
<1>5. Staged(b)
  BY <1>1, <1>3 DEF Staged
<1> QED BY <1>1, <1>3, <1>4, <1>5 DEF ScreenOf

LEMMA ReadKept ==
    ASSUME Base, NEW t \in Tabs, Read(t)
    PROVE  Base'
<1> USE DEF Base
<1> DEFINE Others == ReadReply(t) \/ ReadList(t) \/ ReadTree(t) \/ ReadSaved(t)
<1>1. CASE Others
  <2>1. PICK kinds \in SUBSET Answers : Reads(t, kinds)
    <3>1. {"reply"} \in SUBSET Answers /\ {"list"} \in SUBSET Answers
          /\ {"tree"} \in SUBSET Answers /\ {"saved"} \in SUBSET Answers
      BY DEF Answers
    <3> QED BY <1>1, <3>1 DEF ReadReply, ReadList, ReadTree, ReadSaved
  <2>2. /\ events' \in [Tabs -> Seq(Stream \cup Answers)]
        /\ \A u \in Tabs : Len(events'[u]) <= EventBuffer
        /\ \A u \in Tabs \ {t} : events'[u] = events[u]
        /\ events[t] # <<>> /\ Head(events[t]) \in Answers
        /\ Said(events[t]) = Said(events'[t])
                             + (IF Head(events[t]) \in Stream THEN 1 ELSE 0)
        /\ Said(events'[t]) \in Nat
    BY <2>1, ReadsDoes
  <2>3. \A u \in Tabs : Said(events'[u]) = Said(events[u])
    BY <2>2 DEF Answers, Stream
  <2>4. /\ cmds' = cmds /\ core' = core /\ prefs' = prefs /\ file' = file /\ faults' = faults
        /\ live' = live /\ render' = render /\ chosen' = chosen /\ acts' = acts
    BY <1>1 DEF ReadReply, ReadList, ReadTree, ReadSaved, ui, cores, dialogs
  <2>5. /\ picker' \in [open : BOOLEAN, list : Tabs \cup {NoTab}]
        /\ tree' \in [open : BOOLEAN, of : Tabs \cup {NoTab}]
        /\ overlay' \in {"none", "picker", "tree"}
        /\ overlay' = "tree" => tree'.of \in Tabs
    <3>0. /\ picker \in [open : BOOLEAN, list : Tabs \cup {NoTab}]
          /\ tree \in [open : BOOLEAN, of : Tabs \cup {NoTab}]
          /\ overlay \in {"none", "picker", "tree"} /\ (overlay = "tree" => tree.of \in Tabs)
      BY DEF TypeOK, StripInv
    <3>1. CASE ReadReply(t) \/ ReadSaved(t)
      BY <3>0, <3>1 DEF ReadReply, ReadSaved, ui, dialogs
    <3>2. CASE ReadList(t)
      <4>1. picker' = [picker EXCEPT !.list = t] /\ UNCHANGED <<overlay, tree>>
        BY <3>2 DEF ReadList
      <4> QED BY <3>0, <4>1
    <3>3. CASE ReadTree(t)
      <4>1. /\ tree' = [open |-> TRUE, of |-> t] /\ picker' = picker
            /\ overlay' \in {overlay, "tree"}
        BY <3>3 DEF ReadTree
      <4> QED BY <3>0, <4>1
    <3> QED BY <1>1, <3>1, <3>2, <3>3
  <2>6. file["model"] \in 0..MaxActs
    BY DEF TypeOK, Prefs, Keys
  <2>7. /\ app' \in Apps /\ Staged(app') /\ app'.strip = app.strip /\ app'.next = app.next
        /\ \A u \in Open : ScreenOf(app', u).heard = ScreenOf(app, u).heard
    <3>0. app \in Apps /\ Staged(app)
      BY DEF TypeOK, StripInv
    <3>1. CASE ReadSaved(t)
      BY <2>6, <3>0, <3>1, SavedDoes DEF ReadSaved, Open
    <3>2. CASE app' = app
      BY <3>0, <3>2
    <3> QED BY <1>1, <3>1, <3>2 DEF ReadReply, ReadList, ReadTree, ui
  <2>8. conn' \in 0..MaxActs
    BY <1>1, <2>6 DEF ReadReply, ReadList, ReadTree, ReadSaved, ui, TypeOK
  <2>9. TypeOK'
    BY <2>2, <2>4, <2>5, <2>7, <2>8 DEF TypeOK
  <2>10. Open' = Open
    BY <2>7 DEF Open
  <2>11. StripInv'
    <3>1. \A u \in Tabs : u >= app.next => core[u] = NoCore /\ events'[u] = <<>> /\ cmds[u] = <<>>
      BY <2>2 DEF StripInv
    <3> QED BY <2>4, <2>5, <2>7, <2>10, <3>1 DEF StripInv
  <2>12. StreamInv'
    BY <2>3, <2>4, <2>7, <2>10, OpenTabs DEF StreamInv
  <2> QED BY <2>9, <2>11, <2>12
<1> QED BY <1>1, ReadStreamKept DEF Read

LEMMA AsksKept ==
    ASSUME Base, Asks
    PROVE  Base'
<1> USE DEF Base
<1>1. /\ Grows /\ UNCHANGED <<app, core, events, prefs, file, render, conn, live, faults>>
      /\ overlay' \in {"none", "picker", "tree"} /\ (overlay' = "tree" => overlay = "tree")
      /\ picker' \in [open : BOOLEAN, list : Tabs \cup {NoTab}]
      /\ tree' \in [open : BOOLEAN, of : Tabs \cup {NoTab}] /\ tree'.of = tree.of
      /\ chosen' \in Prefs /\ acts' \in 0..MaxActs
  BY AsksDoes
<1>2. TypeOK'
  BY <1>1 DEF TypeOK, Grows
<1>3. Open' = Open
  BY <1>1 DEF Open
<1>4. StripInv'
  BY <1>1, <1>3, OpenTabs DEF StripInv, Grows
<1>5. StreamInv'
  BY <1>1, <1>3 DEF StreamInv
<1> QED BY <1>2, <1>4, <1>5

LEMMA CoreKept ==
    ASSUME Base, NEW t \in Tabs, CoreStep(t)
    PROVE  Base'
<1> USE DEF Base
<1>1. /\ UNCHANGED <<app, overlay, picker, tree, conn, live, render, chosen, acts>>
      /\ cmds' \in [Tabs -> Seq(Commands)] /\ \A u \in Tabs : Len(cmds'[u]) <= CommandBuffer
      /\ events' \in [Tabs -> Seq(Stream \cup Answers)]
      /\ \A u \in Tabs : Len(events'[u]) <= EventBuffer
      /\ core' \in [Tabs -> Cores]
      /\ prefs' \in [Tabs -> Prefs] /\ file' \in Prefs /\ faults' \in 0..MaxFaults
      /\ \A u \in Tabs \ {t} : /\ cmds'[u] = cmds[u] /\ events'[u] = events[u]
                               /\ core'[u] = core[u]
      /\ core[t] # NoCore
      /\ t \in Open => core'[t].at = core[t].at
      /\ Said(events'[t]) + Said(core'[t].say) + core[t].said
           = Said(events[t]) + Said(core[t].say) + core'[t].said
  BY CoreStepDoes
<1>2. TypeOK'
  BY <1>1 DEF TypeOK
<1>3. Open' = Open
  BY <1>1 DEF Open
<1>4. StripInv'
  <2>1. \A u \in Open : core'[u].at = "up"
    BY <1>1, OpenTabs DEF StripInv
  <2>2. \A u \in Tabs : u >= app.next => core'[u] = NoCore /\ events'[u] = <<>> /\ cmds'[u] = <<>>
    BY <1>1 DEF StripInv
  <2> QED BY <1>1, <1>3, <2>1, <2>2 DEF StripInv
<1>5. StreamInv'
  <2> SUFFICES ASSUME NEW u \in Open
               PROVE  ScreenOf(app, u).heard + Said(events'[u]) + Said(core'[u].say)
                        = core'[u].said
    BY <1>1, <1>3 DEF StreamInv
  <2>0. u \in Tabs
    BY OpenTabs
  <2>1. CASE u = t
    <3>1. /\ ScreenOf(app, t).heard + Said(events[t]) + Said(core[t].say) = core[t].said
          /\ ScreenOf(app, t) \in Screens
      BY <2>1 DEF StreamInv, ScreenOf, StripInv, Staged, Open, TypeOK, Apps
    <3>2. /\ Said(events[t]) \in Nat /\ Said(core[t].say) \in Nat /\ core[t].said \in Nat
      BY CoreType, SaidType DEF TypeOK
    <3>3. core'[t].said \in Nat /\ core'[t].say \in Seq(Stream \cup Answers)
      BY <1>1, TabsAssumption DEF Cores
    <3>4. Said(events'[t]) \in Nat /\ Said(core'[t].say) \in Nat
      BY <1>1, <3>3, SaidType
    <3>5. ScreenOf(app, t).heard \in Nat
      BY <3>1, TabsAssumption DEF Screens
    <3>6. Said(events'[t]) + Said(core'[t].say) + core[t].said
            = Said(events[t]) + Said(core[t].say) + core'[t].said
      BY <1>1
    <3>7. ScreenOf(app, t).heard + Said(events'[t]) + Said(core'[t].say) = core'[t].said
      <4> DEFINE h == ScreenOf(app, t).heard
                 e == Said(events[t])
                 s == Said(core[t].say)
                 n == core[t].said
                 e1 == Said(events'[t])
                 s1 == Said(core'[t].say)
                 n1 == core'[t].said
      <4>1. h \in Nat /\ e \in Nat /\ s \in Nat /\ n \in Nat
            /\ e1 \in Nat /\ s1 \in Nat /\ n1 \in Nat
        BY <3>2, <3>3, <3>4, <3>5
      <4>2. h + e + s = n /\ e1 + s1 + n = e + s + n1
        BY <3>1, <3>6
      <4>3. h + e1 + s1 = n1
        <5> HIDE DEF h, e, s, n, e1, s1, n1
        <5> QED BY <4>1, <4>2
      <4> QED BY <4>3
    <3> QED BY <2>1, <3>7
  <2>2. CASE u # t
    BY <1>1, <2>0, <2>2 DEF StreamInv
  <2> QED BY <2>1, <2>2
<1> QED BY <1>2, <1>4, <1>5

LEMMA LeavesIdle ==
    ASSUME Leaves
    PROVE  render = Selecting /\ overlay = "none" /\ acts' = acts
BY DEF Leaves

LEMMA GotoTabKept ==
    ASSUME Base, GotoTab
    PROVE  Base'
<1> USE DEF Base
<1>1. PICK t \in Open \ {app.active} : app' = SetActive(app, t)
  BY DEF GotoTab
<1>2. /\ UNCHANGED <<overlay, picker, tree, conn, cmds, events, core, prefs, file, faults,
                     live, render, chosen, acts>>
  BY LeavesIdle DEF GotoTab, dialogs, cores
<1>3. app \in Apps /\ Staged(app)
  BY DEF TypeOK, StripInv
<1>4. /\ app' \in Apps /\ Staged(app') /\ app'.strip = app.strip /\ app'.next = app.next
      /\ \A u \in Open : ScreenOf(app', u) = ScreenOf(app, u)
  BY <1>1, <1>3, SetActiveDoes DEF Open
<1>5. Open' = Open
  BY <1>4 DEF Open
<1>6. TypeOK'
  BY <1>2, <1>4 DEF TypeOK
<1>7. StripInv'
  BY <1>2, <1>4, <1>5 DEF StripInv
<1>8. StreamInv'
  BY <1>2, <1>4, <1>5 DEF StreamInv
<1> QED BY <1>6, <1>7, <1>8

LEMMA CloseActiveDoes ==
    ASSUME Base, CloseActive
    PROVE  /\ app' \in Apps /\ Staged(app') /\ app'.next = app.next
           /\ Open' = Open \ {app.active} /\ app.active \in Tabs
           /\ \A u \in Open' : ScreenOf(app', u) = ScreenOf(app, u)
           /\ Grows
           /\ cmds' = Sent(cmds, app.active, [do |-> "cancel", from |-> app.active])
           /\ [do |-> "cancel", from |-> app.active] \in Commands
           /\ render = Selecting /\ render' = [at |-> "closing", tab |-> app.active]
           /\ overlay = "none" /\ live' \subseteq live
           /\ UNCHANGED <<overlay, picker, tree, conn, events, core, prefs, file, faults,
                          chosen, acts>>
<1> USE DEF Base
<1>1. app \in Apps /\ Staged(app) /\ app.active \in Open /\ app.active \in Tabs
  BY OpenTabs DEF TypeOK, StripInv
<1>2. /\ Len(app.strip) > 1 /\ app' = CloseTab(app, app.active)
      /\ cmds' = Sent(cmds, app.active, [do |-> "cancel", from |-> app.active])
      /\ live' \subseteq live /\ render' = [at |-> "closing", tab |-> app.active]
      /\ UNCHANGED <<picker, tree, conn, events, core, prefs, file, faults, chosen>>
      /\ overlay' = overlay /\ Leaves
  BY DEF CloseActive, dialogs, cores
<1>3. [do |-> "cancel", from |-> app.active] \in Commands
  BY <1>1 DEF Commands
<1>4. Grows
  BY <1>1, <1>2, <1>3, SentGrows
<1>5. /\ app' \in Apps /\ Staged(app') /\ app'.next = app.next
      /\ ToSet(app'.strip) = ToSet(app.strip) \ {app.active}
      /\ \A u \in ToSet(app'.strip) : ScreenOf(app', u) = ScreenOf(app, u)
  BY <1>1, <1>2, CloseTabDoes
<1>6. /\ Open' = Open \ {app.active}
      /\ \A u \in Open' : ScreenOf(app', u) = ScreenOf(app, u)
  BY <1>5 DEF Open
<1> QED BY <1>1, <1>2, <1>3, <1>4, <1>5, <1>6, LeavesIdle

LEMMA CloseActiveKept ==
    ASSUME Base, CloseActive
    PROVE  Base'
<1> USE DEF Base
<1>1. /\ app' \in Apps /\ Staged(app') /\ app'.next = app.next
      /\ Open' = Open \ {app.active} /\ app.active \in Tabs
      /\ \A u \in Open' : ScreenOf(app', u) = ScreenOf(app, u)
      /\ Grows
      /\ render' = [at |-> "closing", tab |-> app.active]
      /\ overlay = "none" /\ live' \subseteq live
      /\ UNCHANGED <<overlay, picker, tree, conn, events, core, prefs, file, faults,
                     chosen, acts>>
  BY CloseActiveDoes
<1>2. TypeOK'
  BY <1>1 DEF TypeOK, Grows
<1>3. StripInv'
  BY <1>1, OpenTabs DEF StripInv, Grows
<1>4. StreamInv'
  BY <1>1 DEF StreamInv
<1> QED BY <1>2, <1>3, <1>4

LEMMA SpawnedDoes ==
    ASSUME Base, Spawned
    PROVE  LET t == app.next IN
           /\ render.at = "spawning" /\ render.tab = t /\ t \in Tabs /\ t \notin Open
           /\ app' \in Apps /\ Staged(app') /\ app'.next = t + 1 /\ app'.active = t
           /\ Open' = Open \cup {t}
           /\ \A u \in Open : ScreenOf(app', u) = ScreenOf(app, u)
           /\ ScreenOf(app', t).heard = 0
           /\ core' \in [Tabs -> Cores] /\ prefs' = [prefs EXCEPT ![t] = file]
           /\ \A u \in Tabs \ {t} : core'[u] = core[u]
           /\ core'[t].at = "up" /\ core'[t].say = <<>> /\ core'[t].said = 0
           /\ render' = Selecting /\ live' \subseteq Tabs
           /\ UNCHANGED <<overlay, picker, tree, conn, cmds, events, file, faults, chosen, acts>>
<1> USE DEF Base
<1> DEFINE t == app.next
<1>1. render.at = "spawning" /\ render.tab = t /\ t \in Tabs
  BY DEF Spawned, StripInv
<1>2. app \in Apps /\ Staged(app) /\ app.next \in Nat /\ conn \in 0..MaxActs
  BY DEF TypeOK, StripInv, Apps
<1>3. /\ app' = OpenTab(app, t) /\ core' = [core EXCEPT ![t] = [core[t] EXCEPT !.at = "up"]]
      /\ prefs' = [prefs EXCEPT ![t] = file] /\ live' = live \cup {t} /\ render' = Selecting
      /\ UNCHANGED <<overlay, picker, tree, conn, cmds, events, file, faults, chosen, acts>>
  BY <1>1 DEF Spawned, dialogs
<1>4. /\ app' \in Apps /\ Staged(app')
      /\ ToSet(app'.strip) = ToSet(app.strip) \cup {t} /\ t \notin ToSet(app.strip)
      /\ app'.next = t + 1 /\ app'.active = t
      /\ \A u \in ToSet(app.strip) : ScreenOf(app', u) = ScreenOf(app, u)
      /\ ScreenOf(app', t) = Screen(t, conn)
  BY <1>1, <1>2, <1>3, OpenTabDoes
<1>5. ScreenOf(app', t).heard = 0
  BY <1>4 DEF Screen
<1>6. core[t] = NoCore
  BY <1>1, <1>2 DEF StripInv
<1> DEFINE c == [core[t] EXCEPT !.at = "up"]
<1>7. c \in Cores /\ c.at = "up" /\ c.say = <<>> /\ c.said = 0
  <2>1. core[t] \in Cores /\ core[t].say = <<>> /\ core[t].said = 0
    BY <1>1, <1>6, CoreType DEF NoCore
  <2> QED BY <2>1 DEF Cores
<1> HIDE DEF c
<1>8. /\ core' \in [Tabs -> Cores] /\ core'[t] = c
      /\ \A u \in Tabs \ {t} : core'[u] = core[u]
  <2>1. core' = [core EXCEPT ![t] = c]
    BY <1>3 DEF c
  <2> QED BY <1>1, <1>7, <2>1, CoreChanges
<1>9. live' \subseteq Tabs
  BY <1>1, <1>3 DEF TypeOK
<1> QED BY <1>1, <1>3, <1>4, <1>5, <1>7, <1>8, <1>9 DEF Open

LEMMA SpawnedKept ==
    ASSUME Base, Spawned
    PROVE  Base'
<1> USE DEF Base
<1> DEFINE t == app.next
<1>1. /\ render.at = "spawning" /\ render.tab = t /\ t \in Tabs /\ t \notin Open
      /\ app' \in Apps /\ Staged(app') /\ app'.next = t + 1 /\ app'.active = t
      /\ Open' = Open \cup {t}
      /\ \A u \in Open : ScreenOf(app', u) = ScreenOf(app, u)
      /\ ScreenOf(app', t).heard = 0
      /\ core' \in [Tabs -> Cores] /\ prefs' = [prefs EXCEPT ![t] = file]
      /\ \A u \in Tabs \ {t} : core'[u] = core[u]
      /\ core'[t].at = "up" /\ core'[t].say = <<>> /\ core'[t].said = 0
      /\ render' = Selecting /\ live' \subseteq Tabs
      /\ UNCHANGED <<overlay, picker, tree, conn, cmds, events, file, faults, chosen, acts>>
  BY SpawnedDoes
<1>2. app.next \in Nat /\ \A u \in Tabs : u \in Nat
  BY NoScreenApart DEF TypeOK, Apps
<1>3. TypeOK'
  <2>1. prefs' \in [Tabs -> Prefs]
    BY <1>1 DEF TypeOK
  <2>2. render' \in [at : {"select", "spawning", "closing"}, tab : Tabs \cup {NoTab}]
    BY <1>1 DEF Selecting
  <2> QED BY <1>1, <2>1, <2>2 DEF TypeOK
<1>4. StripInv'
  <2>1. \A u \in Open' : core'[u].at = "up"
    BY <1>1, OpenTabs DEF StripInv
  <2>2. \A u \in Tabs : u >= app'.next
           => core'[u] = NoCore /\ events'[u] = <<>> /\ cmds'[u] = <<>>
    BY <1>1, <1>2 DEF StripInv
  <2> QED BY <1>1, <2>1, <2>2 DEF StripInv, Selecting
<1>5. StreamInv'
  <2>1. events[t] = <<>> /\ Said(events[t]) = 0 /\ Said(core'[t].say) = 0
    <3>1. events[t] = <<>> /\ events[t] \in Seq(Stream \cup Answers)
      BY <1>1, <1>2 DEF StripInv, TypeOK
    <3>2. core'[t].say \in Seq(Stream \cup Answers)
      BY <1>1
    <3> QED BY <1>1, <3>1, <3>2, SaidType
  <2>2. ScreenOf(app', t).heard + Said(events'[t]) + Said(core'[t].say) = core'[t].said
    BY <1>1, <2>1
  <2>3. \A u \in Open :
          ScreenOf(app', u).heard + Said(events'[u]) + Said(core'[u].say) = core'[u].said
    BY <1>1, OpenTabs DEF StreamInv
  <2> QED BY <1>1, <2>2, <2>3 DEF StreamInv
<1> QED BY <1>3, <1>4, <1>5

\* Steps that leave the screens, the channels and the cores alone.
Waits == NewTab \/ Dismiss \/ SpawnFails \/ Joined

LEMMA WaitsDoes ==
    ASSUME Base, Waits
    PROVE  /\ UNCHANGED <<app, conn, cmds, events, core, prefs, file, faults, live, chosen, acts>>
           /\ \/ /\ render' = render /\ render = Selecting /\ overlay' = "none"
                 /\ picker' \in [open : BOOLEAN, list : Tabs \cup {NoTab}]
                 /\ tree' \in [open : BOOLEAN, of : Tabs \cup {NoTab}]
              \/ /\ NewTab /\ render' = [at |-> "spawning", tab |-> app.next]
                 /\ app.next \in Tabs /\ overlay = "none" /\ render = Selecting
                 /\ UNCHANGED <<overlay, picker, tree>>
              \/ /\ render' = Selecting /\ UNCHANGED <<overlay, picker, tree>>
                 /\ SpawnFails \/ Joined
<1> USE DEF Base
<1>1. CASE NewTab
  BY <1>1, LeavesIdle DEF NewTab, ui, cores
<1>2. CASE Dismiss
  <2>1. /\ picker' \in [open : BOOLEAN, list : Tabs \cup {NoTab}]
        /\ tree' \in [open : BOOLEAN, of : Tabs \cup {NoTab}] /\ overlay' = "none"
    BY <1>2 DEF Dismiss, CloseOverlay, TypeOK
  <2> QED BY <1>2, <2>1 DEF Dismiss, cores
<1>3. CASE SpawnFails \/ Joined
  BY <1>3 DEF SpawnFails, Joined, ui, cores
<1> QED BY <1>1, <1>2, <1>3 DEF Waits

LEMMA WaitsKept ==
    ASSUME Base, Waits
    PROVE  Base'
<1> USE DEF Base
<1>1. /\ UNCHANGED <<app, conn, cmds, events, core, prefs, file, faults, live, chosen, acts>>
      /\ \/ /\ render' = render /\ overlay' = "none"
            /\ picker' \in [open : BOOLEAN, list : Tabs \cup {NoTab}]
            /\ tree' \in [open : BOOLEAN, of : Tabs \cup {NoTab}]
         \/ /\ render' = [at |-> "spawning", tab |-> app.next] /\ app.next \in Tabs
            /\ UNCHANGED <<overlay, picker, tree>>
         \/ render' = Selecting /\ UNCHANGED <<overlay, picker, tree>>
  BY WaitsDoes
<1>2. Open' = Open
  BY <1>1 DEF Open
<1>3. TypeOK'
  BY <1>1 DEF TypeOK, Selecting
<1>4. StripInv'
  BY <1>1, <1>2 DEF StripInv, Selecting
<1>5. StreamInv'
  BY <1>1, <1>2 DEF StreamInv
<1> QED BY <1>3, <1>4, <1>5

LEMMA Steps ==
    ASSUME Next
    PROVE  \/ Asks \/ GotoTab \/ CloseActive \/ Spawned \/ Waits
           \/ \E t \in Tabs : CoreStep(t) \/ Read(t)
BY DEF Next, User, LoopStep, Asks, Waits

LEMMA InitBase == Init => Base
<1> SUFFICES ASSUME Init PROVE Base
  OBVIOUS
<1>0. 1 \in Tabs /\ MaxActs \in Nat /\ MaxSaid \in Nat /\ MaxFaults \in Nat
      /\ CommandBuffer \in Nat /\ EventBuffer \in Nat
  BY TabsAssumption
<1>1. app.strip = <<1>> /\ app.active = 1 /\ app.slot = Screen(1, 0) /\ app.sender = 1
      /\ app.next = 2 /\ app.parked = [t \in Tabs |-> NoScreen]
  BY DEF Init
<1>2. ToSet(<<1>>) = {1} /\ <<1>> \in Seq(Tabs) /\ IsInjective(<<1>>)
  BY <1>0 DEF ToSet, IsInjective
<1>3. Screen(1, 0) \in Screens /\ Screen(1, 0).of = 1 /\ Screen(1, 0).heard = 0
  BY <1>0 DEF Screen, Screens
<1>4. app \in Apps
  BY <1>0, <1>2, <1>3 DEF Apps, Init
<1>5. Staged(app)
  BY <1>1, <1>2, <1>3 DEF Staged
<1> DEFINE c == [NoCore EXCEPT !.at = "up"]
<1>6. NoCore \in Cores /\ c \in Cores /\ c.at = "up" /\ c.say = <<>> /\ c.said = 0
  <2>1. NoCore \in Cores
    BY <1>0 DEF NoCore, Cores
  <2>2. NoCore.say = <<>> /\ NoCore.said = 0
    BY DEF NoCore
  <2> QED BY <2>1, <2>2 DEF Cores
<1> DEFINE cs == [t \in Tabs |-> NoCore]
<1>7. core = [cs EXCEPT ![1] = [cs[1] EXCEPT !.at = "up"]]
  BY DEF Init
<1>7a. core = [cs EXCEPT ![1] = c]
  BY <1>0, <1>7
<1> HIDE DEF c
<1>8. core \in [Tabs -> Cores] /\ core[1] = c /\ \A t \in Tabs \ {1} : core[t] = NoCore
  BY <1>0, <1>6, <1>7a
<1>9. /\ cmds \in [Tabs -> Seq(Commands)] /\ events \in [Tabs -> Seq(Stream \cup Answers)]
      /\ \A t \in Tabs : cmds[t] = <<>> /\ events[t] = <<>>
  BY DEF Init
<1>10. Unset \in Prefs
  BY <1>0 DEF Unset, Prefs
<1>11. TypeOK
  <2>1. /\ overlay = "none" /\ conn \in 0..MaxActs /\ live \subseteq Tabs
        /\ acts \in 0..MaxActs /\ faults \in 0..MaxFaults
        /\ picker \in [open : BOOLEAN, list : Tabs \cup {NoTab}]
        /\ tree \in [open : BOOLEAN, of : Tabs \cup {NoTab}]
        /\ render \in [at : {"select", "spawning", "closing"}, tab : Tabs \cup {NoTab}]
    BY <1>0 DEF Init, Selecting
  <2>2. prefs \in [Tabs -> Prefs] /\ file \in Prefs /\ chosen \in Prefs
    BY <1>10 DEF Init
  <2>3. \A t \in Tabs : Len(cmds[t]) <= CommandBuffer /\ Len(events[t]) <= EventBuffer
    BY <1>0, <1>9
  <2> QED BY <1>4, <1>8, <1>9, <2>1, <2>2, <2>3 DEF TypeOK
<1>12. Open = {1}
  BY <1>1, <1>2 DEF Open
<1>13. StripInv
  <2>1. \A t \in Tabs : t >= app.next => t # 1
    BY <1>1
  <2>2. render.at = "select" /\ overlay = "none"
    BY DEF Init, Selecting
  <2> QED BY <1>5, <1>6, <1>8, <1>9, <1>12, <2>1, <2>2 DEF StripInv
<1>14. StreamInv
  <2>1. Said(events[1]) = 0 /\ Said(core[1].say) = 0
    <3>1. core[1].say = <<>> /\ core[1].say \in Seq(Stream) /\ events[1] \in Seq(Stream)
      BY <1>0, <1>6, <1>8, <1>9
    <3> QED BY <1>0, <1>9, <3>1, SaidType
  <2> QED BY <1>1, <1>3, <1>6, <1>8, <1>12, <2>1 DEF StreamInv, ScreenOf
<1> QED BY <1>11, <1>13, <1>14 DEF Base

LEMMA BaseStep == Base /\ [Next]_vars => Base'
<1> SUFFICES ASSUME Base, [Next]_vars PROVE Base'
  OBVIOUS
<1>1. CASE UNCHANGED vars
  BY <1>1 DEF vars, Base, TypeOK, StripInv, StreamInv, Open
<1>2. CASE Next
  BY <1>2, Steps, AsksKept, GotoTabKept, CloseActiveKept, SpawnedKept, WaitsKept, CoreKept, ReadKept
<1> QED BY <1>1, <1>2

\* Every variable keeps to its type, whatever the windows: no channel holds
\* more than its bound, and no screen hears more than its core said.
THEOREM TypeCorrect == Spec => []TypeOK
<1>1. Base => TypeOK
  BY DEF Base
<1> QED BY <1>1, InitBase, BaseStep, PTL DEF Spec

\* Whatever the windows: each open tab's screen is its own and was told all
\* its core said, but for what is on its way.
THEOREM OwnStreamSafe == Spec => []OwnStream
<1>1. Base => OwnStream
  <2> SUFFICES ASSUME Base PROVE OwnStream
    OBVIOUS
  <2>1. /\ app.active \in Open /\ app.sender = app.active /\ app.slot.of = app.active
        /\ Open \subseteq Tabs
    BY OpenTabs DEF Base
  <2>2. app.slot \in Screens
    BY DEF Base, TypeOK, Apps
  <2>3. \A t \in Open : ScreenOf(app, t) \in Screens /\ ScreenOf(app, t).of = t
    BY <2>1, <2>2 DEF Base, StripInv, Staged, Open, ScreenOf
  <2>4. \A t \in Open : ScreenOf(app, t) # NoScreen
    BY <2>3, NoScreenApart
  <2> QED BY <2>1, <2>3, <2>4 DEF Base, StreamInv, OwnStream
<1> QED BY <1>1, InitBase, BaseStep, PTL DEF Spec

(***************************************************************************)
(* Commands at home                                                        *)
(***************************************************************************)
Home(queue, t) == \A i \in DOMAIN queue : queue[i].from = t
Quiet(queue) == \A i \in DOMAIN queue : queue[i].do \notin {"list", "tree"}
Words(t) == ToSet(events[t]) \cup ToSet(core[t].say)

LEMMA Hushed ==
    ASSUME NEW t \in Tabs
    PROVE  Answered(t) <=> Quiet(cmds[t]) /\ {"list", "tree"} \cap Words(t) = {}
BY DEF Answered, Quiet, Words

LEMMA QueueTakes ==
    ASSUME NEW q \in Seq(Commands), q # <<>>, NEW t
    PROVE  /\ Home(q, t) => Home(Tail(q), t)
           /\ Quiet(q) => Quiet(Tail(q)) /\ Head(q).do \notin {"list", "tree"}
BY Leads DEF Home, Quiet

LEMMA QueueGets ==
    ASSUME NEW q \in Seq(Commands), NEW cmd \in Commands, NEW t
    PROVE  /\ Home(q, t) /\ cmd.from = t => Home(Append(q, cmd), t)
           /\ Quiet(q) /\ cmd.do \notin {"list", "tree"} => Quiet(Append(q, cmd))
<1> DEFINE r == Append(q, cmd)
<1>1. /\ DOMAIN r = 1..(Len(q) + 1) /\ DOMAIN q = 1..Len(q) /\ Len(q) \in Nat
      /\ r[Len(q) + 1] = cmd /\ \A i \in DOMAIN q : r[i] = q[i]
  BY Joins
<1> HIDE DEF r
<1>2. \A i \in DOMAIN r : i \in DOMAIN q \/ i = Len(q) + 1
  BY <1>1
<1> QED BY <1>1, <1>2 DEF Home, Quiet, r

\* A core whose tab waits for no answer gives none.
LEMMA CoreWords ==
    ASSUME Base, NEW t \in Tabs, CoreStep(t)
    PROVE  /\ \/ cmds'[t] = cmds[t]
              \/ cmds[t] # <<>> /\ cmds'[t] = Tail(cmds[t])
           /\ Answered(t) => Words(t)' \subseteq Words(t) \cup {"turn", "token", "reply", "saved"}
<1> USE DEF Base
<1>1. /\ cmds[t] \in Seq(Commands) /\ events[t] \in Seq(Stream \cup Answers)
      /\ core[t] \in Cores /\ core[t].say \in Seq(Stream \cup Answers)
      /\ core \in [Tabs -> Cores]
  BY CoreType DEF TypeOK
<1>2. \A do : Takes(t, do) => /\ cmds[t] # <<>> /\ cmds'[t] = Tail(cmds[t])
                              /\ Head(cmds[t]).do = do /\ core[t].say = <<>>
  BY TakesDoes
<1>3. Answered(t) /\ cmds[t] # <<>> => Head(cmds[t]).do \notin {"list", "tree"}
  BY <1>1, QueueTakes, Hushed
<1>4. \A e \in Answers : Says(t, e) => ToSet(core'[t].say) = ToSet(core[t].say) \cup {e}
  <2> SUFFICES ASSUME NEW e \in Answers, Says(t, e)
               PROVE  ToSet(core'[t].say) = ToSet(core[t].say) \cup {e}
    OBVIOUS
  <2>1. core'[t].say = Append(core[t].say, e)
    BY <1>1 DEF Says, Cores
  <2>2. e \in Stream \cup Answers
    OBVIOUS
  <2> QED BY <1>1, <2>1, <2>2, Joins
<1>5. "turn" \in Stream \cup Answers /\ "token" \in Stream \cup Answers
      /\ {"list", "tree", "reply", "saved"} \subseteq Answers
  BY DEF Stream, Answers
<1>6. CASE TakeSend(t)
  <2>1. Takes(t, "send") /\ events' = events
    BY <1>6 DEF TakeSend
  <2>2. CASE core' = core
    BY <1>2, <2>1, <2>2 DEF Words
  <2>3. CASE core' # core
    <3>1. core'[t].say = Append(core[t].say, "turn")
      BY <1>1, <1>6, <2>3 DEF TakeSend, Cores
    <3>2. ToSet(core'[t].say) = ToSet(core[t].say) \cup {"turn"}
      BY <1>1, <1>5, <3>1, Joins
    <3> QED BY <1>2, <2>1, <3>2 DEF Words
  <2> QED BY <2>2, <2>3
<1>7. CASE TakeList(t) \/ TakeTree(t)
  BY <1>2, <1>3, <1>7 DEF TakeList, TakeTree
<1>8. CASE TakePick(t)
  BY <1>2, <1>4, <1>5, <1>8 DEF TakePick, Words
<1>9. CASE TakeSet(t)
  BY <1>2, <1>4, <1>5, <1>9 DEF TakeSet, Words
<1>10. CASE TakeCancel(t)
  BY <1>2, <1>10 DEF TakeCancel, cores, Words
<1>11. CASE Say(t)
  <2> DEFINE w == core[t].say
  <2>1. w # <<>> /\ Tell(t, Head(w)) /\ cmds' = cmds /\ core'[t].say = Tail(w)
    BY <1>1, <1>11 DEF Say, Cores
  <2>2. ToSet(w) = ToSet(Tail(w)) \cup {Head(w)} /\ Head(w) \in Stream \cup Answers
    BY <1>1, <2>1, Leads
  <2>3. events'[t] = Append(events[t], Head(w))
    BY <2>1, <2>2, TellDoes
  <2>4. ToSet(events'[t]) = ToSet(events[t]) \cup {Head(w)}
    BY <1>1, <2>2, <2>3, Joins
  <2> QED BY <2>1, <2>2, <2>4 DEF Words
<1>12. CASE Token(t)
  <2>1. Tell(t, "token") /\ cmds' = cmds /\ core'[t].say = core[t].say
    BY <1>1, <1>12 DEF Token, Cores
  <2>2. events'[t] = Append(events[t], "token")
    BY <1>5, <2>1, TellDoes
  <2>3. ToSet(events'[t]) = ToSet(events[t]) \cup {"token"}
    BY <1>1, <1>5, <2>2, Joins
  <2> QED BY <2>1, <2>3 DEF Words
<1>13. CASE TurnEnds(t) \/ End(t)
  <2>1. cmds' = cmds /\ events' = events /\ core'[t].say = core[t].say
    BY <1>1, <1>13 DEF TurnEnds, End, Cores
  <2> QED BY <2>1 DEF Words
<1>14. CASE CutAndEnd(t)
  <2>1. /\ cmds' = cmds /\ events' = events /\ core[t].say = <<>>
        /\ core'[t].say = core[t].say \/ core'[t].say = <<"reply">>
    BY <1>1, <1>14 DEF CutAndEnd, Cores
  <2>2. ToSet(<<"reply">>) = {"reply"}
    BY DEF ToSet
  <2> QED BY <2>1, <2>2 DEF Words
<1> QED BY <1>6, <1>7, <1>8, <1>9, <1>10, <1>11, <1>12, <1>13, <1>14 DEF CoreStep

\* What the user asks is asked of the tab on screen.
LEMMA AsksHome ==
    ASSUME Base, AnswersInv, Asks
    PROVE  /\ \A t \in Open : \/ cmds'[t] = cmds[t]
                              \/ \E cmd \in Commands :
                                    /\ cmds'[t] = Append(cmds[t], cmd) /\ cmd.from = t
                                    /\ t # app.active => cmd.do \notin {"list", "tree"}
           /\ overlay' = "picker" => picker'.list \in {NoTab, app.active}
           /\ overlay' = "tree" => tree'.of = app.active
<1> USE DEF Base
<1>0. /\ app.sender = app.active /\ app.slot.of = app.active /\ Open \subseteq Tabs
      /\ app.active \in Open /\ NoTab \notin Tabs
  BY OpenTabs, NoScreenApart
<1>1. ASSUME NEW cmd \in Commands, cmds' = Sent(cmds, app.sender, cmd), cmd.from = app.active
      PROVE  \A t \in Open : \/ cmds'[t] = cmds[t]
                             \/ \E c \in Commands :
                                   /\ cmds'[t] = Append(cmds[t], c) /\ c.from = t
                                   /\ t # app.active => c.do \notin {"list", "tree"}
  <2> SUFFICES ASSUME NEW t \in Open
               PROVE  \/ cmds'[t] = cmds[t]
                      \/ \E c \in Commands :
                            /\ cmds'[t] = Append(cmds[t], c) /\ c.from = t
                            /\ t # app.active => c.do \notin {"list", "tree"}
    OBVIOUS
  <2>1. /\ \A u \in Tabs \ {app.active} : cmds'[u] = cmds[u]
        /\ cmds'[app.active] = cmds[app.active] \/ cmds'[app.active] = Append(cmds[app.active], cmd)
    <3>1. TypeOK /\ app.active \in Tabs /\ cmds' = Sent(cmds, app.active, cmd)
      BY <1>0, <1>1
    <3> QED BY <3>1, SentOne
  <2> QED BY <1>0, <1>1, <2>1
<1>2. CASE Prompt \/ OpenPicker \/ OpenTree \/ PickerRefresh
  <2>1. \E do \in {"send", "list", "tree"} :
           cmds' = Sent(cmds, app.sender, [do |-> do, from |-> app.slot.of])
    BY <1>2 DEF Prompt, OpenPicker, OpenTree, PickerRefresh
  <2>2. \A do \in {"send", "list", "tree"} :
           /\ [do |-> do, from |-> app.slot.of] \in Commands
           /\ [do |-> do, from |-> app.slot.of].from = app.active
    BY <1>0 DEF Commands
  <2>3. /\ overlay' = "picker" => picker'.list \in {NoTab, app.active}
        /\ overlay' = "tree" => tree'.of = app.active
    BY <1>2 DEF Prompt, OpenPicker, OpenTree, PickerRefresh, ui, AnswersInv
  <2>4. PICK do \in {"send", "list", "tree"} :
           cmds' = Sent(cmds, app.sender, [do |-> do, from |-> app.slot.of])
    BY <2>1
  <2> QED BY <1>1, <2>2, <2>3, <2>4
<1>3. CASE PickSession
  <2>1. /\ picker.list = app.active /\ overlay' = "none"
        /\ cmds' = Sent(cmds, app.sender, [do |-> "pick", from |-> picker.list])
    BY <1>3 DEF PickSession, AnswersInv, CloseOverlay
  <2>2. [do |-> "pick", from |-> app.active] \in Commands
    BY <1>0 DEF Commands
  <2> QED BY <1>1, <2>1, <2>2
<1>4. CASE Fork \/ DeleteBranch
  <2>1. /\ tree.of = app.active
        /\ cmds' = Sent(cmds, app.sender, [do |-> "pick", from |-> tree.of])
    BY <1>4 DEF Fork, DeleteBranch, AnswersInv
  <2>2. [do |-> "pick", from |-> app.active] \in Commands
    BY <1>0 DEF Commands
  <2>3. /\ overlay' = "picker" => picker'.list \in {NoTab, app.active}
        /\ overlay' = "tree" => tree'.of = app.active
    BY <1>4 DEF Fork, DeleteBranch, AnswersInv, CloseOverlay, ui
  <2> QED BY <1>1, <2>1, <2>2, <2>3
<1>5. CASE PickModel
  <2>1. acts + 1 \in 0..MaxActs /\ "model" \in Keys /\ cmds' = SentAll("model", acts + 1)
    BY <1>5, ActsType DEF PickModel, Keys
  <2>2. \A t \in Open : cmds'[t] = cmds[t] \/ cmds'[t] = Append(cmds[t], Setting(t, "model", acts + 1))
    BY <2>1, SentAllDoes
  <2>3. \A t \in Open : /\ Setting(t, "model", acts + 1) \in Commands
                        /\ Setting(t, "model", acts + 1).from = t
                        /\ Setting(t, "model", acts + 1).do = "set"
    BY <1>0, <2>1 DEF Setting, Commands
  <2>4. UNCHANGED <<overlay, picker, tree>>
    BY <1>5 DEF PickModel, ui
  <2> QED BY <2>2, <2>3, <2>4 DEF AnswersInv
<1>6. CASE SetCodemode
  <2>1. acts + 1 \in 0..MaxActs /\ "codemode" \in Keys
        /\ cmds' = Sent(cmds, app.sender, Setting(app.sender, "codemode", acts + 1))
    BY <1>6, ActsType DEF SetCodemode, Keys
  <2>2. /\ Setting(app.sender, "codemode", acts + 1) \in Commands
        /\ Setting(app.sender, "codemode", acts + 1).from = app.active
    BY <1>0, <2>1 DEF Setting, Commands
  <2>3. UNCHANGED <<overlay, picker, tree>>
    BY <1>6 DEF SetCodemode, ui
  <2> QED BY <1>1, <2>1, <2>2, <2>3 DEF AnswersInv
<1> QED BY <1>2, <1>3, <1>4, <1>5, <1>6 DEF Asks

HomeInv == Base /\ AnswersInv /\ CommandsAtHome

LEMMA HomeStep ==
    ASSUME "late" \notin Windows, HomeInv, [Next]_vars
    PROVE  HomeInv'
<1> USE DEF HomeInv
<1>0. Base' /\ Open \subseteq Tabs /\ app.active \in Open
  BY BaseStep, OpenTabs DEF Base
<1>1. /\ cmds \in [Tabs -> Seq(Commands)] /\ events \in [Tabs -> Seq(Stream \cup Answers)]
      /\ \A t \in Tabs : Home(cmds[t], t)
  BY DEF Base, TypeOK, CommandsAtHome, Home
<1>2. (\A t \in Tabs : Home(cmds'[t], t)) => CommandsAtHome'
  BY DEF CommandsAtHome, Home
<1>3. CASE UNCHANGED vars
  BY <1>0, <1>3 DEF vars, AnswersInv, CommandsAtHome, Answered
<1>4. CASE Asks
  <2>1. /\ Grows /\ UNCHANGED <<app, core, events, render>> /\ render = Selecting
    BY <1>4, AsksDoes
  <2>2. /\ \A t \in Open : \/ cmds'[t] = cmds[t]
                           \/ \E cmd \in Commands :
                                 /\ cmds'[t] = Append(cmds[t], cmd) /\ cmd.from = t
                                 /\ t # app.active => cmd.do \notin {"list", "tree"}
        /\ overlay' = "picker" => picker'.list \in {NoTab, app.active}
        /\ overlay' = "tree" => tree'.of = app.active
    BY <1>4, AsksHome
  <2>3. \A t \in Tabs : Home(cmds'[t], t)
    <3> SUFFICES ASSUME NEW t \in Tabs PROVE Home(cmds'[t], t)
      OBVIOUS
    <3>1. cmds'[t] = cmds[t] \/ \E cmd \in Commands : cmds'[t] = Append(cmds[t], cmd) /\ cmd.from = t
      BY <2>1, <2>2 DEF Grows
    <3>2. cmds[t] \in Seq(Commands) /\ Home(cmds[t], t)
      BY <1>1
    <3> QED BY <3>1, <3>2, QueueGets
  <2>4. \A t \in Tabs \ {app.active} : Quiet(cmds[t]) => Quiet(cmds'[t])
    <3> SUFFICES ASSUME NEW t \in Tabs \ {app.active}, Quiet(cmds[t]) PROVE Quiet(cmds'[t])
      OBVIOUS
    <3>1. \/ cmds'[t] = cmds[t]
          \/ \E cmd \in Commands : /\ cmds'[t] = Append(cmds[t], cmd)
                                   /\ cmd.do \notin {"list", "tree"}
      BY <2>1, <2>2 DEF Grows
    <3>2. cmds[t] \in Seq(Commands)
      BY <1>1
    <3> QED BY <3>1, <3>2, QueueGets
  <2>5. \A t \in Tabs \ {app.active} : Answered(t)'
    BY <2>1, <2>4 DEF AnswersInv, Answered, Quiet
  <2> QED BY <1>0, <1>2, <2>1, <2>2, <2>3, <2>5 DEF AnswersInv, Selecting
<1>5. CASE GotoTab
  <2>1. PICK t \in Open \ {app.active} : app' = SetActive(app, t)
    BY <1>5 DEF GotoTab
  <2>2. /\ Answered(app.active) /\ overlay = "none" /\ render = Selecting
        /\ UNCHANGED <<overlay, picker, tree, cmds, events, core, render>>
    BY <1>5 DEF GotoTab, Leaves, dialogs, cores
  <2>3. \A u \in Tabs : Answered(u)'
    BY <2>2 DEF AnswersInv, Answered
  <2> QED BY <1>0, <1>1, <1>2, <2>2, <2>3 DEF AnswersInv, Selecting
<1>6. CASE CloseActive
  <2>1. /\ cmds' = Sent(cmds, app.active, [do |-> "cancel", from |-> app.active])
        /\ [do |-> "cancel", from |-> app.active] \in Commands /\ app.active \in Tabs
        /\ overlay = "none" /\ render' = [at |-> "closing", tab |-> app.active]
        /\ UNCHANGED <<overlay, picker, tree, events, core>>
    BY <1>6, CloseActiveDoes DEF Base
  <2>2. Answered(app.active)
    BY <1>6 DEF CloseActive, Leaves
  <2>3. \A u \in Tabs : Answered(u) /\ Quiet(cmds[u])
    BY <2>2, Hushed DEF AnswersInv
  <2>4. /\ \A u \in Tabs \ {app.active} : cmds'[u] = cmds[u]
        /\ \/ cmds'[app.active] = cmds[app.active]
           \/ cmds'[app.active] = Append(cmds[app.active], [do |-> "cancel", from |-> app.active])
    <3>1. TypeOK
      BY DEF Base
    <3> QED BY <2>1, <3>1, SentOne
  <2>5. cmds[app.active] \in Seq(Commands) /\ Home(cmds[app.active], app.active)
    BY <1>1, <2>1
  <2>6. Home(cmds'[app.active], app.active) /\ Quiet(cmds'[app.active])
    BY <2>1, <2>3, <2>4, <2>5, QueueGets
  <2>7. \A u \in Tabs : Home(cmds'[u], u) /\ Quiet(cmds'[u])
    BY <1>1, <2>3, <2>4, <2>6
  <2>8. \A u \in Tabs : Answered(u)'
    BY <2>1, <2>3, <2>7 DEF Answered, Quiet
  <2> QED BY <1>0, <1>2, <2>1, <2>7, <2>8 DEF AnswersInv
<1>7. CASE Spawned
  <2>1. /\ render.at = "spawning" /\ app.next \in Tabs
        /\ \A u \in Tabs \ {app.next} : core'[u] = core[u]
        /\ core'[app.next].say = <<>> /\ render' = Selecting
        /\ UNCHANGED <<overlay, picker, tree, cmds, events>>
    BY <1>7, SpawnedDoes DEF Base
  <2>2. \A u \in Tabs : Answered(u)
    BY <2>1 DEF AnswersInv
  <2>3. ToSet(<<>>) = {}
    BY DEF ToSet
  <2>4. \A u \in Tabs : Answered(u)'
    BY <2>1, <2>2, <2>3 DEF Answered
  <2>5. overlay = "none"
    BY <2>1 DEF AnswersInv
  <2> QED BY <1>0, <1>1, <1>2, <2>1, <2>4, <2>5 DEF AnswersInv
<1>8. CASE Waits
  <2>1. /\ UNCHANGED <<app, cmds, events, core>>
        /\ \/ render' = render /\ render = Selecting /\ overlay' = "none"
           \/ /\ NewTab /\ render' = [at |-> "spawning", tab |-> app.next]
              /\ overlay = "none" /\ UNCHANGED <<overlay, picker, tree>>
           \/ render' = Selecting /\ UNCHANGED <<overlay, picker, tree>>
    BY <1>8, WaitsDoes DEF Base
  <2>2. \A u \in Tabs : Answered(u)' <=> Answered(u)
    BY <2>1 DEF Answered
  <2>3. NewTab => Answered(app.active)
    BY DEF NewTab, Leaves
  <2> QED BY <1>0, <1>1, <1>2, <2>1, <2>2, <2>3 DEF AnswersInv, Selecting
<1>9. ASSUME NEW t \in Tabs, CoreStep(t)
      PROVE  HomeInv'
  <2>1. /\ UNCHANGED <<app, overlay, picker, tree, render>>
        /\ \A u \in Tabs \ {t} : /\ cmds'[u] = cmds[u] /\ events'[u] = events[u]
                                 /\ core'[u] = core[u]
    BY <1>9, CoreStepDoes
  <2>2. /\ cmds'[t] = cmds[t] \/ (cmds[t] # <<>> /\ cmds'[t] = Tail(cmds[t]))
        /\ Answered(t) => Words(t)' \subseteq Words(t) \cup {"turn", "token", "reply", "saved"}
    BY <1>9, CoreWords
  <2>3. cmds[t] \in Seq(Commands) /\ Home(cmds[t], t)
    BY <1>1
  <2>4. Home(cmds'[t], t) /\ (Quiet(cmds[t]) => Quiet(cmds'[t]))
    BY <2>2, <2>3, QueueTakes
  <2>5. Answered(t) => Answered(t)'
    BY <2>2, <2>4 DEF Answered, Quiet, Words
  <2>6. \A u \in Tabs \ {t} : Answered(u) => Answered(u)'
    BY <2>1 DEF Answered
  <2> QED BY <1>0, <1>1, <1>2, <2>1, <2>4, <2>5, <2>6 DEF AnswersInv
<1>10. ASSUME NEW t \in Tabs, Read(t)
       PROVE  HomeInv'
  <2>1. PICK kinds : Reads(t, kinds)
    BY <1>10 DEF Read, ReadStream, ReadReply, ReadList, ReadTree, ReadSaved
  <2>2. /\ \A u \in Tabs \ {t} : events'[u] = events[u]
        /\ events[t] \in Seq(Stream \cup Answers) /\ events[t] # <<>>
        /\ events'[t] = Tail(events[t]) /\ render = Selecting /\ render.at = "select"
    BY <2>1, ReadsDoes
  <2>3. ToSet(events[t]) = ToSet(events'[t]) \cup {Head(events[t])}
    BY <2>2, Leads
  <2>4. core' = core /\ render' = render
    BY <1>10 DEF Read, ReadStream, ReadReply, ReadList, ReadTree, ReadSaved, ui, cores
  <2>5. app'.active = app.active
    <3>1. CASE ReadStream(t)
      <4>1. CASE t \in Open
        BY <3>1, <4>1 DEF ReadStream, Heard, Base, TypeOK, Apps
      <4>2. CASE t \notin Open
        <5>1. app' = Heard(app, t) /\ t \notin ToSet(app.strip) /\ t # app.active
          BY <1>0, <3>1, <4>2 DEF ReadStream, Open
        <5> QED BY <5>1 DEF Heard
      <4> QED BY <4>1, <4>2
    <3>2. CASE ReadSaved(t)
      BY <3>2 DEF ReadSaved, Base, TypeOK, Apps
    <3> QED BY <1>10, <3>1, <3>2 DEF Read, ReadReply, ReadList, ReadTree, ui
  <2>6. \A u \in Tabs : \/ cmds'[u] = cmds[u]
                        \/ \E cmd \in Commands : /\ cmds'[u] = Append(cmds[u], cmd) /\ cmd.from = u
                                                 /\ cmd.do = "media"
    <3>1. CASE cmds' = cmds
      BY <3>1
    <3>2. CASE t \in Open /\ cmds' = Sent(cmds, StagedSender(t), [do |-> "media", from |-> t])
      <4>1. StagedSender(t) = t
        BY <3>2, StagedSent
      <4>2. [do |-> "media", from |-> t] \in Commands
        BY DEF Commands
      <4>3. /\ \A u \in Tabs \ {t} : cmds'[u] = cmds[u]
            /\ cmds'[t] = cmds[t] \/ cmds'[t] = Append(cmds[t], [do |-> "media", from |-> t])
        <5>1. TypeOK /\ cmds' = Sent(cmds, t, [do |-> "media", from |-> t])
          BY <3>2, <4>1 DEF Base
        <5> QED BY <5>1, SentOne
      <4> QED BY <4>2, <4>3
    <3> QED BY <1>10, <3>1, <3>2 DEF Read, ReadStream, ReadReply, ReadList, ReadTree, ReadSaved, ui
  <2>7. \A u \in Tabs : Home(cmds'[u], u) /\ (Quiet(cmds[u]) => Quiet(cmds'[u]))
    <3> SUFFICES ASSUME NEW u \in Tabs
                 PROVE  Home(cmds'[u], u) /\ (Quiet(cmds[u]) => Quiet(cmds'[u]))
      OBVIOUS
    <3>1. cmds[u] \in Seq(Commands) /\ Home(cmds[u], u)
      BY <1>1
    <3> QED BY <2>6, <3>1, QueueGets
  <2>8. \A u \in Tabs : Answered(u) => Answered(u)'
    BY <2>2, <2>3, <2>4, <2>7 DEF Answered, Quiet
  <2>9. ReadList(t) \/ ReadTree(t) => t = app.active
    <3>1. ReadList(t) \/ ReadTree(t) => Head(events[t]) \in {"list", "tree"}
      BY DEF ReadList, ReadTree, Reads
    <3>2. Answered(t) => Head(events[t]) \notin {"list", "tree"}
      BY <2>3 DEF Answered
    <3> QED BY <3>1, <3>2 DEF AnswersInv
  <2>10. /\ overlay' = "picker" => picker'.list \in {NoTab, app.active}
         /\ overlay' = "tree" => tree'.of = app.active
    <3>1. CASE ReadList(t)
      BY <2>9, <3>1 DEF ReadList, AnswersInv, Base, TypeOK
    <3>2. CASE ReadTree(t)
      BY <2>9, <3>2 DEF ReadTree, AnswersInv
    <3>3. CASE ReadStream(t) \/ ReadReply(t) \/ ReadSaved(t)
      BY <3>3 DEF ReadStream, ReadReply, ReadSaved, ui, dialogs, AnswersInv
    <3> QED BY <1>10, <3>1, <3>2, <3>3 DEF Read
  <2> QED BY <1>0, <1>2, <2>2, <2>4, <2>5, <2>7, <2>8, <2>10 DEF AnswersInv
<1> QED BY <1>3, <1>4, <1>5, <1>6, <1>7, <1>8, <1>9, <1>10, Steps

\* Where a tab is left only once it was answered, every command a core is to
\* take was given on that core's own screen.
THEOREM CommandsAtHomeSafe ==
    ASSUME "late" \notin Windows
    PROVE  Spec => []CommandsAtHome
<1>1. Init => HomeInv
  <2>1. Init => AnswersInv /\ CommandsAtHome
    <3> SUFFICES ASSUME Init PROVE AnswersInv /\ CommandsAtHome
      OBVIOUS
    <3>1. TypeOK
      BY InitBase DEF Base
    <3>2. \A t \in Tabs : cmds[t] = <<>> /\ events[t] = <<>>
      BY DEF Init
    <3>3. 1 \in Tabs /\ NoCore.say = <<>>
      BY TabsAssumption DEF NoCore
    <3>4. \A t \in Tabs : core[t].say = <<>>
      <4> DEFINE cs == [t \in Tabs |-> NoCore]
                 c == [cs[1] EXCEPT !.at = "up"]
      <4>1. core = [cs EXCEPT ![1] = c]
        BY DEF Init
      <4>2. c.say = <<>>
        BY <3>3 DEF NoCore
      <4> HIDE DEF c
      <4> QED BY <3>3, <4>1, <4>2
    <3>5. ToSet(<<>>) = {}
      BY DEF ToSet
    <3>6. \A t \in Tabs : Answered(t)
      BY <3>2, <3>4, <3>5 DEF Answered
    <3> QED BY <3>2, <3>6 DEF Init, AnswersInv, CommandsAtHome, Selecting
  <2> QED BY <2>1, InitBase DEF HomeInv
<1>2. HomeInv /\ [Next]_vars => HomeInv'
  BY HomeStep
<1>3. HomeInv => CommandsAtHome
  BY DEF HomeInv
<1> QED BY <1>1, <1>2, <1>3, PTL DEF Spec

(***************************************************************************)
(* The model picked last                                                   *)
(***************************************************************************)
IsPick(cmd) == cmd.do = "set" /\ cmd.key = "model"

\* What a core takes decides what it runs on, or leaves it to what follows.
LEMMA SettlesTail ==
    ASSUME NEW q \in Seq(Commands), q # <<>>, NEW held, NEW model
    PROVE  /\ IsPick(Head(q)) /\ Settles(q, held, model) => Settles(Tail(q), Head(q).value, model)
           /\ ~IsPick(Head(q)) /\ Settles(q, held, model) => Settles(Tail(q), held, model)
           /\ Picks(q) = {} <=> Picks(Tail(q)) = {} /\ ~IsPick(Head(q))
<1> DEFINE r == Tail(q)
           h == Head(q)
<1>1. /\ DOMAIN q = 1..Len(q) /\ Len(q) \in Nat \ {0} /\ h = q[1] /\ 1 \in DOMAIN q
      /\ DOMAIN r = 1..(Len(q) - 1)
      /\ \A i \in DOMAIN r : i + 1 \in DOMAIN q /\ r[i] = q[i + 1]
      /\ \A i \in DOMAIN q : i # 1 => i - 1 \in DOMAIN r /\ r[i - 1] = q[i]
  BY Leads
<1> HIDE DEF r, h
<1>2. 1 \in Picks(q) <=> IsPick(h)
  BY <1>1 DEF Picks, IsPick
<1>3. \A i \in Picks(r) : i + 1 \in Picks(q) /\ i + 1 # 1 /\ r[i] = q[i + 1] /\ i \in Nat
  BY <1>1 DEF Picks
<1>4. \A i \in Picks(q) : i \in Nat /\ (i # 1 => i - 1 \in Picks(r) /\ r[i - 1] = q[i])
  <2> SUFFICES ASSUME NEW i \in Picks(q)
               PROVE  i \in Nat /\ (i # 1 => i - 1 \in Picks(r) /\ r[i - 1] = q[i])
    OBVIOUS
  <2>1. i \in DOMAIN q /\ IsPick(q[i])
    BY DEF Picks, IsPick
  <2>2. i # 1 => i - 1 \in DOMAIN r /\ r[i - 1] = q[i]
    BY <1>1, <2>1
  <2>3. i # 1 => i - 1 \in Picks(r)
    BY <2>1, <2>2 DEF Picks, IsPick
  <2> QED BY <1>1, <2>1, <2>2, <2>3
<1>5. Picks(q) = {} <=> Picks(r) = {} /\ ~IsPick(h)
  <2>1. ASSUME Picks(q) = {} PROVE Picks(r) = {} /\ ~IsPick(h)
    BY <1>2, <1>3, <2>1
  <2>2. ASSUME Picks(r) = {}, ~IsPick(h) PROVE Picks(q) = {}
    BY <1>2, <1>4, <2>2
  <2> QED BY <2>1, <2>2
<1>6. ASSUME NEW i \in Picks(q), i # 1, \A j \in Picks(q) : j <= i, q[i].value = model, NEW v
      PROVE  Settles(r, v, model)
  <2>1. i - 1 \in Picks(r) /\ r[i - 1].value = model
    BY <1>4, <1>6
  <2>2. \A j \in Picks(r) : j <= i - 1
    <3> SUFFICES ASSUME NEW j \in Picks(r) PROVE j <= i - 1
      OBVIOUS
    <3>1. j + 1 <= i /\ j \in Nat /\ i \in Nat
      BY <1>3, <1>4, <1>6
    <3> QED BY <3>1
  <2> QED BY <2>1, <2>2 DEF Settles
<1>7. ASSUME IsPick(h), Settles(q, held, model)
      PROVE  Settles(r, h.value, model)
  <2>0. Picks(q) # {}
    BY <1>2, <1>7
  <2>1. PICK i \in Picks(q) : (\A j \in Picks(q) : j <= i) /\ q[i].value = model
    BY <1>7, <2>0 DEF Settles
  <2>2. CASE i = 1
    <3>1. Picks(r) = {}
      <4> SUFFICES ASSUME NEW j \in Picks(r) PROVE FALSE
        OBVIOUS
      <4>1. j + 1 \in Picks(q) /\ j + 1 <= 1 /\ j \in Nat /\ j + 1 # 1
        BY <1>3, <2>1, <2>2
      <4> QED BY <4>1
    <3>2. h.value = model
      BY <1>1, <2>1, <2>2
    <3> QED BY <3>1, <3>2 DEF Settles
  <2>3. CASE i # 1
    BY <1>6, <2>1, <2>3
  <2> QED BY <2>2, <2>3
<1>8. ASSUME ~IsPick(h), Settles(q, held, model)
      PROVE  Settles(r, held, model)
  <2>1. CASE Picks(q) = {} /\ held = model
    BY <1>5, <2>1 DEF Settles
  <2>2. CASE \E i \in Picks(q) : (\A j \in Picks(q) : j <= i) /\ q[i].value = model
    <3>1. PICK i \in Picks(q) : (\A j \in Picks(q) : j <= i) /\ q[i].value = model
      BY <2>2
    <3>2. i # 1
      BY <1>2, <1>8
    <3> QED BY <1>6, <3>1, <3>2
  <2> QED BY <1>8, <2>1, <2>2 DEF Settles
<1> QED BY <1>5, <1>7, <1>8 DEF r, h

\* A pick given is the last one; anything else changes nothing.
LEMMA PicksAppend ==
    ASSUME NEW q \in Seq(Commands), NEW cmd \in Commands
    PROVE  /\ IsPick(cmd) => /\ Len(q) + 1 \in Picks(Append(q, cmd))
                             /\ Append(q, cmd)[Len(q) + 1] = cmd
                             /\ \A j \in Picks(Append(q, cmd)) : j <= Len(q) + 1
           /\ ~IsPick(cmd) => /\ Picks(Append(q, cmd)) = Picks(q)
                              /\ \A i \in Picks(q) : Append(q, cmd)[i] = q[i]
<1> DEFINE r == Append(q, cmd)
<1>1. /\ DOMAIN r = 1..(Len(q) + 1) /\ DOMAIN q = 1..Len(q) /\ Len(q) \in Nat
      /\ r[Len(q) + 1] = cmd /\ \A i \in DOMAIN q : i \in DOMAIN r /\ r[i] = q[i]
  BY Joins
<1> HIDE DEF r
<1>2. IsPick(cmd) => Len(q) + 1 \in Picks(r)
  BY <1>1 DEF Picks, IsPick
<1>3. \A j \in Picks(r) : j <= Len(q) + 1
  BY <1>1 DEF Picks
<1>4. ~IsPick(cmd) => Picks(r) = Picks(q) /\ \A i \in Picks(q) : r[i] = q[i]
  <2> SUFFICES ASSUME ~IsPick(cmd) PROVE Picks(r) = Picks(q) /\ \A i \in Picks(q) : r[i] = q[i]
    OBVIOUS
  <2>1. \A i \in Picks(r) : i \in Picks(q)
    <3> SUFFICES ASSUME NEW i \in Picks(r) PROVE i \in Picks(q)
      OBVIOUS
    <3>1. i \in DOMAIN r /\ IsPick(r[i])
      BY DEF Picks, IsPick
    <3>2. i \in DOMAIN q
      BY <1>1, <3>1
    <3> QED BY <1>1, <3>1, <3>2 DEF Picks, IsPick
  <2>2. \A i \in Picks(q) : i \in Picks(r) /\ r[i] = q[i]
    BY <1>1 DEF Picks
  <2> QED BY <2>1, <2>2
<1> QED BY <1>1, <1>2, <1>3, <1>4 DEF r

LEMMA SettlesAppend ==
    ASSUME NEW q \in Seq(Commands), NEW cmd \in Commands, NEW held, NEW model
    PROVE  /\ IsPick(cmd) /\ cmd.value = model => Settles(Append(q, cmd), held, model)
           /\ IsPick(cmd) => Picks(Append(q, cmd)) # {}
           /\ ~IsPick(cmd) /\ Settles(q, held, model) => Settles(Append(q, cmd), held, model)
<1> DEFINE r == Append(q, cmd)
<1>1. /\ IsPick(cmd) => /\ Len(q) + 1 \in Picks(r) /\ r[Len(q) + 1] = cmd
                        /\ \A j \in Picks(r) : j <= Len(q) + 1
      /\ ~IsPick(cmd) => Picks(r) = Picks(q) /\ \A i \in Picks(q) : r[i] = q[i]
  BY PicksAppend
<1> HIDE DEF r
<1>2. IsPick(cmd) /\ cmd.value = model => Settles(r, held, model)
  BY <1>1 DEF Settles
<1>3. ~IsPick(cmd) /\ Settles(q, held, model) => Settles(r, held, model)
  BY <1>1 DEF Settles
<1> QED BY <1>1, <1>2, <1>3 DEF r

LEMMA SettledModel ==
    ASSUME NEW t \in Tabs, Settles(cmds[t], prefs[t]["model"], chosen["model"]),
           cmds[t] \in Seq(Commands)
    PROVE  ModelToBe(t) = chosen["model"]
<1>1. CASE Picks(cmds[t]) = {}
  BY <1>1 DEF ModelToBe, Settles
<1>2. CASE Picks(cmds[t]) # {}
  <2> DEFINE P == Picks(cmds[t])
  <2>1. PICK i \in P : (\A j \in P : j <= i) /\ cmds[t][i].value = chosen["model"]
    BY <1>2 DEF Settles
  <2>2. P \subseteq Nat
    BY DEF Picks
  <2> HIDE DEF P
  <2>3. \A j \in P : i >= j
    BY <2>1, <2>2
  <2>4. Max(P) \in P /\ \A j \in P : Max(P) >= j
    BY <2>3 DEF Max
  <2> DEFINE m == Max(P)
  <2>5. m = i
    <3>1. m \in P /\ m >= i /\ i >= m /\ i \in P
      BY <2>1, <2>3, <2>4
    <3> HIDE DEF m
    <3>2. m \in Nat /\ i \in Nat
      BY <2>2, <3>1
    <3> QED BY <3>1, <3>2
  <2> QED BY <1>2, <2>1, <2>5 DEF ModelToBe, P
<1> QED BY <1>1, <1>2

\* What a core's step does to the models.
LEMMA CorePicks ==
    ASSUME Base, NEW t \in Tabs, CoreStep(t)
    PROVE  /\ \/ cmds'[t] = cmds[t] /\ UNCHANGED <<prefs, file>>
              \/ /\ cmds[t] # <<>> /\ cmds'[t] = Tail(cmds[t]) /\ core[t].at = "up"
                 /\ \/ Head(cmds[t]).do # "set" /\ UNCHANGED <<prefs, file>>
                    \/ /\ Head(cmds[t]).do = "set" /\ file' = prefs'[t]
                       /\ prefs' = [prefs EXCEPT ![t][Head(cmds[t]).key] = Head(cmds[t]).value]
           /\ \/ core'[t].at = core[t].at
              \/ core[t].at = "ending" /\ core'[t].at # "up"
              \/ core'[t].at # "up" /\ cmds'[t] = <<>>
<1> USE DEF Base
<1>1. /\ core[t] \in Cores /\ core \in [Tabs -> Cores]
  BY CoreType DEF TypeOK
<1>2. \A do : Takes(t, do) => /\ cmds[t] # <<>> /\ cmds'[t] = Tail(cmds[t])
                              /\ Head(cmds[t]).do = do /\ core[t].at = "up"
  BY TakesDoes
<1>3. \A e : Says(t, e) => core'[t].at = core[t].at
  BY <1>1 DEF Says, Cores
<1>4. CASE TakeSend(t)
  <2>1. Takes(t, "send") /\ UNCHANGED <<prefs, file>>
    BY <1>4 DEF TakeSend
  <2>2. core'[t].at = core[t].at
    BY <1>1, <1>4 DEF TakeSend, Cores
  <2> QED BY <1>2, <2>1, <2>2
<1>5. CASE TakeList(t) \/ TakeTree(t) \/ TakePick(t)
  <2>1. /\ \E do \in {"list", "tree", "pick", "media"} : Takes(t, do)
        /\ UNCHANGED <<prefs, file>> /\ \E e \in Answers : Says(t, e)
    BY <1>5 DEF TakeList, TakeTree, TakePick, saved, Answers
  <2> QED BY <1>2, <1>3, <2>1
<1>6. CASE TakeSet(t)
  <2>1. /\ Takes(t, "set") /\ Says(t, "saved") /\ file' = prefs'[t]
        /\ prefs' = [prefs EXCEPT ![t][Head(cmds[t]).key] = Head(cmds[t]).value]
    BY <1>6 DEF TakeSet
  <2> QED BY <1>2, <1>3, <2>1
<1>7. CASE TakeCancel(t)
  <2>1. Takes(t, "cancel") /\ UNCHANGED <<prefs, file, core>>
    BY <1>7 DEF TakeCancel, cores
  <2> QED BY <1>2, <2>1
<1>8. CASE Say(t) \/ Token(t) \/ TurnEnds(t)
  <2>1. cmds' = cmds /\ UNCHANGED <<prefs, file>> /\ core'[t].at = core[t].at
    BY <1>1, <1>8 DEF Say, Token, TurnEnds, saved, Cores
  <2> QED BY <2>1
<1>9. CASE CutAndEnd(t)
  <2>1. cmds' = cmds /\ cmds[t] = <<>> /\ UNCHANGED <<prefs, file>> /\ core'[t].at = "ending"
    BY <1>1, <1>9 DEF CutAndEnd, saved, Cores
  <2> QED BY <2>1
<1>10. CASE End(t)
  <2>1. cmds' = cmds /\ UNCHANGED <<prefs, file>> /\ core[t].at = "ending" /\ core'[t].at = "ended"
    BY <1>1, <1>10 DEF End, saved, Cores
  <2> QED BY <2>1
<1> QED BY <1>4, <1>5, <1>6, <1>7, <1>8, <1>9, <1>10 DEF CoreStep

\* What else is asked is no pick.
LEMMA AsksPicks ==
    ASSUME Base, Asks, ~PickModel
    PROVE  /\ \A t \in Open : \/ cmds'[t] = cmds[t]
                              \/ \E cmd \in Commands :
                                    cmds'[t] = Append(cmds[t], cmd) /\ ~IsPick(cmd)
           /\ chosen'["model"] = chosen["model"]
<1> USE DEF Base
<1>0. /\ app.sender = app.active /\ app.slot.of \in Tabs /\ Open \subseteq Tabs
      /\ app.active \in Open /\ NoTab \notin Tabs /\ chosen \in Prefs
  BY OpenTabs, NoScreenApart DEF TypeOK
<1>1. ASSUME NEW cmd \in Commands, cmds' = Sent(cmds, app.sender, cmd), ~IsPick(cmd)
      PROVE  \A t \in Open : \/ cmds'[t] = cmds[t]
                             \/ \E c \in Commands : cmds'[t] = Append(cmds[t], c) /\ ~IsPick(c)
  <2>0. TypeOK /\ app.active \in Tabs /\ cmds' = Sent(cmds, app.active, cmd)
    BY <1>0, <1>1
  <2>1. /\ \A u \in Tabs \ {app.active} : cmds'[u] = cmds[u]
        /\ cmds'[app.active] = cmds[app.active] \/ cmds'[app.active] = Append(cmds[app.active], cmd)
    BY <2>0, SentOne
  <2> QED BY <1>0, <1>1, <2>1
<1>2. CASE SetCodemode
  <2>1. acts + 1 \in 0..MaxActs /\ "codemode" \in Keys
        /\ cmds' = Sent(cmds, app.sender, Setting(app.sender, "codemode", acts + 1))
    BY <1>2, ActsType DEF SetCodemode, Keys
  <2>2. /\ Setting(app.sender, "codemode", acts + 1) \in Commands
        /\ ~IsPick(Setting(app.sender, "codemode", acts + 1))
    BY <1>0, <2>1 DEF Setting, Commands, IsPick
  <2>3. chosen'["model"] = chosen["model"]
    BY <1>0, <1>2 DEF SetCodemode, Prefs, Keys
  <2> QED BY <1>1, <2>1, <2>2, <2>3
<1>3. CASE ~SetCodemode
  <2>1. \E do \in {"send", "list", "tree", "pick"}, f \in {app.slot.of, picker.list, tree.of} :
           /\ f \in Tabs /\ cmds' = Sent(cmds, app.sender, [do |-> do, from |-> f])
    <3>1. CASE Prompt \/ OpenPicker \/ OpenTree \/ PickerRefresh
      BY <1>0, <3>1 DEF Prompt, OpenPicker, OpenTree, PickerRefresh
    <3>2. CASE PickSession
      <4>1. picker.list \in Tabs
        BY <3>2 DEF PickSession, TypeOK
      <4> QED BY <3>2, <4>1 DEF PickSession
    <3>3. CASE Fork \/ DeleteBranch
      <4>1. tree.of \in Tabs
        BY <3>3 DEF Fork, DeleteBranch, StripInv
      <4> QED BY <3>3, <4>1 DEF Fork, DeleteBranch
    <3> QED BY <1>3, <3>1, <3>2, <3>3 DEF Asks
  <2>2. PICK do \in {"send", "list", "tree", "pick"}, f \in Tabs :
           cmds' = Sent(cmds, app.sender, [do |-> do, from |-> f])
    BY <2>1
  <2>3. [do |-> do, from |-> f] \in Commands /\ ~IsPick([do |-> do, from |-> f])
    BY <2>2 DEF Commands, IsPick
  <2>4. chosen' = chosen
    BY <1>3 DEF Asks, Prompt, OpenPicker, OpenTree, PickSession, Fork, DeleteBranch, PickerRefresh
  <2> QED BY <1>1, <2>2, <2>3, <2>4
<1> QED BY <1>2, <1>3

ModelsInv == Base /\ PicksInv

LEMMA HeldTabs ==
    ASSUME Base
    PROVE  /\ Open \subseteq Held /\ Held \subseteq Tabs
           /\ render.at # "closing" => Held = Open
           /\ render.at = "closing" => Held = Open \cup {render.tab}
BY OpenTabs DEF Held, Base, StripInv

LEMMA PicksTypes ==
    ASSUME Base
    PROVE  /\ cmds \in [Tabs -> Seq(Commands)] /\ prefs \in [Tabs -> Prefs]
           /\ "model" \in Keys /\ "codemode" \in Keys
BY DEF Base, TypeOK, Keys

\* A step that gives no core a pick, and leaves the cores, what they run on
\* and the file alone.
LEMMA PicksFrame ==
    ASSUME ModelsInv, Base',
           \A t \in Tabs : \/ cmds'[t] = cmds[t]
                           \/ \E cmd \in Commands : cmds'[t] = Append(cmds[t], cmd) /\ ~IsPick(cmd),
           core' = core, prefs' = prefs, file' = file, chosen'["model"] = chosen["model"],
           Held' = Held,
           render'.at = "spawning" => \A t \in Tabs : Picks(cmds[t]) = {}
    PROVE  PicksInv'
<1>1. \A t \in Tabs : Picks(cmds'[t]) = {} <=> Picks(cmds[t]) = {}
  <2> SUFFICES ASSUME NEW t \in Tabs PROVE Picks(cmds'[t]) = {} <=> Picks(cmds[t]) = {}
    OBVIOUS
  <2>1. cmds[t] \in Seq(Commands)
    BY PicksTypes DEF ModelsInv
  <2>2. CASE cmds'[t] = cmds[t]
    BY <2>2
  <2>3. CASE \E cmd \in Commands : cmds'[t] = Append(cmds[t], cmd) /\ ~IsPick(cmd)
    <3>1. PICK cmd \in Commands : cmds'[t] = Append(cmds[t], cmd) /\ ~IsPick(cmd)
      BY <2>3
    <3>2. Picks(Append(cmds[t], cmd)) = Picks(cmds[t])
      BY <2>1, <3>1, PicksAppend
    <3> QED BY <3>1, <3>2
  <2> QED BY <2>2, <2>3
<1>2. \A t \in Held : Settles(cmds'[t], prefs[t]["model"], chosen["model"])
  <2> SUFFICES ASSUME NEW t \in Held PROVE Settles(cmds'[t], prefs[t]["model"], chosen["model"])
    OBVIOUS
  <2>1. t \in Tabs /\ Settles(cmds[t], prefs[t]["model"], chosen["model"])
    BY HeldTabs DEF ModelsInv, PicksInv
  <2>2. cmds[t] \in Seq(Commands)
    BY <2>1, PicksTypes DEF ModelsInv
  <2>3. CASE cmds'[t] = cmds[t]
    BY <2>1, <2>3
  <2>4. CASE \E cmd \in Commands : cmds'[t] = Append(cmds[t], cmd) /\ ~IsPick(cmd)
    BY <2>1, <2>2, <2>4, SettlesAppend
  <2> QED BY <2>1, <2>3, <2>4
<1> QED BY <1>1, <1>2 DEF ModelsInv, PicksInv

LEMMA CorePicksKept ==
    ASSUME ModelsInv, NEW t \in Tabs, CoreStep(t)
    PROVE  PicksInv'
<1> USE DEF ModelsInv
<1>1. /\ UNCHANGED <<app, render, chosen>>
      /\ \A u \in Tabs \ {t} : cmds'[u] = cmds[u] /\ core'[u] = core[u]
  BY CoreStepDoes
<1>2. /\ \/ cmds'[t] = cmds[t] /\ UNCHANGED <<prefs, file>>
         \/ /\ cmds[t] # <<>> /\ cmds'[t] = Tail(cmds[t]) /\ core[t].at = "up"
            /\ \/ Head(cmds[t]).do # "set" /\ UNCHANGED <<prefs, file>>
               \/ /\ Head(cmds[t]).do = "set" /\ file' = prefs'[t]
                  /\ prefs' = [prefs EXCEPT ![t][Head(cmds[t]).key] = Head(cmds[t]).value]
      /\ \/ core'[t].at = core[t].at
         \/ core[t].at = "ending" /\ core'[t].at # "up"
         \/ core'[t].at # "up" /\ cmds'[t] = <<>>
  BY CorePicks
<1>3. Held' = Held /\ Held \subseteq Tabs
  BY <1>1, HeldTabs DEF Held, Open
<1>4. cmds[t] \in Seq(Commands) /\ prefs \in [Tabs -> Prefs] /\ "model" \in Keys
  BY PicksTypes
<1>5. Picks(<<>>) = {}
  BY DEF Picks
<1>6. cmds'[t] = Tail(cmds[t]) /\ cmds[t] # <<>> /\ Picks(cmds[t]) = {}
         => Picks(cmds'[t]) = {} /\ ~IsPick(Head(cmds[t]))
  BY <1>4, SettlesTail
<1>7. \A u \in Tabs : core'[u].at # "up" \/ render'.at = "spawning" => Picks(cmds'[u]) = {}
  <2>1. core'[t].at # "up" \/ render.at = "spawning" => Picks(cmds'[t]) = {}
    BY <1>2, <1>5, <1>6 DEF PicksInv
  <2> QED BY <1>1, <2>1 DEF PicksInv
<1>8. \A u \in Tabs \ Held' : core'[u].at # "up"
  BY <1>1, <1>2, <1>3 DEF PicksInv
<1>9. CASE ~(core[t].at = "up" /\ cmds[t] # <<>> /\ cmds'[t] = Tail(cmds[t]) /\ Head(cmds[t]).do = "set")
  <2>1. prefs' = prefs /\ file' = file
    BY <1>2, <1>9
  <2>2. ~IsPick(Head(cmds[t])) \/ cmds'[t] = cmds[t]
    BY <1>2, <1>9 DEF IsPick
  <2>3. t \in Held => Settles(cmds'[t], prefs[t]["model"], chosen["model"])
    <3> SUFFICES ASSUME t \in Held PROVE Settles(cmds'[t], prefs[t]["model"], chosen["model"])
      OBVIOUS
    <3>1. Settles(cmds[t], prefs[t]["model"], chosen["model"])
      BY DEF PicksInv
    <3>2. CASE cmds'[t] = cmds[t]
      BY <3>1, <3>2
    <3>3. CASE cmds[t] # <<>> /\ cmds'[t] = Tail(cmds[t]) /\ ~IsPick(Head(cmds[t]))
      BY <1>4, <3>1, <3>3, SettlesTail
    <3> QED BY <1>2, <2>2, <3>2, <3>3
  <2>4. \A u \in Held : Settles(cmds'[u], prefs[u]["model"], chosen["model"])
    BY <1>1, <1>3, <2>3 DEF PicksInv
  <2>5. Picks(cmds'[t]) = {} => Picks(cmds[t]) = {}
    <3>1. CASE cmds'[t] = cmds[t]
      BY <3>1
    <3>2. CASE cmds[t] # <<>> /\ cmds'[t] = Tail(cmds[t]) /\ ~IsPick(Head(cmds[t]))
      BY <1>4, <3>2, SettlesTail
    <3> QED BY <1>2, <2>2, <3>1, <3>2
  <2>6. (\A u \in Tabs : Picks(cmds'[u]) = {}) => file["model"] = chosen["model"]
    BY <1>1, <2>5 DEF PicksInv
  <2> QED BY <1>1, <1>3, <1>7, <1>8, <2>1, <2>4, <2>6 DEF PicksInv
<1>10. CASE core[t].at = "up" /\ cmds[t] # <<>> /\ cmds'[t] = Tail(cmds[t]) /\ Head(cmds[t]).do = "set"
  <2> DEFINE h == Head(cmds[t])
             p == [prefs[t] EXCEPT ![h.key] = h.value]
  <2>1. t \in Held
    BY <1>10 DEF PicksInv
  <2>2. h \in Commands /\ h.do = "set" /\ h.key \in Keys
    <3>1. h \in Commands
      BY <1>4, <1>10, Leads
    <3> QED BY <1>10, <3>1 DEF Commands
  <2>3. CASE cmds'[t] = cmds[t] /\ UNCHANGED <<prefs, file>>
    <3>1. Len(Tail(cmds[t])) = Len(cmds[t]) - 1 /\ Len(cmds[t]) \in Nat
      BY <1>4, <1>10, Leads
    <3>2. Tail(cmds[t]) # cmds[t]
      <4> SUFFICES ASSUME Tail(cmds[t]) = cmds[t] PROVE FALSE
        OBVIOUS
      <4> DEFINE n == Len(cmds[t])
      <4>1. n = n - 1 /\ n \in Nat
        BY <3>1
      <4> HIDE DEF n
      <4> QED BY <4>1
    <3> QED BY <1>10, <2>3, <3>2
  <2>4. CASE ~(cmds'[t] = cmds[t] /\ UNCHANGED <<prefs, file>>)
    <3>1. prefs' = [prefs EXCEPT ![t] = p] /\ file' = prefs'[t]
      BY <1>2, <1>10, <2>4
    <3>2. IsPick(h) => p["model"] = h.value
      BY <1>4 DEF IsPick, Prefs
    <3>3. ~IsPick(h) => p["model"] = prefs[t]["model"]
      BY <1>4, <2>2 DEF IsPick, Prefs
    <3> HIDE DEF p
    <3>4. prefs'[t] = p /\ \A u \in Tabs \ {t} : prefs'[u] = prefs[u]
      BY <1>4, <3>1
    <3>5. Settles(cmds'[t], prefs'[t]["model"], chosen["model"])
      <4>0. Settles(cmds[t], prefs[t]["model"], chosen["model"])
        BY <2>1 DEF PicksInv
      <4>1. /\ IsPick(h) => Settles(Tail(cmds[t]), h.value, chosen["model"])
            /\ ~IsPick(h) => Settles(Tail(cmds[t]), prefs[t]["model"], chosen["model"])
        BY <1>4, <1>10, <4>0, SettlesTail
      <4> QED BY <1>10, <3>2, <3>3, <3>4, <4>1
    <3>6. \A u \in Held : Settles(cmds'[u], prefs'[u]["model"], chosen["model"])
      BY <1>1, <1>3, <3>4, <3>5 DEF PicksInv
    <3>7. Picks(cmds'[t]) = {} => file'["model"] = chosen["model"]
      BY <3>1, <3>5 DEF Settles
    <3> QED BY <1>1, <1>3, <1>7, <1>8, <3>6, <3>7 DEF PicksInv
  <2> QED BY <2>3, <2>4
<1> QED BY <1>9, <1>10

LEMMA AsksPicksKept ==
    ASSUME "flood" \notin Windows, ModelsInv, Asks
    PROVE  PicksInv'
<1> USE DEF ModelsInv
<1>1. /\ Grows /\ UNCHANGED <<app, core, prefs, file, render>> /\ render = Selecting
      /\ Base'
  BY AsksDoes, AsksKept
<1>2. Held' = Held /\ Held = Open /\ Open \subseteq Tabs /\ app.active \in Open
  BY <1>1, HeldTabs, OpenTabs DEF Held, Open, Selecting, Base
<1>3. render'.at = "select"
  BY <1>1 DEF Selecting
<1>4. CASE PickModel
  <2> DEFINE v == acts + 1
  <2>1. /\ v \in 0..MaxActs /\ "model" \in Keys /\ cmds' = SentAll("model", v)
        /\ chosen' = [chosen EXCEPT !["model"] = v] /\ ~Flooded
    BY <1>4, ActsType DEF PickModel, Keys, Base
  <2>2. \A t \in Open : Room(t)
    BY <2>1 DEF Flooded
  <2> HIDE DEF v
  <2>3. \A t \in Open : cmds'[t] = Append(cmds[t], Setting(t, "model", v))
    BY <2>1, <2>2, SentAllDoes DEF Base
  <2>4. chosen'["model"] = v
    BY <2>1 DEF Base, TypeOK, Prefs
  <2>5. \A t \in Open : /\ Settles(cmds'[t], prefs[t]["model"], v)
                        /\ Picks(cmds'[t]) # {}
    <3> SUFFICES ASSUME NEW t \in Open
                 PROVE  Settles(cmds'[t], prefs[t]["model"], v) /\ Picks(cmds'[t]) # {}
      OBVIOUS
    <3>1. /\ Setting(t, "model", v) \in Commands /\ IsPick(Setting(t, "model", v))
          /\ Setting(t, "model", v).value = v
      BY <1>2, <2>1 DEF Setting, Commands, IsPick
    <3>2. cmds[t] \in Seq(Commands) /\ cmds'[t] = Append(cmds[t], Setting(t, "model", v))
      BY <1>2, <2>3, PicksTypes
    <3> QED BY <3>1, <3>2, SettlesAppend
  <2>6. \A t \in Tabs \ Open : cmds'[t] = cmds[t]
    BY <1>1 DEF Grows
  <2>7. \A t \in Open : core[t].at = "up"
    BY DEF Base, StripInv
  <2> QED BY <1>1, <1>2, <1>3, <2>4, <2>5, <2>6, <2>7 DEF PicksInv
<1>5. CASE ~PickModel
  <2>1. /\ \A t \in Open : \/ cmds'[t] = cmds[t]
                           \/ \E cmd \in Commands :
                                 cmds'[t] = Append(cmds[t], cmd) /\ ~IsPick(cmd)
        /\ chosen'["model"] = chosen["model"]
    BY <1>5, AsksPicks
  <2>2. \A t \in Tabs : \/ cmds'[t] = cmds[t]
                        \/ \E cmd \in Commands : cmds'[t] = Append(cmds[t], cmd) /\ ~IsPick(cmd)
    BY <1>1, <2>1 DEF Grows
  <2> QED BY <1>1, <1>2, <1>3, <2>1, <2>2, PicksFrame
<1> QED BY <1>4, <1>5

LEMMA SpawnedPicks ==
    ASSUME ModelsInv, Spawned
    PROVE  PicksInv'
<1> USE DEF ModelsInv
<1> DEFINE t == app.next
<1>1. /\ render.at = "spawning" /\ t \in Tabs /\ t \notin Open
      /\ Open' = Open \cup {t} /\ prefs' = [prefs EXCEPT ![t] = file]
      /\ \A u \in Tabs \ {t} : core'[u] = core[u]
      /\ core'[t].at = "up" /\ render' = Selecting /\ UNCHANGED <<cmds, file, chosen>>
  BY SpawnedDoes
<1>2. Held = Open /\ Held' = Open \cup {t} /\ Open \subseteq Tabs
  BY <1>1, HeldTabs DEF Held, Selecting
<1>3. \A u \in Tabs : Picks(cmds[u]) = {}
  BY <1>1 DEF PicksInv
<1>4. file["model"] = chosen["model"]
  BY <1>3 DEF PicksInv
<1>5. prefs'[t] = file /\ \A u \in Tabs \ {t} : prefs'[u] = prefs[u]
  BY <1>1, PicksTypes
<1>6. \A u \in Open : prefs[u]["model"] = chosen["model"]
  BY <1>2, <1>3 DEF PicksInv, Settles
<1>7. \A u \in Held' : Settles(cmds'[u], prefs'[u]["model"], chosen'["model"])
  BY <1>1, <1>2, <1>3, <1>4, <1>5, <1>6 DEF Settles
<1>8. \A u \in Tabs \ Held' : core'[u].at # "up"
  BY <1>1, <1>2 DEF PicksInv
<1> QED BY <1>1, <1>3, <1>4, <1>7, <1>8 DEF PicksInv

LEMMA ModelsStep ==
    ASSUME "spawn" \notin Windows, "flood" \notin Windows, ModelsInv, [Next]_vars
    PROVE  ModelsInv'
<1> USE DEF ModelsInv
<1>0. Base'
  BY BaseStep
<1>1. CASE UNCHANGED vars
  BY <1>0, <1>1 DEF vars, PicksInv, Held, Open
<1>2. CASE GotoTab
  <2>1. PICK t \in Open \ {app.active} : app' = SetActive(app, t)
    BY <1>2 DEF GotoTab
  <2>2. app \in Apps /\ Staged(app)
    BY DEF Base, TypeOK, StripInv
  <2>3. Open' = Open
    BY <2>1, <2>2, SetActiveDoes DEF Open
  <2>4. UNCHANGED <<cmds, core, prefs, file, render, chosen>> /\ render = Selecting
    BY <1>2, LeavesIdle DEF GotoTab, cores
  <2>5. Held' = Held
    BY <2>3, <2>4 DEF Held
  <2> QED BY <1>0, <2>4, <2>5, PicksFrame DEF Selecting
<1>3. CASE CloseActive
  <2> DEFINE cmd == [do |-> "cancel", from |-> app.active]
  <2>1. /\ Open' = Open \ {app.active} /\ app.active \in Tabs
        /\ cmds' = Sent(cmds, app.active, cmd) /\ cmd \in Commands
        /\ render = Selecting /\ render' = [at |-> "closing", tab |-> app.active]
        /\ UNCHANGED <<core, prefs, file, chosen>>
    BY <1>3, CloseActiveDoes
  <2>2. Held = Open /\ Held' = Open /\ app.active \in Open
    BY <2>1, HeldTabs, OpenTabs DEF Held, Selecting, Base
  <2>3. ~IsPick(cmd)
    BY DEF IsPick
  <2> HIDE DEF cmd
  <2>4. TypeOK
    BY DEF Base
  <2>5. /\ \A u \in Tabs \ {app.active} : cmds'[u] = cmds[u]
        /\ cmds'[app.active] = cmds[app.active] \/ cmds'[app.active] = Append(cmds[app.active], cmd)
    BY <2>1, <2>4, SentOne
  <2>6. \A u \in Tabs : \/ cmds'[u] = cmds[u]
                        \/ \E c \in Commands : cmds'[u] = Append(cmds[u], c) /\ ~IsPick(c)
    BY <2>1, <2>3, <2>5
  <2> QED BY <1>0, <2>1, <2>2, <2>6, PicksFrame
<1>4. CASE Waits
  <2>1. /\ UNCHANGED <<app, cmds, core, prefs, file, chosen>>
        /\ \/ render' = render /\ render = Selecting
           \/ /\ NewTab /\ render' = [at |-> "spawning", tab |-> app.next] /\ render = Selecting
           \/ render' = Selecting /\ (SpawnFails \/ Joined)
    BY <1>4, WaitsDoes
  <2>2. Open' = Open
    BY <2>1 DEF Open
  <2>3. CASE Held' = Held
    <3>1. render'.at = "spawning" => \A t \in Tabs : Picks(cmds[t]) = {}
      <4> SUFFICES ASSUME render'.at = "spawning", NEW t \in Tabs PROVE Picks(cmds[t]) = {}
        OBVIOUS
      <4>1. NewTab /\ render = Selecting
        BY <2>1 DEF Selecting
      <4>2. ~Picking
        BY <4>1 DEF NewTab
      <4>3. Held = Open
        BY <4>1, HeldTabs DEF Selecting
      <4> QED BY <4>2, <4>3 DEF Picking, PicksInv
    <3> QED BY <1>0, <2>1, <2>3, <3>1, PicksFrame
  <2>4. CASE Held' # Held
    <3>1. Joined /\ render' = Selecting
      BY <2>1, <2>2, <2>4 DEF Held, SpawnFails, Selecting
    <3>2. /\ render.at = "closing" /\ core[render.tab].at = "ended"
          /\ Held = Open \cup {render.tab} /\ Held' = Open
      BY <2>2, <3>1, HeldTabs DEF Joined, Held, Selecting
    <3>3. \A u \in Tabs \ Open : core[u].at # "up"
      BY <3>2 DEF PicksInv
    <3> QED BY <1>0, <2>1, <3>1, <3>2, <3>3 DEF PicksInv, Selecting
  <2> QED BY <2>3, <2>4
<1>5. ASSUME NEW t \in Tabs, Read(t)
      PROVE  ModelsInv'
  <2>1. PICK kinds : Reads(t, kinds)
    BY <1>5 DEF Read, ReadStream, ReadReply, ReadList, ReadTree, ReadSaved
  <2>2. render = Selecting
    BY <2>1, ReadsDoes
  <2>3. UNCHANGED <<core, prefs, file, render, chosen>>
    BY <1>5 DEF Read, ReadStream, ReadReply, ReadList, ReadTree, ReadSaved, ui, cores
  <2>4. Open' = Open
    <3>0. app \in Apps /\ Staged(app)
      BY DEF Base, TypeOK, StripInv
    <3>1. CASE ReadStream(t)
      <4>1. app' = Heard(app, t)
        BY <3>1 DEF ReadStream
      <4>2. CASE t \in Open
        BY <3>0, <4>1, <4>2 DEF Heard, Open, Apps
      <4>3. CASE t \notin Open
        <5>1. t \notin ToSet(app.strip) /\ t # app.active
          BY <3>0, <4>3 DEF Open, Staged
        <5> QED BY <4>1, <5>1 DEF Heard, Open
      <4> QED BY <4>2, <4>3
    <3>2. CASE ReadSaved(t)
      BY <3>0, <3>2 DEF ReadSaved, Apps, Open
    <3>3. CASE app' = app
      BY <3>3 DEF Open
    <3> QED BY <1>5, <3>1, <3>2, <3>3 DEF Read, ReadReply, ReadList, ReadTree, ui
  <2>5. Held' = Held
    BY <2>3, <2>4 DEF Held
  <2>6. \A u \in Tabs : \/ cmds'[u] = cmds[u]
                        \/ \E c \in Commands : cmds'[u] = Append(cmds[u], c) /\ ~IsPick(c)
    <3> DEFINE cmd == [do |-> "media", from |-> t]
    <3>1. CASE cmds' = cmds
      BY <3>1
    <3>2. CASE t \in Open /\ cmds' = Sent(cmds, StagedSender(t), cmd)
      <4>1. StagedSender(t) = t
        BY <3>2, StagedSent
      <4>2. cmd \in Commands /\ ~IsPick(cmd)
        BY DEF Commands, IsPick
      <4> HIDE DEF cmd
      <4>3. TypeOK /\ cmds' = Sent(cmds, t, cmd)
        BY <3>2, <4>1 DEF Base
      <4>4. /\ \A u \in Tabs \ {t} : cmds'[u] = cmds[u]
            /\ cmds'[t] = cmds[t] \/ cmds'[t] = Append(cmds[t], cmd)
        BY <4>3, SentOne
      <4> QED BY <4>2, <4>4
    <3> QED BY <1>5, <3>1, <3>2 DEF Read, ReadStream, ReadReply, ReadList, ReadTree, ReadSaved, ui
  <2> QED BY <1>0, <2>2, <2>3, <2>5, <2>6, PicksFrame DEF Selecting
<1> QED BY <1>0, <1>1, <1>2, <1>3, <1>4, <1>5, AsksPicksKept, SpawnedPicks, CorePicksKept, Steps

\* Where no tab is opened and no model picked while a pick is on its way or a
\* channel full, every open tab's core ends on the model picked last, and so
\* does the file.
THEOREM PicksReachAllSafe ==
    ASSUME "spawn" \notin Windows, "flood" \notin Windows
    PROVE  Spec => []PicksReachAll
<1>1. Init => ModelsInv
  <2> SUFFICES ASSUME Init PROVE PicksInv
    BY InitBase DEF ModelsInv
  <2>0. Base /\ 1 \in Tabs
    BY InitBase, TabsAssumption
  <2>1. /\ \A t \in Tabs : cmds[t] = <<>> /\ prefs[t] = Unset
        /\ file = Unset /\ chosen = Unset
    BY DEF Init
  <2>2. Picks(<<>>) = {}
    BY DEF Picks
  <2>3. \A t \in Tabs : Settles(cmds[t], prefs[t]["model"], chosen["model"])
    BY <2>1, <2>2 DEF Settles
  <2>4. Open = {1}
    BY <2>0 DEF Init, Open, ToSet
  <2>5. Held = {1}
    BY <2>4 DEF Init, Held, Selecting
  <2>6. \A t \in Tabs \ {1} : core[t].at # "up"
    <3> DEFINE cs == [t \in Tabs |-> NoCore]
               c == [cs[1] EXCEPT !.at = "up"]
    <3>1. core = [cs EXCEPT ![1] = c]
      BY DEF Init
    <3> HIDE DEF c
    <3>2. \A t \in Tabs \ {1} : core[t] = NoCore
      BY <3>1
    <3> QED BY <3>2 DEF NoCore
  <2> QED BY <2>0, <2>1, <2>2, <2>3, <2>5, <2>6 DEF PicksInv
<1>2. ModelsInv /\ [Next]_vars => ModelsInv'
  BY ModelsStep
<1>3. ModelsInv => PicksReachAll
  <2> SUFFICES ASSUME ModelsInv PROVE PicksReachAll
    OBVIOUS
  <2>1. Open \subseteq Held /\ Held \subseteq Tabs /\ (render.at # "closing" => Held = Open)
    BY HeldTabs DEF ModelsInv
  <2>2. \A t \in Open : ModelToBe(t) = chosen["model"]
    <3> SUFFICES ASSUME NEW t \in Open PROVE ModelToBe(t) = chosen["model"]
      OBVIOUS
    <3>1. /\ t \in Tabs /\ cmds[t] \in Seq(Commands)
          /\ Settles(cmds[t], prefs[t]["model"], chosen["model"])
      BY <2>1, PicksTypes DEF ModelsInv, PicksInv
    <3> QED BY <3>1, SettledModel
  <2>3. ~Picking /\ render.at # "closing" => file["model"] = chosen["model"]
    BY <2>1 DEF Picking, ModelsInv, PicksInv
  <2> QED BY <2>2, <2>3 DEF PicksReachAll
<1> QED BY <1>1, <1>2, <1>3, PTL DEF Spec
=============================================================================
