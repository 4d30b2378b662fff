------------------------ MODULE SessionTree_proofs ------------------------
(* What holds of the tree for any number of messages and any number of      *)
(* writes that fail, in any operation, but for two: the deletion of one row *)
(* of a branch, and the reload behind a branch delete.  The tree is sound;  *)
(* from that every path is one, and what is said of paths follows: memory   *)
(* is the stored path, the path only grows, a reply is under its prompt,    *)
(* the newest summary stands for what is before it.                         *)
EXTENDS SessionTree, TLAPS, FiniteSetTheorems, WellFoundedInduction

(***************************************************************************)
(* The inductive invariant                                                 *)
(***************************************************************************)
\* Rows are numbered as they come.
Numbered ==
    /\ next \in 1..MaxId + 1 /\ live \subseteq 1..next - 1
    /\ parent \in [Ids -> 0..MaxId]

\* A row or none: what a leaf, a parent or a base must be.
Stored == live \cup {0}

Rooted == \A m \in live : parent[m] \in Stored

\* Every set of rows has one that hangs from none of them.
Acyclic == \A s \in SUBSET live : s # {} => \E m \in s : parent[m] \notin s

\* What is kept of a row outside the table is a row: the leaf as it is
\* stored, the one in memory, and the parent a commit has read.
Anchored ==
    /\ leaf \in Stored \cup {Unset} /\ mleaf \in Stored
    /\ pc = "commit" => base \in Stored

TableSound == Numbered /\ Rooted /\ Acyclic
IInv == TableSound /\ Anchored

(***************************************************************************)
(* Reading the tree                                                        *)
(***************************************************************************)
\* A set of numbers below a bound has a greatest one.
LEMMA GreatestIsIn ==
    ASSUME NEW n \in Nat, NEW S \in SUBSET (0..n), S # {}
    PROVE  Max(S) \in S
<1> DEFINE Bounds == {k \in Nat : \A x \in S : x <= k}
<1>1. n \in Bounds
  OBVIOUS
<1>2. PICK k \in Bounds : \A j \in Bounds : ~(<<j, k>> \in OpToRel(<, Nat))
  <2> HIDE DEF Bounds
  <2>1. Bounds \subseteq Nat /\ Bounds # {}
    BY <1>1 DEF Bounds
  <2> QED BY <2>1, NatLessThanWellFounded, WFMin
<1>3. \A j \in Bounds : ~(j < k)
  BY <1>2 DEF OpToRel
<1>4. k \in S
  <2> SUFFICES ASSUME k \notin S PROVE FALSE
    OBVIOUS
  <2>1. \A x \in S : x <= k - 1
    OBVIOUS
  <2>2. k - 1 \in Nat
    <3>1. PICK x \in S : x <= k - 1
      BY <2>1
    <3> QED BY <3>1
  <2>3. k - 1 \in Bounds
    BY <2>1, <2>2
  <2> QED BY <2>3, <1>3
<1> QED BY <1>4 DEF Max

\* Where the active path ends is a row, if it ends anywhere.
LEMMA TipIsStored == ASSUME Numbered PROVE Tip \in Stored
<1>1. live \subseteq 0..MaxId
  BY SessionTreeAssumption DEF Numbered
<1>2. ASSUME live # {} PROVE Max(live) \in live
  BY <1>1, <1>2, GreatestIsIn, SessionTreeAssumption
<1> QED BY <1>2 DEF Tip, Stored

\* So is its last prompt.
LEMMA LastUserIsStored == LastUser(ActivePath) \in Stored
<1> DEFINE p == ActivePath
           at == {i \in DOMAIN p : p[i] \in live /\ role[p[i]] = "user"}
<1>1. PICK n \in Nat : DOMAIN p = 1..n
  <2> DEFINE S(up) == {k \in 0..MaxId : up[k] # 0}
  <2>1. \A up : Cardinality(S(up)) \in Nat
    <3> TAKE up
    <3> HIDE DEF S
    <3>1. S(up) \in SUBSET (0..MaxId)
      BY DEF S
    <3>2. IsFiniteSet(0..MaxId)
      BY FS_Interval, SessionTreeAssumption
    <3> QED BY <3>1, <3>2, FS_Subset, FS_CardinalityType
  <2> QED BY <2>1 DEF ActivePath, PathTo
<1>2. LastPlace(p, "user") = IF at = {} THEN 0 ELSE Max(at)
  BY DEF LastPlace
<1>3. ASSUME at # {} PROVE Max(at) \in at
  <2> HIDE DEF p
  <2>1. at \in SUBSET (0..n)
    BY <1>1
  <2> HIDE DEF at
  <2> QED BY <1>3, <2>1, GreatestIsIn
<1>4. ASSUME at # {} PROVE Max(at) # 0
  <2> HIDE DEF p
  <2> QED BY <1>1, <1>3, <1>4
<1>5. LastUser(p) = IF LastPlace(p, "user") = 0 THEN 0 ELSE p[LastPlace(p, "user")]
  BY DEF LastUser
<1>6. LastUser(p) \in live \cup {0}
  <2> HIDE DEF p
  <2> QED BY <1>2, <1>3, <1>4, <1>5
<1> QED BY <1>6 DEF Stored

(***************************************************************************)
(* Following a path                                                        *)
(***************************************************************************)
\* A set of natural numbers has a least one.
LEMMA LeastIsIn ==
    ASSUME NEW S \in SUBSET Nat, S # {}
    PROVE  \E x \in S : \A y \in S : x <= y
<1>1. PICK x \in S : \A y \in S : ~(<<y, x>> \in OpToRel(<, Nat))
  BY NatLessThanWellFounded, WFMin
<1>2. \A y \in S : ~(y < x)
  BY <1>1 DEF OpToRel
<1> QED BY <1>2

\* What is looked up from m: the k-th parent of m, 0 above the last.
Climbs(f, m) == f = [k \in 0..MaxId |-> IF k = 0 THEN m ELSE Above(f[k-1])]

\* The lookup that PathTo writes as a recursive function exists.
LEMMA ClimbExists == ASSUME NEW m PROVE \E f : Climbs(f, m)
<1> DEFINE Upto(f, n) == f = [k \in 0..n |-> IF k = 0 THEN m ELSE Above(f[k-1])]
           Bad == {n \in Nat : ~ \E f : Upto(f, n)}
<1>1. Bad = {}
  <2> SUFFICES ASSUME Bad # {} PROVE FALSE
    OBVIOUS
  <2>1. PICK n \in Bad : \A y \in Bad : n <= y
    <3> HIDE DEF Bad
    <3>1. Bad \in SUBSET Nat
      BY DEF Bad
    <3> QED BY <3>1, LeastIsIn
  <2>2. CASE n = 0
    <3>1. Upto([k \in 0..n |-> m], n)
      BY <2>2
    <3> QED BY <3>1, <2>1
  <2>3. CASE n # 0
    <3>0. n \in Nat
      BY <2>1
    <3>1. n \in Nat /\ n - 1 \in Nat /\ n - 1 \notin Bad
      <4> HIDE DEF Bad
      <4> QED BY <3>0, <2>1, <2>3
    <3>2. PICK g : Upto(g, n - 1)
      BY <3>1
    <3> DEFINE f == [k \in 0..n |-> IF k = n THEN Above(g[n-1]) ELSE g[k]]
    <3>3. g = [k \in 0..n - 1 |-> IF k = 0 THEN m ELSE Above(g[k-1])]
      BY <3>2
    <3>4. ASSUME NEW k \in 0..n
          PROVE  f[k] = IF k = 0 THEN m ELSE Above(f[k-1])
      <4>1. CASE k = 0
        BY <2>3, <3>1, <3>3, <4>1
      <4>2. CASE k = n
        BY <2>3, <3>1, <4>2
      <4>3. CASE k # 0 /\ k # n
        <5>1. k \in 0..n-1 /\ k - 1 \in 0..n /\ k - 1 # n
          BY <3>1, <4>3
        <5>2. g[k] = Above(g[k-1]) /\ f[k] = g[k] /\ f[k-1] = g[k-1]
          BY <3>3, <4>3, <5>1
        <5> QED BY <4>3, <5>2
      <4> QED BY <4>1, <4>2, <4>3
    <3>5. f = [k \in 0..n |-> IF k = 0 THEN m ELSE Above(f[k-1])]
      <4>1. f = [k \in 0..n |-> f[k]]
        OBVIOUS
      <4> HIDE DEF f
      <4> QED BY <3>4, <4>1
    <3> HIDE DEF f
    <3> QED BY <2>1, <3>5
  <2> QED BY <2>2, <2>3
<1>2. PICK f : Upto(f, MaxId)
  BY <1>1, SessionTreeAssumption
<1> QED BY <1>2 DEF Climbs

LEMMA PathClimbs ==
    ASSUME NEW m
    PROVE  \E f : /\ Climbs(f, m)
                  /\ PathTo(m) = [i \in 1..Cardinality({k \in 0..MaxId : f[k] # 0}) |->
                         f[Cardinality({k \in 0..MaxId : f[k] # 0}) - i]]
<1> DEFINE f == CHOOSE g : Climbs(g, m)
<1>1. Climbs(f, m)
  BY ClimbExists
<1>2. PathTo(m) = [i \in 1..Cardinality({k \in 0..MaxId : f[k] # 0}) |->
                         f[Cardinality({k \in 0..MaxId : f[k] # 0}) - i]]
  BY DEF PathTo, Climbs
<1> QED BY <1>1, <1>2

\* The lookup ends at the first nought; so many steps is a path long.
LEMMA ClimbEnds ==
    ASSUME NEW f \in [0..MaxId -> 0..MaxId],
           \A k \in 0..MaxId : k + 1 \in 0..MaxId /\ f[k] = 0 => f[k+1] = 0
    PROVE  \E n \in 0..MaxId + 1 :
               /\ Cardinality({k \in 0..MaxId : f[k] # 0}) = n
               /\ \A k \in 0..MaxId : f[k] # 0 <=> k < n
<1> USE SessionTreeAssumption
<1> DEFINE Z == {k \in 0..MaxId : f[k] = 0}
           N == {k \in 0..MaxId : f[k] # 0}
<1>1. \E n \in 0..MaxId + 1 : \A k \in 0..MaxId : f[k] # 0 <=> k < n
  <2>1. CASE Z = {}
    <3>1. MaxId + 1 \in 0..MaxId + 1 /\ \A k \in 0..MaxId : f[k] # 0 <=> k < MaxId + 1
      BY <2>1
    <3> QED BY <3>1
  <2>2. CASE Z # {}
    <3>1. Z \in SUBSET Nat
      OBVIOUS
    <3>2. PICK z \in Z : \A y \in Z : z <= y
      <4> HIDE DEF Z
      <4> QED BY <2>2, <3>1, LeastIsIn
    <3> DEFINE W == {k \in 0..MaxId : z <= k /\ f[k] # 0}
    <3>3. W = {}
      <4> SUFFICES ASSUME W # {} PROVE FALSE
        OBVIOUS
      <4>1. W \in SUBSET Nat
        OBVIOUS
      <4>2. PICK w \in W : \A y \in W : w <= y
        <5> HIDE DEF W
        <5> QED BY <4>1, LeastIsIn
      <4>3. w # z /\ w \in 0..MaxId /\ z \in 0..MaxId /\ z <= w
        BY <3>2, <4>2
      <4>4. w - 1 \in 0..MaxId /\ z <= w - 1 /\ w - 1 \notin W
        <5>1. w - 1 \in 0..MaxId /\ z <= w - 1 /\ ~(w <= w - 1)
          BY <4>3
        <5> HIDE DEF W
        <5> QED BY <4>2, <5>1
      <4>5. f[w-1] = 0
        BY <4>4
      <4>6. f[w] = 0
        <5>1. w - 1 \in 0..MaxId /\ (w - 1) + 1 = w /\ w \in 0..MaxId
          BY <4>3, <4>4
        <5> QED BY <4>5, <5>1
      <4> QED BY <4>2, <4>6
    <3>4. z \in 0..MaxId + 1 /\ \A k \in 0..MaxId : f[k] # 0 <=> k < z
      <4>1. z \in 0..MaxId
        BY <3>2
      <4>2. ASSUME NEW k \in 0..MaxId, k < z PROVE f[k] # 0
        <5>1. k \notin Z
          <6> HIDE DEF Z
          <6> QED BY <3>2, <4>1, <4>2
        <5> QED BY <5>1
      <4>3. ASSUME NEW k \in 0..MaxId, ~(k < z) PROVE f[k] = 0
        <5>1. z <= k
          BY <4>1, <4>3
        <5>2. k \notin W
          BY <3>3
        <5> QED BY <5>1, <5>2
      <4> QED BY <4>1, <4>2, <4>3
    <3> QED BY <3>4
  <2> QED BY <2>1, <2>2
<1>2. PICK n \in 0..MaxId + 1 : \A k \in 0..MaxId : f[k] # 0 <=> k < n
  BY <1>1
<1>3. N = 0..n - 1
  BY <1>2
<1>4. Cardinality(0..n - 1) = n
  <2>1. Cardinality(0..n - 1) = IF 0 > n - 1 THEN 0 ELSE n - 1 - 0 + 1
    BY FS_Interval
  <2> QED BY <2>1
<1> QED BY <1>2, <1>3, <1>4

\* The path to m, without the recursion: f looks up one parent after another.
LEMMA PathShape ==
    ASSUME live \subseteq Ids, parent \in [Ids -> 0..MaxId], NEW m \in 0..MaxId
    PROVE  \E f \in [0..MaxId -> 0..MaxId], n \in 0..MaxId + 1 :
               /\ f[0] = m
               /\ \A k \in 0..MaxId : k # 0 => f[k] = Above(f[k-1])
               /\ \A k \in 0..MaxId : f[k] # 0 <=> k < n
               /\ PathTo(m) = [i \in 1..n |-> f[n - i]]
<1> USE SessionTreeAssumption
<1>1. PICK f : /\ Climbs(f, m)
               /\ PathTo(m) = [i \in 1..Cardinality({k \in 0..MaxId : f[k] # 0}) |->
                         f[Cardinality({k \in 0..MaxId : f[k] # 0}) - i]]
  BY PathClimbs
<1>2. \A x : Above(x) \in 0..MaxId
  <2> TAKE x
  <2>1. CASE x \in live
    BY <2>1 DEF Above
  <2>2. CASE x \notin live
    BY <2>2 DEF Above
  <2> QED BY <2>1, <2>2
<1>3. Above(0) = 0
  BY DEF Above, Ids
<1>4. f = [k \in 0..MaxId |-> IF k = 0 THEN m ELSE Above(f[k-1])]
  BY <1>1 DEF Climbs
<1>5. f \in [0..MaxId -> 0..MaxId] /\ f[0] = m
  <2>1. \A k \in 0..MaxId : f[k] = IF k = 0 THEN m ELSE Above(f[k-1])
    BY <1>4
  <2>2. f = [k \in 0..MaxId |-> f[k]]
    BY <1>4
  <2>3. \A k \in 0..MaxId : f[k] \in 0..MaxId
    BY <1>2, <2>1
  <2>4. 0 \in 0..MaxId
    OBVIOUS
  <2> QED BY <2>1, <2>2, <2>3, <2>4
<1>6. \A k \in 0..MaxId : k # 0 => f[k] = Above(f[k-1])
  BY <1>4
<1>7. ASSUME NEW k \in 0..MaxId, k + 1 \in 0..MaxId, f[k] = 0 PROVE f[k+1] = 0
  <2>1. k + 1 # 0 /\ (k + 1) - 1 = k
    OBVIOUS
  <2> QED BY <1>3, <1>6, <1>7, <2>1
<1>8. PICK n \in 0..MaxId + 1 :
         /\ Cardinality({k \in 0..MaxId : f[k] # 0}) = n
         /\ \A k \in 0..MaxId : f[k] # 0 <=> k < n
  BY <1>5, <1>7, ClimbEnds
<1>9. PathTo(m) = [i \in 1..n |-> f[n - i]]
  BY <1>1, <1>8
<1> QED BY <1>5, <1>6, <1>8, <1>9

LEMMA PathTyped ==
    ASSUME live \subseteq Ids, parent \in [Ids -> 0..MaxId], NEW m \in 0..MaxId
    PROVE  PathTo(m) \in Seq(Ids)
<1> USE SessionTreeAssumption
<1>1. PICK f \in [0..MaxId -> 0..MaxId], n \in 0..MaxId + 1 :
         /\ f[0] = m
         /\ \A k \in 0..MaxId : k # 0 => f[k] = Above(f[k-1])
         /\ \A k \in 0..MaxId : f[k] # 0 <=> k < n
         /\ PathTo(m) = [i \in 1..n |-> f[n - i]]
  BY PathShape
<1>2. \A i \in 1..n : f[n - i] \in Ids
  <2> TAKE i \in 1..n
  <2>1. n - i \in 0..MaxId /\ n - i < n
    OBVIOUS
  <2> QED BY <1>1, <2>1 DEF Ids
<1> QED BY <1>1, <1>2

\* p leads from a root to m, in a table of these rows and parents.
Chain(p, m, L, P) ==
    /\ p \in Seq(L)
    /\ m = 0 => p = <<>>
    /\ m # 0 => /\ p # <<>> /\ p[Len(p)] = m /\ P[p[1]] = 0
                /\ \A i \in DOMAIN p : i + 1 \in DOMAIN p => P[p[i+1]] = p[i]

LEMMA PathIsChain ==
    ASSUME TableSound, NEW m \in Stored
    PROVE  Chain(PathTo(m), m, live, parent)
<1> USE SessionTreeAssumption
<1>0. live \subseteq Ids /\ parent \in [Ids -> 0..MaxId] /\ m \in 0..MaxId
  BY DEF TableSound, Numbered, Stored, Ids
<1>1. PICK f \in [0..MaxId -> 0..MaxId], n \in 0..MaxId + 1 :
         /\ f[0] = m
         /\ \A k \in 0..MaxId : k # 0 => f[k] = Above(f[k-1])
         /\ \A k \in 0..MaxId : f[k] # 0 <=> k < n
         /\ PathTo(m) = [i \in 1..n |-> f[n - i]]
  BY <1>0, PathShape
<1>2. \A x : Above(x) \in Stored
  BY DEF Above, Stored, TableSound, Rooted
<1>3. \A k \in 0..MaxId : f[k] \in Stored
  <2> TAKE k \in 0..MaxId
  <2>1. k = 0 \/ f[k] = Above(f[k-1])
    BY <1>1
  <2> QED BY <1>1, <1>2, <2>1
<1>4. \A k \in 0..MaxId : k < n => f[k] \in live
  BY <1>1, <1>3 DEF Stored
<1>5. \A k \in 0..MaxId : k < n /\ k + 1 \in 0..MaxId => f[k+1] = parent[f[k]]
  <2> TAKE k \in 0..MaxId
  <2>1. SUFFICES ASSUME k < n, k + 1 \in 0..MaxId PROVE f[k+1] = parent[f[k]]
    OBVIOUS
  <2>2. k + 1 # 0 /\ (k + 1) - 1 = k
    OBVIOUS
  <2>3. f[k+1] = Above(f[k])
    BY <1>1, <2>1, <2>2
  <2> QED BY <1>4, <2>1, <2>3 DEF Above
<1>6. n # MaxId + 1
  <2> SUFFICES ASSUME n = MaxId + 1 PROVE FALSE
    OBVIOUS
  <2>1. \A k \in 0..MaxId : f[k] \in live /\ f[k] \in 1..MaxId
    <3> TAKE k \in 0..MaxId
    <3>1. k < n
      OBVIOUS
    <3>2. f[k] \in live
      BY <1>4, <3>1
    <3> QED BY <1>0, <3>2 DEF Ids
  <2>2. PICK i, j \in 0..MaxId : i # j /\ f[i] = f[j]
    <3>1. f \in [0..MaxId -> 1..MaxId]
      BY <2>1
    <3>2. /\ IsFiniteSet(0..MaxId) /\ IsFiniteSet(1..MaxId)
          /\ Cardinality(0..MaxId) = IF 0 > MaxId THEN 0 ELSE MaxId - 0 + 1
          /\ Cardinality(1..MaxId) = IF 1 > MaxId THEN 0 ELSE MaxId - 1 + 1
      BY FS_Interval
    <3>3. Cardinality(1..MaxId) < Cardinality(0..MaxId)
      BY <3>2
    <3> QED BY <3>1, <3>2, <3>3, FS_PigeonHole
  <2>3. PICK a, b \in 0..MaxId : a < b /\ f[a] = f[b]
    BY <2>2
  <2> DEFINE s == {f[k] : k \in a..b - 1}
  <2>4. s \in SUBSET live /\ f[a] \in s
    BY <2>1, <2>3
  <2>5. \A x \in s : parent[x] \in s
    <3> TAKE x \in s
    <3>1. PICK k \in a..b - 1 : x = f[k]
      OBVIOUS
    <3>2. k \in 0..MaxId /\ k + 1 \in 0..MaxId /\ k < n
      OBVIOUS
    <3>3. parent[x] = f[k+1]
      BY <1>5, <3>1, <3>2
    <3>4. CASE k + 1 = b
      BY <2>3, <2>4, <3>3, <3>4
    <3>5. CASE k + 1 # b
      <4>1. k + 1 \in a..b - 1
        BY <3>5
      <4> QED BY <3>3, <4>1
    <3> QED BY <3>4, <3>5
  <2> HIDE DEF s
  <2> QED BY <2>4, <2>5 DEF TableSound, Acyclic
<1> DEFINE p == PathTo(m)
<1>7. /\ p = [i \in 1..n |-> f[n - i]] /\ p \in Seq(live) /\ Len(p) = n /\ DOMAIN p = 1..n
      /\ \A i \in 1..n : p[i] = f[n - i]
  <2>1. \A i \in 1..n : f[n - i] \in live
    <3> TAKE i \in 1..n
    <3>1. n - i \in 0..MaxId /\ n - i < n
      OBVIOUS
    <3> QED BY <1>4, <3>1
  <2> QED BY <1>1, <2>1
<1> HIDE DEF p
<1>8. m = 0 <=> n = 0
  BY <1>1
<1>9. CASE m = 0
  BY <1>7, <1>8, <1>9 DEF Chain, p
<1>10. CASE m # 0
  <2>1. n \in 1..MaxId
    BY <1>6, <1>8, <1>10
  <2>2. p # <<>> /\ p[Len(p)] = m
    <3>1. n \in 1..n /\ n - n = 0
      BY <2>1
    <3>2. p[n] = f[0]
      BY <1>7, <3>1
    <3>3. p[Len(p)] = m
      BY <1>1, <1>7, <3>2
    <3>4. p # <<>>
      <4> SUFFICES ASSUME p = <<>> PROVE FALSE
        OBVIOUS
      <4>1. Len(p) = 0
        OBVIOUS
      <4> QED BY <1>7, <2>1, <4>1
    <3> QED BY <3>3, <3>4
  <2>3. parent[p[1]] = 0
    <3>1. p[1] = f[n - 1] /\ n - 1 \in 0..MaxId /\ n - 1 < n /\ (n - 1) + 1 = n /\ n \in 0..MaxId
      BY <1>7, <2>1
    <3> DEFINE k == n - 1
    <3>3. k \in 0..MaxId /\ k < n /\ k + 1 = n
      BY <3>1
    <3> HIDE DEF k
    <3>4. f[k + 1] = parent[f[k]]
      BY <1>5, <3>1, <3>3
    <3>2. f[n] = parent[f[n - 1]]
      BY <3>3, <3>4 DEF k
    <3>5. f[n] = 0
      <4>1. ~(n < n)
        BY <2>1
      <4> QED BY <1>1, <3>1, <4>1
    <3> QED BY <3>1, <3>2, <3>5
  <2>4. \A i \in DOMAIN p : i + 1 \in DOMAIN p => parent[p[i+1]] = p[i]
    <3> TAKE i \in DOMAIN p
    <3>1. SUFFICES ASSUME i + 1 \in DOMAIN p PROVE parent[p[i+1]] = p[i]
      OBVIOUS
    <3>2. /\ p[i] = f[n - i] /\ p[i+1] = f[n - (i + 1)]
          /\ n - (i + 1) \in 0..MaxId /\ n - (i + 1) < n /\ (n - (i + 1)) + 1 = n - i
          /\ n - i \in 0..MaxId
      BY <1>7, <2>1, <3>1
    <3> DEFINE k == n - (i + 1)
    <3>3. k \in 0..MaxId /\ k < n /\ k + 1 = n - i /\ k + 1 \in 0..MaxId
      BY <3>2
    <3> HIDE DEF k
    <3>4. f[k+1] = parent[f[k]]
      BY <1>5, <3>3
    <3> QED BY <3>2, <3>3, <3>4 DEF k
  <2> QED BY <1>7, <1>10, <2>2, <2>3, <2>4 DEF Chain, p
<1> QED BY <1>9, <1>10

LEMMA ChainLen ==
    ASSUME NEW p, NEW m, NEW L, NEW P, Chain(p, m, L, P)
    PROVE  /\ Len(p) \in Nat /\ DOMAIN p = 1..Len(p)
           /\ \A i \in DOMAIN p : p[i] \in L
           /\ m # 0 => Len(p) \in DOMAIN p
           /\ m = 0 => Len(p) = 0
           /\ \A x : x \in Range(p) <=> \E i \in DOMAIN p : p[i] = x
<1>1. p \in Seq(L)
  BY DEF Chain
<1>2. m # 0 => p # <<>>
  BY DEF Chain
<1>3. m = 0 => p = <<>>
  BY DEF Chain
<1>4. Len(p) \in Nat /\ DOMAIN p = 1..Len(p) /\ \A i \in DOMAIN p : p[i] \in L
  BY <1>1
<1>5. p # <<>> => Len(p) # 0
  BY <1>1
<1>6. p = <<>> => Len(p) = 0
  OBVIOUS
<1> QED BY <1>2, <1>3, <1>4, <1>5, <1>6 DEF Range

\* Two chains that lead to the same message agree from their ends.
LEMMA ChainsAgree ==
    ASSUME NEW p, NEW q, NEW m, NEW L, NEW P, Chain(p, m, L, P), Chain(q, m, L, P), m # 0
    PROVE  \A k \in Nat : k < Len(p) /\ k < Len(q) => p[Len(p) - k] = q[Len(q) - k]
<1> DEFINE a == Len(p)
           b == Len(q)
           Bad == {k \in Nat : k < a /\ k < b /\ p[a - k] # q[b - k]}
<1>1. /\ a \in Nat /\ b \in Nat /\ DOMAIN p = 1..a /\ DOMAIN q = 1..b
      /\ p[a] = m /\ q[b] = m
      /\ \A i \in 1..a : i + 1 \in 1..a => P[p[i+1]] = p[i]
      /\ \A i \in 1..b : i + 1 \in 1..b => P[q[i+1]] = q[i]
  <2>1. /\ a \in Nat /\ b \in Nat /\ DOMAIN p = 1..a /\ DOMAIN q = 1..b
    BY ChainLen
  <2> QED BY <2>1 DEF Chain
<1> HIDE DEF a, b
<1>2. Bad = {}
  <2> SUFFICES ASSUME Bad # {} PROVE FALSE
    OBVIOUS
  <2>1. Bad \in SUBSET Nat
    OBVIOUS
  <2>2. PICK k \in Bad : \A y \in Bad : k <= y
    <3> HIDE DEF Bad
    <3> QED BY <2>1, LeastIsIn
  <2>3. k \in Nat /\ k < a /\ k < b /\ p[a - k] # q[b - k]
    BY <2>2
  <2>4. k # 0
    <3> SUFFICES ASSUME k = 0 PROVE FALSE
      OBVIOUS
    <3>1. a - 0 = a /\ b - 0 = b
      BY <1>1
    <3> QED BY <1>1, <2>3, <3>1
  <2>5. k - 1 \in Nat /\ k - 1 \notin Bad
    <3>1. k - 1 \in Nat /\ ~(k <= k - 1)
      BY <2>3, <2>4
    <3> HIDE DEF Bad
    <3> QED BY <2>2, <3>1
  <2>6. p[a - (k - 1)] = q[b - (k - 1)]
    BY <2>3, <2>5, <1>1
  <2>7. /\ a - k \in 1..a /\ (a - k) + 1 = a - (k - 1) /\ (a - k) + 1 \in 1..a
        /\ b - k \in 1..b /\ (b - k) + 1 = b - (k - 1) /\ (b - k) + 1 \in 1..b
    BY <1>1, <2>3, <2>4
  <2>8. P[p[(a - k) + 1]] = p[a - k] /\ P[q[(b - k) + 1]] = q[b - k]
    BY <1>1, <2>7
  <2> QED BY <2>3, <2>6, <2>7, <2>8
<1> QED BY <1>2 DEF a, b

LEMMA ChainNotLonger ==
    ASSUME NEW p, NEW q, NEW m, NEW L, NEW P, Chain(p, m, L, P), Chain(q, m, L, P), 0 \notin L
    PROVE  Len(q) <= Len(p)
<1>1. CASE m = 0
  BY <1>1, ChainLen
<1>2. CASE m # 0
  <2> SUFFICES ASSUME ~(Len(q) <= Len(p)) PROVE FALSE
    OBVIOUS
  <2> DEFINE a == Len(p)
             b == Len(q)
  <2>1. /\ a \in Nat /\ b \in Nat /\ a \in 1..a /\ a < b
        /\ DOMAIN q = 1..b /\ \A i \in 1..b : q[i] \in L
    BY <1>2, ChainLen
  <2>2. P[p[1]] = 0 /\ \A i \in 1..b : i + 1 \in 1..b => P[q[i+1]] = q[i]
    BY <1>2, <2>1 DEF Chain
  <2>3. \A k \in Nat : k < a /\ k < b => p[a - k] = q[b - k]
    BY <1>2, ChainsAgree
  <2> HIDE DEF a, b
  <2>4. a - 1 \in Nat /\ a - 1 < a /\ a - 1 < b /\ a - (a - 1) = 1
        /\ b - (a - 1) = (b - a) + 1 /\ b - a \in 1..b /\ (b - a) + 1 \in 1..b
    BY <2>1
  <2>5. p[1] = q[(b - a) + 1]
    BY <2>3, <2>4
  <2>6. P[q[(b - a) + 1]] = q[b - a] /\ q[b - a] \in L
    BY <2>1, <2>2, <2>4
  <2> QED BY <2>2, <2>5, <2>6
<1> QED BY <1>1, <1>2

\* A message has one chain.
LEMMA ChainUnique ==
    ASSUME NEW p, NEW q, NEW m, NEW L, NEW P, Chain(p, m, L, P), Chain(q, m, L, P), 0 \notin L
    PROVE  p = q
<1>1. CASE m = 0
  BY <1>1 DEF Chain
<1>2. CASE m # 0
  <2> DEFINE a == Len(p)
  <2>1. a \in Nat /\ Len(q) = a /\ p \in Seq(L) /\ q \in Seq(L)
    <3>1. Len(p) \in Nat /\ Len(q) \in Nat /\ Len(q) <= Len(p) /\ Len(p) <= Len(q)
      BY ChainLen, ChainNotLonger
    <3> QED BY <3>1 DEF Chain
  <2>2. \A k \in Nat : k < a => p[a - k] = q[a - k]
    BY <1>2, <2>1, ChainsAgree
  <2> HIDE DEF a
  <2>3. \A i \in 1..a : p[i] = q[i]
    <3> TAKE i \in 1..a
    <3> DEFINE k == a - i
    <3>1. k \in Nat /\ k < a /\ a - k = i
      BY <2>1
    <3> HIDE DEF k
    <3> QED BY <2>2, <3>1
  <2> QED BY <2>1, <2>3 DEF a
<1> QED BY <1>1, <1>2

\* A chain leads to each message on it.
LEMMA ChainPrefix ==
    ASSUME NEW p, NEW m, NEW L, NEW P, Chain(p, m, L, P), 0 \notin L, NEW i \in DOMAIN p
    PROVE  /\ Chain(SubSeq(p, 1, i), p[i], L, P)
           /\ Len(SubSeq(p, 1, i)) = i
           /\ \A j \in 1..i : SubSeq(p, 1, i)[j] = p[j]
<1> DEFINE q == SubSeq(p, 1, i)
           a == Len(p)
<1>1. a \in Nat /\ DOMAIN p = 1..a /\ p[i] \in L
  BY ChainLen
<1>2. m # 0 /\ p \in Seq(L) /\ P[p[1]] = 0
      /\ \A j \in DOMAIN p : j + 1 \in DOMAIN p => P[p[j+1]] = p[j]
  <2>1. m # 0
    BY <1>1, ChainLen
  <2> QED BY <2>1 DEF Chain
<1>3. q \in Seq(L) /\ Len(q) = i /\ DOMAIN q = 1..i /\ \A j \in 1..i : q[j] = p[j]
  <2>1. i \in 1..a
    BY <1>1
  <2> QED BY <1>1, <1>2, <2>1
<1> HIDE DEF a, q
<1>4. i \in 1..a /\ 1 \in 1..i /\ i \in 1..i
  BY <1>1
<1>5. q # <<>> /\ q[Len(q)] = p[i] /\ P[q[1]] = 0 /\ p[i] # 0
  <2>1. q # <<>>
    <3> SUFFICES ASSUME q = <<>> PROVE FALSE
      OBVIOUS
    <3>1. Len(q) = 0
      OBVIOUS
    <3> QED BY <1>3, <1>4, <3>1
  <2> QED BY <1>1, <1>2, <1>3, <1>4, <2>1
<1>6. \A j \in DOMAIN q : j + 1 \in DOMAIN q => P[q[j+1]] = q[j]
  <2> TAKE j \in DOMAIN q
  <2>1. SUFFICES ASSUME j + 1 \in DOMAIN q PROVE P[q[j+1]] = q[j]
    OBVIOUS
  <2>2. j \in 1..i /\ j + 1 \in 1..i /\ j \in DOMAIN p /\ j + 1 \in DOMAIN p
    BY <1>1, <1>3, <1>4, <2>1
  <2> QED BY <1>2, <1>3, <2>2
<1> QED BY <1>3, <1>5, <1>6 DEF Chain, q

\* No message is on a chain twice.
LEMMA ChainInjective ==
    ASSUME NEW p, NEW m, NEW L, NEW P, Chain(p, m, L, P), 0 \notin L,
           NEW i \in DOMAIN p, NEW j \in DOMAIN p, p[i] = p[j]
    PROVE  i = j
<1>1. /\ Chain(SubSeq(p, 1, i), p[i], L, P) /\ Len(SubSeq(p, 1, i)) = i
      /\ Chain(SubSeq(p, 1, j), p[j], L, P) /\ Len(SubSeq(p, 1, j)) = j
  BY ChainPrefix
<1>2. SubSeq(p, 1, i) = SubSeq(p, 1, j)
  BY <1>1, ChainUnique
<1> QED BY <1>1, <1>2

\* What is on a chain hangs from something on it, or from nothing...
LEMMA ChainClosed ==
    ASSUME NEW p, NEW m, NEW L, NEW P, Chain(p, m, L, P)
    PROVE  /\ Range(p) \subseteq L /\ (m # 0 => m \in Range(p)) /\ (m = 0 => Range(p) = {})
           /\ \A x \in Range(p) : P[x] \in Range(p) \cup {0}
<1> DEFINE a == Len(p)
<1>1. /\ a \in Nat /\ DOMAIN p = 1..a /\ \A i \in 1..a : p[i] \in L
      /\ (m # 0 => a \in 1..a) /\ (m = 0 => a = 0)
      /\ \A x : x \in Range(p) <=> \E i \in 1..a : p[i] = x
  BY ChainLen
<1>2. m # 0 => /\ p[a] = m /\ P[p[1]] = 0
               /\ \A j \in 1..a : j + 1 \in 1..a => P[p[j+1]] = p[j]
  BY <1>1 DEF Chain
<1> HIDE DEF a
<1>3. ASSUME NEW x \in Range(p) PROVE P[x] \in Range(p) \cup {0}
  <2>1. PICK i \in 1..a : p[i] = x
    BY <1>1
  <2>2. m # 0
    BY <1>1, <2>1
  <2>3. CASE i = 1
    BY <1>2, <2>1, <2>2, <2>3
  <2>4. CASE i # 1
    <3> DEFINE j == i - 1
    <3>1. j \in 1..a /\ j + 1 = i
      BY <1>1, <2>1, <2>4
    <3> HIDE DEF j
    <3>2. P[p[j + 1]] = p[j]
      BY <1>2, <2>1, <2>2, <3>1
    <3> QED BY <1>1, <2>1, <3>1, <3>2
  <2> QED BY <2>3, <2>4
<1>4. Range(p) \subseteq L
  BY <1>1
<1>5. m # 0 => m \in Range(p)
  BY <1>1, <1>2
<1>6. m = 0 => Range(p) = {}
  <2> SUFFICES ASSUME m = 0, NEW x \in Range(p) PROVE FALSE
    OBVIOUS
  <2>1. PICK i \in 1..a : p[i] = x
    BY <1>1
  <2> QED BY <1>1, <2>1
<1> QED BY <1>3, <1>4, <1>5, <1>6

\* ... and a chain is the least that does.
LEMMA ChainLeast ==
    ASSUME NEW p, NEW m, NEW L, NEW P, Chain(p, m, L, P),
           NEW s, m # 0 => m \in s, \A x \in s \cap L : P[x] \in s \cup {0}, 0 \notin L
    PROVE  Range(p) \subseteq s
<1> DEFINE a == Len(p)
           Bad == {k \in Nat : k < a /\ p[a - k] \notin s}
<1>1. /\ a \in Nat /\ DOMAIN p = 1..a /\ \A i \in 1..a : p[i] \in L
      /\ (m # 0 => a \in 1..a) /\ (m = 0 => a = 0)
      /\ \A x : x \in Range(p) <=> \E i \in 1..a : p[i] = x
  BY ChainLen
<1>2. m # 0 => /\ p[a] = m
               /\ \A j \in 1..a : j + 1 \in 1..a => P[p[j+1]] = p[j]
  BY <1>1 DEF Chain
<1> HIDE DEF a
<1>3. Bad = {}
  <2> SUFFICES ASSUME Bad # {} PROVE FALSE
    OBVIOUS
  <2>1. Bad \in SUBSET Nat
    OBVIOUS
  <2>2. PICK k \in Bad : \A y \in Bad : k <= y
    <3> HIDE DEF Bad
    <3> QED BY <2>1, LeastIsIn
  <2>3. k \in Nat /\ k < a /\ p[a - k] \notin s /\ m # 0
    BY <1>1, <2>2
  <2>4. k # 0
    <3> SUFFICES ASSUME k = 0 PROVE FALSE
      OBVIOUS
    <3>1. a - 0 = a
      BY <1>1
    <3> QED BY <1>2, <2>3, <3>1
  <2>5. k - 1 \in Nat /\ k - 1 \notin Bad
    <3>1. k - 1 \in Nat /\ ~(k <= k - 1)
      BY <2>3, <2>4
    <3> HIDE DEF Bad
    <3> QED BY <2>2, <3>1
  <2>6. p[a - (k - 1)] \in s
    BY <1>1, <2>3, <2>5
  <2> DEFINE j == a - k
  <2>7. j \in 1..a /\ j + 1 = a - (k - 1) /\ j + 1 \in 1..a
    BY <1>1, <2>3, <2>4
  <2>8. p[j] \notin s
    BY <2>3
  <2> HIDE DEF j
  <2>9. P[p[j + 1]] = p[j] /\ p[j + 1] \in s \cap L /\ p[j] \in L
    BY <1>1, <1>2, <2>3, <2>6, <2>7
  <2> QED BY <2>8, <2>9
<1>4. \A i \in 1..a : p[i] \in s
  <2> TAKE i \in 1..a
  <2> DEFINE k == a - i
  <2>1. k \in Nat /\ k < a /\ a - k = i
    BY <1>1
  <2>2. k \notin Bad
    BY <1>3
  <2> HIDE DEF k
  <2> QED BY <2>1, <2>2
<1> QED BY <1>1, <1>4

\* A chain stays one as long as nothing on it changes.
LEMMA ChainFrame ==
    ASSUME NEW p, NEW m, NEW L, NEW P, Chain(p, m, L, P), NEW M, NEW Q,
           Range(p) \subseteq M, \A x \in Range(p) : Q[x] = P[x]
    PROVE  Chain(p, m, M, Q)
<1> DEFINE a == Len(p)
<1>1. /\ a \in Nat /\ DOMAIN p = 1..a /\ (m # 0 => a \in 1..a)
      /\ \A x : x \in Range(p) <=> \E i \in 1..a : p[i] = x
  BY ChainLen
<1>2. p \in Seq(M)
  <2>1. \A i \in 1..a : p[i] \in M
    BY <1>1
  <2>2. p \in Seq(L)
    BY DEF Chain
  <2> QED BY <1>1, <2>1, <2>2
<1>3. \A i \in 1..a : Q[p[i]] = P[p[i]]
  BY <1>1
<1>4. m = 0 => p = <<>>
  BY DEF Chain
<1>5. ASSUME m # 0
      PROVE  /\ p # <<>> /\ p[Len(p)] = m /\ Q[p[1]] = 0
             /\ \A i \in DOMAIN p : i + 1 \in DOMAIN p => Q[p[i+1]] = p[i]
  <2>1. /\ p # <<>> /\ p[Len(p)] = m /\ P[p[1]] = 0
        /\ \A i \in DOMAIN p : i + 1 \in DOMAIN p => P[p[i+1]] = p[i]
    BY <1>5 DEF Chain
  <2>2. 1 \in 1..a
    BY <1>1, <1>5
  <2> HIDE DEF a
  <2> QED BY <1>1, <1>3, <2>1, <2>2
<1> QED BY <1>2, <1>4, <1>5 DEF Chain

\* The chain of a message that is new.
LEMMA ChainAppend ==
    ASSUME NEW L, NEW P, NEW q, NEW p, Chain(p, q, L, P), NEW n, n # 0, q # 0 => q \in L,
           NEW Q, Q[n] = q, \A x \in Range(p) : Q[x] = P[x]
    PROVE  Chain(Append(p, n), n, L \cup {n}, Q)
<1> DEFINE a == Len(p)
           r == Append(p, n)
           M == L \cup {n}
<1>1. /\ a \in Nat /\ DOMAIN p = 1..a /\ (q # 0 => a \in 1..a) /\ (q = 0 => a = 0)
      /\ \A i \in 1..a : p[i] \in Range(p)
  BY ChainLen
<1>2. /\ r \in Seq(M) /\ Len(r) = a + 1 /\ DOMAIN r = 1..(a + 1) /\ r[a + 1] = n
      /\ \A i \in 1..a : r[i] = p[i]
      /\ r # <<>>
  <2>1. p \in Seq(M)
    <3>1. p \in Seq(L)
      BY DEF Chain
    <3> QED BY <3>1
  <2> HIDE DEF M
  <2>2. n \in M
    BY DEF M
  <2> QED BY <1>1, <2>1, <2>2
<1>3. q # 0 => /\ p[a] = q /\ P[p[1]] = 0
               /\ \A i \in 1..a : i + 1 \in 1..a => P[p[i+1]] = p[i]
  BY <1>1 DEF Chain
<1> HIDE DEF a, r, M
<1>4. Q[r[1]] = 0
  <2>1. CASE q = 0
    BY <1>1, <1>2, <2>1
  <2>2. CASE q # 0
    <3>1. 1 \in 1..a
      BY <1>1, <2>2
    <3> QED BY <1>1, <1>2, <1>3, <2>2, <3>1
  <2> QED BY <2>1, <2>2
<1>5. \A i \in DOMAIN r : i + 1 \in DOMAIN r => Q[r[i+1]] = r[i]
  <2> TAKE i \in DOMAIN r
  <2>1. SUFFICES ASSUME i + 1 \in DOMAIN r PROVE Q[r[i+1]] = r[i]
    OBVIOUS
  <2>2. i \in 1..a
    BY <1>1, <1>2, <2>1
  <2>3. q # 0
    BY <1>1, <2>2
  <2>4. CASE i = a
    BY <1>1, <1>2, <1>3, <2>2, <2>3, <2>4
  <2>5. CASE i # a
    <3>1. i + 1 \in 1..a
      BY <1>1, <2>2, <2>5
    <3> QED BY <1>1, <1>2, <1>3, <2>2, <2>3, <3>1
  <2> QED BY <2>4, <2>5
<1>6. r[Len(r)] = n
  BY <1>2
<1> QED BY <1>2, <1>4, <1>5, <1>6 DEF Chain, r, M

(***************************************************************************)
(* Writing the tree                                                        *)
(***************************************************************************)
\* A new row hung from a row, or from none, leaves the table sound.
LEMMA InsertSound ==
    ASSUME TableSound, NEW r, NEW p \in Stored, Insert(r, p)
    PROVE  TableSound' /\ Stored \subseteq Stored' /\ next \in live'
<1>1. next \in Ids /\ live' = live \cup {next} /\ next' = next + 1
      /\ parent' = [parent EXCEPT ![next] = p]
  BY DEF Insert
<1>2. next \notin live /\ p # next /\ p \in 0..MaxId
  BY <1>1, SessionTreeAssumption DEF TableSound, Numbered, Stored, Ids
<1>3. Numbered'
  BY <1>1, <1>2, SessionTreeAssumption DEF TableSound, Numbered, Ids
<1>4. /\ parent'[next] = p
      /\ \A m \in live : parent'[m] = parent[m] /\ parent[m] # next
  BY <1>1, <1>2, SessionTreeAssumption DEF TableSound, Numbered, Rooted, Stored, Ids
<1>5. Rooted'
  BY <1>1, <1>4 DEF TableSound, Rooted, Stored
<1>6. Acyclic'
  <2> SUFFICES ASSUME NEW s \in SUBSET live', s # {}
               PROVE  \E m \in s : parent'[m] \notin s
    BY DEF Acyclic
  <2>1. CASE s \subseteq {next}
    BY <1>2, <1>4, <2>1
  <2>2. CASE ~(s \subseteq {next})
    <3>1. s \ {next} \in SUBSET live /\ s \ {next} # {}
      BY <1>1, <2>2
    <3>2. PICK m \in s \ {next} : parent[m] \notin s \ {next}
      BY <3>1 DEF TableSound, Acyclic
    <3> QED BY <1>4, <3>1, <3>2
  <2> QED BY <2>1, <2>2
<1> QED BY <1>1, <1>3, <1>5, <1>6 DEF TableSound, Stored

\* So does a summary put between a row and what that row hangs from.
LEMMA SpliceSound ==
    ASSUME TableSound, NEW below \in live, Splice(parent[below], below)
    PROVE  TableSound' /\ Stored \subseteq Stored' /\ next \in live'
<1> DEFINE q == parent[below]
<1>1. next \in Ids /\ live' = live \cup {next} /\ next' = next + 1
      /\ parent' = [parent EXCEPT ![next] = q, ![below] = next]
  BY DEF Splice
<1>2. next \notin live /\ below \in Ids /\ q \in Stored /\ q # next /\ q \in 0..MaxId
  BY <1>1, SessionTreeAssumption DEF TableSound, Numbered, Rooted, Stored, Ids
<1>3. Numbered'
  BY <1>1, <1>2, SessionTreeAssumption DEF TableSound, Numbered, Ids
<1>4. /\ parent'[next] = q /\ parent'[below] = next
      /\ \A m \in live : parent[m] # next
      /\ \A m \in live \ {below} : parent'[m] = parent[m]
  BY <1>1, <1>2, SessionTreeAssumption DEF TableSound, Numbered, Rooted, Stored, Ids
<1> HIDE DEF q
<1>5. Rooted'
  <2>1. SUFFICES ASSUME NEW m \in live' PROVE parent'[m] \in live' \cup {0}
    BY DEF Rooted, Stored
  <2>2. live' = live \cup {next}
    BY <1>1
  <2>3. m \notin {next, below} => parent'[m] \in live \cup {0}
    BY <1>4, <2>1, <2>2 DEF TableSound, Rooted, Stored
  <2> QED BY <1>2, <1>4, <2>2, <2>3 DEF Stored
<1>6. Acyclic'
  <2> SUFFICES ASSUME NEW s \in SUBSET live', s # {}
               PROVE  \E m \in s : parent'[m] \notin s
    BY DEF Acyclic
  <2>1. CASE next \notin s
    <3>1. s \in SUBSET live
      BY <1>1, <2>1
    <3>2. PICK m \in s : parent[m] \notin s
      BY <3>1 DEF TableSound, Acyclic
    <3> QED BY <1>4, <2>1, <3>1, <3>2
  <2>2. CASE next \in s /\ q \notin s
    BY <1>4, <2>2
  <2>3. CASE next \in s /\ q \in s
    <3>1. s \ {next} \in SUBSET live /\ q \in s \ {next}
      BY <1>1, <1>2, <2>3
    <3>2. PICK m \in s \ {next} : parent[m] \notin s \ {next}
      BY <3>1 DEF TableSound, Acyclic
    <3>3. m # below
      BY <3>1, <3>2 DEF q
    <3> QED BY <1>4, <3>1, <3>2, <3>3
  <2> QED BY <2>1, <2>2, <2>3
<1> QED BY <1>1, <1>3, <1>5, <1>6 DEF TableSound, Stored

\* So does an append, and its leaf is a row, whichever of its writes fails.
LEMMA AppendSound ==
    ASSUME TableSound, leaf \in Stored \cup {Unset}, NEW r, NEW p \in Stored,
           NEW how, AppendRow(r, p, how)
    PROVE  /\ TableSound' /\ Stored \subseteq Stored'
           /\ leaf' \in Stored' \cup {Unset}
           /\ how = "ok" => next \in live'
<1>1. CASE how = "insert" /\ UNCHANGED table
  BY <1>1 DEF table, TableSound, Numbered, Rooted, Acyclic, Stored
<1>2. CASE Insert(r, p) /\ leaf' \in {leaf, next}
  <2>1. TableSound' /\ Stored \subseteq Stored' /\ next \in live'
    BY <1>2, InsertSound
  <2> QED BY <1>2, <2>1 DEF Stored
<1> QED BY <1>1, <1>2 DEF AppendRow

\* A branch goes with all that hangs from it, and not what it hangs from.
LEMMA DeleteSound ==
    ASSUME TableSound, NEW m \in live, NEW d \in Branches(m),
           live' = live \ d, UNCHANGED <<parent, next>>
    PROVE  TableSound' /\ parent[m] \in Stored'
<1>1. /\ d \in SUBSET live /\ m \in d
      /\ \A o \in live : parent[o] \in d => o \in d
      /\ \A o \in d \ {m} : parent[o] \in d
  BY DEF Branches, IsSubtree
<1>2. Numbered'
  BY DEF TableSound, Numbered
<1>3. Rooted'
  BY <1>1 DEF TableSound, Rooted, Stored
<1>4. Acyclic'
  BY DEF TableSound, Acyclic
<1>5. parent[m] \notin d
  <2>1. PICK o \in d : parent[o] \notin d
    BY <1>1 DEF TableSound, Acyclic
  <2> QED BY <1>1, <2>1
<1>6. parent[m] \in live' \cup {0}
  BY <1>5 DEF TableSound, Rooted, Stored
<1> QED BY <1>2, <1>3, <1>4, <1>6 DEF TableSound, Stored

\* Memory that is loaded ends at a row.
LEMMA ReloadStored == ASSUME TableSound', Reload PROVE mleaf' \in Stored'
<1>1. (Numbered => Tip \in Stored)'
  BY TipIsStored, PTL
<1> QED BY <1>1 DEF TableSound, Reload

(***************************************************************************)
(* What a write does to the paths                                          *)
(***************************************************************************)
\* The path to each message, as one function.
Route == [m \in 0..MaxId |-> PathTo(m)]

\* In a sound table each is a chain.
LEMMA Routes ==
    TableSound => /\ 0 \notin live /\ live \subseteq Ids /\ Stored \subseteq 0..MaxId
                  /\ Tip \in Stored
                  /\ ActivePath = Route[Tip]
                  /\ \A m \in Stored : Chain(Route[m], m, live, parent)
<1> SUFFICES ASSUME TableSound
             PROVE  /\ 0 \notin live /\ live \subseteq Ids /\ Stored \subseteq 0..MaxId
                  /\ Tip \in Stored
                  /\ ActivePath = Route[Tip]
                  /\ \A m \in Stored : Chain(Route[m], m, live, parent)
  OBVIOUS
<1>1. 0 \notin live /\ live \subseteq Ids /\ Stored \subseteq 0..MaxId
  BY SessionTreeAssumption DEF TableSound, Numbered, Stored, Ids
<1>2. Tip \in Stored
  BY TipIsStored DEF TableSound
<1>3. ActivePath = Route[Tip]
  BY <1>1, <1>2 DEF ActivePath, Route
<1>4. ASSUME NEW m \in Stored PROVE Chain(Route[m], m, live, parent)
  <2>1. Route[m] = PathTo(m)
    BY <1>1 DEF Route
  <2> QED BY <2>1, PathIsChain
<1> QED BY <1>1, <1>2, <1>3, <1>4

LEMMA RoutesNext ==
    ASSUME TableSound'
    PROVE  /\ 0 \notin live' /\ live' \subseteq Ids /\ Stored' \subseteq 0..MaxId
           /\ Tip' \in Stored'
           /\ ActivePath' = Route'[Tip']
           /\ \A m \in Stored' : Chain(Route'[m], m, live', parent')
<1>1. (TableSound => /\ 0 \notin live /\ live \subseteq Ids /\ Stored \subseteq 0..MaxId
                  /\ Tip \in Stored
                  /\ ActivePath = Route[Tip]
                  /\ \A m \in Stored : Chain(Route[m], m, live, parent))'
  BY Routes, PTL
<1> QED BY <1>1

LEMMA TipPath == mleaf = Tip => PathTo(mleaf) = ActivePath
BY DEF ActivePath

\* Memory that is loaded is the active path.
LEMMA ReloadedPath ==
    ASSUME TableSound', Reload
    PROVE  path' = ActivePath' /\ mleaf' = Tip'
<1>1. (mleaf = Tip => PathTo(mleaf) = ActivePath)'
  BY TipPath, PTL
<1> QED BY <1>1 DEF Reload

\* A path is known by being a chain.
LEMMA RouteIs ==
    ASSUME TableSound', NEW m \in Stored', NEW p, Chain(p, m, live', parent')
    PROVE  Route'[m] = p
BY RoutesNext, ChainUnique

\* Nothing changes for a message while nothing on its path does.
LEMMA RouteStays ==
    ASSUME TableSound, TableSound', NEW m \in Stored, Range(Route[m]) \subseteq live',
           \A x \in Range(Route[m]) : parent'[x] = parent[x]
    PROVE  Route'[m] = Route[m] /\ m \in Stored'
<1>1. Chain(Route[m], m, live, parent)
  BY Routes
<1>2. Chain(Route[m], m, live', parent')
  BY <1>1, ChainFrame
<1>3. m \in Stored'
  BY <1>1, ChainClosed DEF Stored
<1> QED BY <1>2, <1>3, RouteIs

LEMMA SameRoutes ==
    ASSUME TableSound, UNCHANGED <<live, parent, next>>
    PROVE  TableSound' /\ Stored' = Stored /\ \A m \in Stored : Route'[m] = Route[m]
<1>1. TableSound' /\ Stored' = Stored
  BY DEF TableSound, Numbered, Rooted, Acyclic, Stored
<1>2. ASSUME NEW m \in Stored PROVE Route'[m] = Route[m]
  <2>1. Chain(Route[m], m, live', parent')
    BY Routes
  <2> QED BY <1>1, <2>1, RouteIs
<1> QED BY <1>1, <1>2

\* A new row is at the end of its own path, and on no other.
LEMMA InsertRoutes ==
    ASSUME TableSound, NEW r, NEW q \in Stored, Insert(r, q)
    PROVE  /\ TableSound' /\ next \notin Stored /\ Stored' = Stored \cup {next}
           /\ \A m \in Stored : Route'[m] = Route[m]
           /\ Route'[next] = Append(Route[q], next)
<1>1. TableSound'
  BY InsertSound
<1>2. /\ next \in Ids /\ live' = live \cup {next}
      /\ parent' = [parent EXCEPT ![next] = q]
  BY DEF Insert
<1>3. next \notin live /\ next # 0 /\ parent \in [Ids -> 0..MaxId] /\ live \subseteq Ids
  BY <1>2, SessionTreeAssumption DEF TableSound, Numbered, Ids
<1>4. parent'[next] = q /\ \A x \in live : parent'[x] = parent[x]
  BY <1>2, <1>3
<1>5. ASSUME NEW m \in Stored PROVE Route'[m] = Route[m]
  <2>1. Range(Route[m]) \subseteq live
    BY Routes, ChainClosed
  <2> QED BY <1>1, <1>2, <1>4, <2>1, RouteStays
<1>6. Route'[next] = Append(Route[q], next)
  <2>1. Chain(Route[q], q, live, parent)
    BY Routes
  <2>2. Range(Route[q]) \subseteq live
    BY <2>1, ChainClosed
  <2>3. q # 0 => q \in live
    BY DEF Stored
  <2>4. Chain(Append(Route[q], next), next, live \cup {next}, parent')
    BY <1>3, <1>4, <2>1, <2>2, <2>3, ChainAppend
  <2> QED BY <1>1, <1>2, <2>4, RouteIs DEF Stored
<1>7. Stored' = Stored \cup {next}
  BY <1>2 DEF Stored
<1>8. next \notin Stored
  BY <1>3 DEF Stored
<1> QED BY <1>1, <1>5, <1>6, <1>7, <1>8

\* No message is on the path to what it hangs from.
LEMMA NotAboveItself ==
    ASSUME TableSound, NEW m \in live
    PROVE  m \notin Range(Route[parent[m]])
<1> SUFFICES ASSUME m \in Range(Route[parent[m]]) PROVE FALSE
  OBVIOUS
<1> DEFINE q == parent[m]
           p == Route[q]
           r == Append(p, m)
<1>1. q \in Stored
  BY DEF TableSound, Rooted
<1>2. Chain(p, q, live, parent) /\ 0 \notin live
  BY <1>1, Routes
<1> HIDE DEF p, q
<1>3. Chain(r, m, live \cup {m}, parent)
  <2>1. q # 0 => q \in live
    BY <1>1 DEF Stored
  <2>2. parent[m] = q
    BY DEF q
  <2>3. m # 0
    BY <1>2
  <2> QED BY <1>2, <2>1, <2>2, <2>3, ChainAppend
<1>4. live \cup {m} = live
  OBVIOUS
<1>5. Chain(r, m, live, parent)
  BY <1>3, <1>4
<1>6. PICK i \in DOMAIN p : p[i] = m
  <2>1. m \in Range(p)
    BY DEF p, q
  <2> QED BY <1>2, <2>1, ChainLen
<1>7. /\ i \in DOMAIN r /\ Len(p) + 1 \in DOMAIN r /\ r[i] = m /\ r[Len(p) + 1] = m
      /\ i # Len(p) + 1
  <2>1. p \in Seq(live) /\ Len(p) \in Nat /\ DOMAIN p = 1..Len(p)
    BY <1>2, ChainLen DEF Chain
  <2> QED BY <1>6, <2>1
<1> HIDE DEF r
<1> QED BY <1>2, <1>5, <1>7, ChainInjective

\* A summary put above a row is on the paths that led through that row, and
\* nothing else comes on a path or goes from one.
LEMMA SpliceRoutes ==
    ASSUME TableSound, NEW below \in live, Splice(parent[below], below)
    PROVE  /\ TableSound' /\ next \notin Stored /\ Stored' = Stored \cup {next}
           /\ \A m \in Stored : /\ Range(Route[m]) \subseteq Range(Route'[m])
                                /\ Range(Route'[m]) \subseteq Range(Route[m]) \cup {next}
                                /\ below \notin Range(Route[m]) => Route'[m] = Route[m]
           /\ Route'[next] = Append(Route[parent[below]], next)
<1> DEFINE q == parent[below]
<1>1. TableSound'
  BY SpliceSound
<1>2. /\ next \in Ids /\ live' = live \cup {next}
      /\ parent' = [parent EXCEPT ![next] = q, ![below] = next]
  BY DEF Splice
<1>3. /\ next \notin live /\ next # 0 /\ parent \in [Ids -> 0..MaxId] /\ live \subseteq Ids
      /\ q \in Stored
  BY <1>2, SessionTreeAssumption DEF TableSound, Numbered, Rooted, Ids
<1>4. /\ parent'[next] = q /\ parent'[below] = next
      /\ \A x \in live \ {below} : parent'[x] = parent[x]
  BY <1>2, <1>3
<1>5. Stored' = Stored \cup {next} /\ next \notin Stored
  BY <1>2, <1>3 DEF Stored
<1>6. ASSUME NEW m \in Stored, below \notin Range(Route[m]) PROVE Route'[m] = Route[m]
  <2>1. Range(Route[m]) \subseteq live
    BY Routes, ChainClosed
  <2>2. \A x \in Range(Route[m]) : parent'[x] = parent[x]
    BY <1>4, <1>6, <2>1
  <2> QED BY <1>1, <1>2, <2>1, <2>2, RouteStays
<1>7. below \notin Range(Route[q])
  BY NotAboveItself
<1>8. Route'[next] = Append(Route[q], next)
  <2>1. Chain(Route[q], q, live, parent)
    BY <1>3, Routes
  <2>2. Range(Route[q]) \subseteq live \ {below}
    BY <1>7, <2>1, ChainClosed
  <2>3. q # 0 => q \in live
    BY <1>3 DEF Stored
  <2> HIDE DEF q
  <2>4. Chain(Append(Route[q], next), next, live \cup {next}, parent')
    BY <1>3, <1>4, <2>1, <2>2, <2>3, ChainAppend
  <2> QED BY <1>1, <1>2, <1>5, <2>4, RouteIs
<1>9. ASSUME NEW m \in Stored
      PROVE  /\ Range(Route[m]) \subseteq Range(Route'[m])
             /\ Range(Route'[m]) \subseteq Range(Route[m]) \cup {next}
  <2> DEFINE old == Range(Route[m])
             new == Range(Route'[m])
  <2>1. Chain(Route[m], m, live, parent) /\ 0 \notin live
    BY Routes
  <2>2. Chain(Route'[m], m, live', parent') /\ 0 \notin live'
    BY <1>1, <1>5, RoutesNext
  <2>3. /\ old \subseteq live /\ (m # 0 => m \in old) /\ \A x \in old : parent[x] \in old \cup {0}
    BY <2>1, ChainClosed
  <2>4. /\ new \subseteq live' /\ (m # 0 => m \in new) /\ \A x \in new : parent'[x] \in new \cup {0}
    BY <2>2, ChainClosed
  <2>5. ASSUME NEW x \in new \cap live PROVE parent[x] \in new \cup {0}
    <3>1. CASE x # below
      BY <1>4, <2>4, <2>5, <3>1
    <3>2. CASE x = below
      <4>1. next \in new
        BY <1>3, <1>4, <2>4, <2>5, <3>2
      <4> QED BY <1>4, <2>4, <3>2, <4>1
    <3> QED BY <3>1, <3>2
  <2>6. old \subseteq new
    <3> HIDE DEF old, new
    <3>1. Range(Route[m]) \subseteq new
      BY <2>1, <2>4, <2>5, ChainLeast
    <3> QED BY <3>1 DEF old
  <2>7. CASE below \notin old
    <3>1. old = new
      BY <1>6, <2>7
    <3> QED BY <3>1
  <2>8. CASE below \in old
    <3> DEFINE s == old \cup {next}
    <3>1. \A x \in s \cap live' : parent'[x] \in s \cup {0}
      <4> TAKE x \in s \cap live'
      <4>1. CASE x = next
        BY <1>4, <2>3, <2>8, <4>1
      <4>2. CASE x = below
        BY <1>4, <4>2
      <4>3. CASE x \notin {next, below}
        <5>1. x \in old /\ x \in live \ {below}
          BY <2>3, <4>3
        <5> QED BY <1>4, <2>3, <5>1
      <4> QED BY <4>1, <4>2, <4>3
    <3>2. m # 0 => m \in s
      BY <2>3
    <3> HIDE DEF s
    <3>3. Range(Route'[m]) \subseteq s
      BY <2>2, <3>1, <3>2, ChainLeast
    <3> QED BY <2>6, <3>3 DEF s
  <2> QED BY <2>7, <2>8
<1> QED BY <1>1, <1>5, <1>6, <1>8, <1>9

\* What is left when a branch goes keeps its path.
LEMMA DeleteRoutes ==
    ASSUME TableSound, NEW m \in live, NEW d \in Branches(m),
           live' = live \ d, UNCHANGED <<parent, next>>
    PROVE  /\ TableSound' /\ Stored' = Stored \ d
           /\ \A o \in Stored' : Route'[o] = Route[o]
<1>1. d \in SUBSET live /\ \A o \in live : parent[o] \in d => o \in d
  BY DEF Branches, IsSubtree
<1>2. TableSound'
  BY DeleteSound
<1>3. 0 \notin live
  BY Routes
<1>4. Stored' = Stored \ d
  BY <1>1, <1>3 DEF Stored
<1>5. ASSUME NEW o \in Stored' PROVE Route'[o] = Route[o]
  <2>1. o \in Stored /\ o \notin d
    BY <1>4
  <2>2. Chain(Route[o], o, live, parent)
    BY <2>1, Routes
  <2> DEFINE s == live \ d
  <2>3. o # 0 => o \in s
    BY <2>1 DEF Stored
  <2>4. \A x \in s \cap live : parent[x] \in s \cup {0}
    BY <1>1 DEF TableSound, Rooted, Stored
  <2>5. Range(Route[o]) \subseteq live'
    <3> DEFINE p == Route[o]
    <3>1. Chain(p, o, live, parent)
      BY <2>2
    <3> HIDE DEF s, p
    <3>2. Range(p) \subseteq s
      BY <1>3, <2>3, <2>4, <3>1, ChainLeast
    <3> QED BY <3>2 DEF p, s
  <2> QED BY <1>2, <2>1, <2>5, RouteStays
<1> QED BY <1>2, <1>4, <1>5

(***************************************************************************)
(* The steps                                                               *)
(***************************************************************************)
\* What may fail, and what may not happen, for the tree to stay sound.
Survivable == Faults \cap {"refresh", "delete"} = {} /\ "astray" \notin Windows

\* A step that leaves the table alone, and memory at a row.
LEMMA SameTable ==
    ASSUME IInv, UNCHANGED <<live, parent, next>>,
           leaf' \in Stored \cup {Unset}, mleaf' \in Stored,
           pc' = "commit" => base' \in Stored
    PROVE  IInv'
BY DEF IInv, TableSound, Numbered, Rooted, Acyclic, Anchored, Stored

\* A step that adds to the table.
LEMMA MoreRows ==
    ASSUME IInv, TableSound', Stored \subseteq Stored',
           leaf' \in Stored' \cup {Unset}, mleaf' \in Stored',
           pc' = "commit" => pc = "commit" /\ base' = base
    PROVE  IInv'
BY DEF IInv, Anchored

LEMMA TurnStep ==
    ASSUME IInv, NEW how \in Outcomes, Turn(how)
    PROVE  IInv'
<1> USE DEF IInv, Anchored
<1>1. CASE SendMessage(how)
  <2>1. AppendRow("user", mleaf, how) /\ mleaf' \in {mleaf, next}
        /\ (how # "ok" => mleaf' = mleaf) /\ pc' # "commit"
    BY <1>1 DEF SendMessage
  <2> QED BY <2>1, AppendSound, MoreRows DEF Stored
<1>2. CASE ToolStarts(how)
  <2>1. AppendRow("reply", mleaf, how) /\ mleaf' \in {mleaf, next}
        /\ (how # "ok" => mleaf' = mleaf) /\ pc' # "commit"
    BY <1>2 DEF ToolStarts
  <2> QED BY <2>1, AppendSound, MoreRows DEF Stored
<1>3. CASE CommitReply(how)
  <2>1. CASE UNCHANGED <<table, mleaf>>
    BY <1>3, <2>1, SameTable DEF CommitReply, Over, table
  <2>2. CASE AppendRow("reply", base, how) /\ mleaf' = IF how = "ok" THEN next ELSE mleaf
    <3>1. pc' # "commit" /\ base \in Stored
      BY <1>3 DEF CommitReply, Over
    <3> QED BY <2>2, <3>1, AppendSound, MoreRows DEF Stored
  <2> QED BY <1>3, <2>1, <2>2 DEF CommitReply
<1>4. ASSUME NEW w, Partial(w, how), pc' # "commit"
      PROVE  IInv'
  <2>1. CASE UNCHANGED <<table, mleaf>>
    BY <1>4, <2>1, SameTable DEF table
  <2>2. CASE AppendRow("reply", mleaf, how) /\ mleaf' = IF how = "ok" THEN next ELSE mleaf
    BY <1>4, <2>2, AppendSound, MoreRows DEF Stored
  <2> QED BY <1>4, <2>1, <2>2 DEF Partial
<1>5. CASE Settle(how)
  BY <1>4, <1>5 DEF Settle, Over
<1>6. CASE CutRun(how)
  BY <1>4, <1>6 DEF CutRun, Over
<1>7. CASE CutInRow(how)
  <2>1. AppendRow("reply", mleaf, how) /\ mleaf' = mleaf /\ pc' # "commit"
    BY <1>7 DEF CutInRow, Over, memory
  <2> QED BY <2>1, AppendSound, MoreRows DEF Stored
<1>8. CASE Resume(how)
  <2>1. UNCHANGED table /\ pc' # "commit" /\ (mleaf' = mleaf \/ Reload)
    BY <1>8 DEF Resume, Over, memory
  <2>2. TableSound' /\ Stored' = Stored
    BY <2>1 DEF table, TableSound, Numbered, Rooted, Acyclic, Stored
  <2> QED BY <2>1, <2>2, ReloadStored, SameTable DEF table
<1> QED BY <1>1, <1>2, <1>3, <1>5, <1>6, <1>7, <1>8 DEF Turn

LEMMA CompactPathSound ==
    ASSUME IInv, NEW p, NEW c \in Cuts(p), NEW how, CompactPath(p, c, how)
    PROVE  TableSound' /\ Stored \subseteq Stored' /\ leaf' \in Stored' \cup {Unset}
<1> DEFINE first == p[c]
<1>1. first \in live /\ parent[first] \in Stored
  BY DEF Cuts, IInv, TableSound, Rooted
<1>2. Tip \in Stored
  BY TipIsStored DEF IInv, TableSound
<1> HIDE DEF first
<1>3. CASE AppendRow("summary", parent[first], how)
  BY <1>1, <1>3, AppendSound DEF IInv, Anchored
<1>4. CASE Insert("summary", parent[first]) /\ leaf' = Tip
  BY <1>1, <1>2, <1>4, InsertSound DEF IInv
<1>5. CASE Splice(parent[first], first) /\ leaf' \in {next, Tip}
  <2>1. TableSound' /\ Stored \subseteq Stored' /\ next \in live'
    BY <1>1, <1>5, SpliceSound DEF IInv
  <2> QED BY <1>2, <1>5, <2>1 DEF Stored
<1> QED BY <1>3, <1>4, <1>5 DEF CompactPath, first

LEMMA CompactionStep ==
    ASSUME IInv, NEW how \in Outcomes, Compaction(how)
    PROVE  IInv'
<1>1. PICK p : \E c \in Cuts(p) : CompactSession(p, c, how) \/ CompactRun(p, c, how)
  BY DEF Compaction
<1> PICK c \in Cuts(p) : CompactSession(p, c, how) \/ CompactRun(p, c, how)
  BY <1>1
<1>2. /\ CompactPath(p, c, how) /\ pc' # "commit"
      /\ mleaf' = mleaf \/ Reload
  BY DEF CompactSession, CompactRun, NoReload, Over, memory
<1>3. TableSound' /\ Stored \subseteq Stored' /\ leaf' \in Stored' \cup {Unset}
  BY <1>2, CompactPathSound
<1>4. mleaf' \in Stored'
  BY <1>2, <1>3, ReloadStored DEF IInv, Anchored
<1> QED BY <1>2, <1>3, <1>4, MoreRows

\* Where a fork ends is a row, or before the first.
LEMMA ForkTipStored ==
    ASSUME IInv, NEW t \in live, NEW after
    PROVE  ForkTip(t, after) \in Stored
BY DEF ForkTip, IInv, TableSound, Rooted, Stored

LEMMA ForkStep ==
    ASSUME IInv, NEW how \in Outcomes, Fork(how)
    PROVE  IInv'
<1>1. PICK n \in live \cup {0}, after \in BOOLEAN :
        ForkSession(n, after, how) \/ ForkSummarized(n, after, how)
  BY DEF Fork
<1>2. Targets(n) \subseteq Stored
  BY LastUserIsStored DEF Targets, Stored
<1>3. ASSUME ClearRetry PROVE pc' = "commit" => pc = "commit" /\ base' = base
  BY <1>3 DEF ClearRetry, Over, run
<1>4. CASE ForkSession(n, after, how)
  <2>1. PICK t \in Targets(n) :
          /\ ClearRetry
          /\ leaf' = IF t = 0 \/ how = "leaf" THEN leaf ELSE ForkTip(t, after)
          /\ UNCHANGED <<live, parent, role, next>>
          /\ mleaf' = mleaf \/ Reload
    BY <1>4 DEF ForkSession, NoReload, memory
  <2>2. leaf' \in Stored \cup {Unset}
    BY <1>2, <2>1, ForkTipStored DEF IInv, Anchored, Stored
  <2>3. TableSound' /\ Stored' = Stored
    BY <2>1 DEF IInv, TableSound, Numbered, Rooted, Acyclic, Stored
  <2>4. mleaf' \in Stored
    BY <2>1, <2>3, ReloadStored DEF IInv, Anchored
  <2> QED BY <1>3, <2>1, <2>2, <2>4, SameTable DEF IInv, Anchored
<1>5. CASE ForkSummarized(n, after, how)
  <2>1. PICK t \in Targets(n) :
          /\ t # 0 /\ ClearRetry
          /\ \/ AppendRow("summary", parent[t], how)
             \/ Insert("summary", parent[t]) /\ leaf' = next
             \/ Splice(parent[t], t) /\ leaf' = next
          /\ mleaf' = mleaf \/ Reload
    BY <1>5 DEF ForkSummarized, NoReload, memory
  <2>2. t \in live /\ parent[t] \in Stored
    BY <1>2, <2>1 DEF IInv, TableSound, Rooted, Stored
  <2>3. TableSound' /\ Stored \subseteq Stored' /\ leaf' \in Stored' \cup {Unset}
    <3>1. CASE AppendRow("summary", parent[t], how)
      BY <2>2, <3>1, AppendSound DEF IInv, Anchored
    <3>2. CASE Insert("summary", parent[t]) /\ leaf' = next
      BY <2>2, <3>2, InsertSound DEF IInv, Stored
    <3>3. CASE Splice(parent[t], t) /\ leaf' = next
      BY <2>2, <3>3, SpliceSound DEF IInv, Stored
    <3> QED BY <2>1, <3>1, <3>2, <3>3
  <2>4. mleaf' \in Stored'
    BY <2>1, <2>3, ReloadStored DEF IInv, Anchored
  <2> QED BY <1>3, <2>1, <2>3, <2>4, MoreRows
<1> QED BY <1>1, <1>4, <1>5

\* The one step that takes rows away.
LEMMA DeleteStep ==
    ASSUME IInv, Survivable, NEW how \in Outcomes, Delete(how)
    PROVE  IInv'
<1> PICK m \in live :
      \E d \in Branches(m) : DeleteBranch(m, d, how) \/ (how = "delete" /\ DeleteFails(m, d))
  BY DEF Delete
<1>1. PICK d \in Branches(m) : DeleteBranch(m, d, how) \/ (how = "delete" /\ DeleteFails(m, d))
  OBVIOUS
<1>2. how \notin {"delete", "refresh"}
  BY DEF Survivable, Outcomes
<1>3. DeleteBranch(m, d, how)
  BY <1>1, <1>2
<1>4. pc' # "commit" /\ UNCHANGED <<parent, next>> /\ (mleaf \in d => leaf \in d)
  BY <1>3 DEF DeleteBranch, Over, MayDelete, Survivable
<1>5. CASE how \in {"load", "leaf"}
  BY <1>3, <1>4, <1>5, SameTable DEF DeleteBranch, NoReload, memory, IInv, Anchored
<1>6. CASE how \notin {"load", "leaf"}
  <2>1. /\ live' = live \ d /\ leaf' = IF leaf \in d THEN parent[m] ELSE leaf
        /\ IF leaf \in d THEN Reload ELSE mleaf' = mleaf
    BY <1>2, <1>3, <1>6 DEF DeleteBranch, Rewound, memory
  <2>2. TableSound' /\ parent[m] \in Stored'
    BY <1>4, <2>1, DeleteSound DEF IInv
  <2>3. leaf' \in Stored' \cup {Unset}
    BY <2>1, <2>2 DEF IInv, Anchored, Stored
  <2>4. mleaf' \in Stored'
    BY <1>4, <2>1, <2>2, ReloadStored DEF IInv, Anchored, Stored
  <2> QED BY <1>4, <2>2, <2>3, <2>4 DEF IInv, Anchored
<1> QED BY <1>5, <1>6

LEMMA ResendStep ==
    ASSUME IInv, NEW how \in Outcomes, Resend(how)
    PROVE  IInv'
<1>1. CASE ReplayFork(how)
  <2>1. Fork(how)
    BY <1>1 DEF Resend, ReplayFork, Fork, MayFork
  <2> QED BY <2>1, ForkStep
<1>2. CASE Replay(how)
  <2> DEFINE t == LastUser(ActivePath)
             tip == IF t = 0 THEN Tip ELSE parent[t]
  <2>1. /\ IF how = "insert" THEN UNCHANGED <<live, parent, role, next>>
                             ELSE Insert("user", tip)
        /\ leaf' = IF how = "ok" THEN next ELSE IF t = 0 THEN leaf ELSE tip
        /\ mleaf' = IF how = "ok" THEN next ELSE tip
        /\ pc' = "streaming"
    BY <1>2 DEF Replay
  <2>2. tip \in Stored
    BY <2>1, LastUserIsStored, TipIsStored DEF IInv, TableSound, Rooted, Stored
  <2> HIDE DEF t, tip
  <2>3. CASE how = "insert"
    BY <2>1, <2>2, <2>3, SameTable DEF IInv, Anchored
  <2>4. CASE how # "insert"
    <3>1. TableSound' /\ Stored \subseteq Stored' /\ next \in live'
      BY <2>1, <2>2, <2>4, InsertSound DEF IInv
    <3>2. leaf' \in Stored' \cup {Unset} /\ mleaf' \in Stored'
      BY <2>1, <2>2, <3>1 DEF IInv, Anchored, Stored
    <3> QED BY <2>1, <3>1, <3>2, MoreRows
  <2> QED BY <2>3, <2>4
<1> QED BY <1>1, <1>2 DEF Resend

LEMMA InvStep ==
    ASSUME IInv, Survivable, [Next]_vars
    PROVE  IInv'
<1>1. CASE \E how \in Outcomes : Turn(how) \/ Compaction(how) \/ Rewind(how)
  BY <1>1, TurnStep, CompactionStep, ForkStep, DeleteStep, ResendStep DEF Rewind
<1>2. CASE \E w \in Reasons : Finish(w)
  BY <1>2, SameTable DEF Finish, table, memory, IInv, Anchored
<1>3. CASE BeginCommit
  BY <1>3, SameTable DEF BeginCommit, table, IInv, Anchored
<1>4. CASE NoCompaction \/ Exhausted \/ CancelRetry
  BY <1>4, SameTable DEF NoCompaction, Exhausted, CancelRetry, Over, table, memory,
                         IInv, Anchored
<1>5. CASE LoadSession
  <2>1. UNCHANGED table /\ Reload /\ pc' # "commit"
    BY <1>5 DEF LoadSession, Over
  <2>2. TableSound' /\ Stored' = Stored
    BY <2>1 DEF table, IInv, TableSound, Numbered, Rooted, Acyclic, Stored
  <2> QED BY <2>1, <2>2, ReloadStored, SameTable DEF table, IInv, Anchored
<1>6. CASE UNCHANGED vars
  BY <1>6, SameTable DEF vars, table, memory, run, IInv, Anchored
<1> QED BY <1>1, <1>2, <1>3, <1>4, <1>5, <1>6 DEF Next

LEMMA InvInit == Init => IInv
BY SessionTreeAssumption
   DEF Init, IInv, TableSound, Numbered, Rooted, Acyclic, Anchored, Stored, Ids

(***************************************************************************)
(* The theorem                                                             *)
(***************************************************************************)
\* Whatever writes of turns, forks, compactions, replays and resumes fail,
\* every message hangs from a stored one or from none, none hangs from itself
\* by any chain, and the stored leaf and the one in memory are messages:
\* what Session::from_stored relies on when it walks the tree.
THEOREM TreeSoundSafe ==
    ASSUME Survivable
    PROVE  Spec => []TreeSound
<1>1. IInv => TreeSound
  BY DEF IInv, TableSound, Rooted, Acyclic, Anchored, Stored, TreeSound, EMPTY_LEAF
<1> QED BY <1>1, InvInit, InvStep, PTL DEF Spec

(***************************************************************************)
(* Types                                                                   *)
(***************************************************************************)
TableTyped ==
    /\ live \subseteq Ids /\ parent \in [Ids -> 0..MaxId] /\ role \in [Ids -> Roles]
    /\ leaf \in Ids \cup {EMPTY_LEAF, Unset} /\ next \in 1..MaxId + 1
MemoryTyped ==
    /\ path \in Seq(0..MaxId) /\ mleaf \in 0..MaxId /\ known \in 0..MaxId
    /\ slot \in Nat /\ clean \in BOOLEAN
RunTyped ==
    /\ pc \in Places /\ why \in Reasons /\ row \in 0..MaxId /\ cont \in Nat
    /\ base \in 0..MaxId /\ turn \in 0..MaxId
GhostTyped ==
    /\ turnOf \in [Ids -> 0..MaxId] /\ says \in [Ids -> 0..MaxId]
    /\ covers \in [Ids -> SUBSET Ids]

LEMMA TypesAre ==
    TypeOK <=> TableTyped /\ MemoryTyped /\ RunTyped /\ GhostTyped /\ faults \in 0..MaxFaults
BY DEF TypeOK, TableTyped, MemoryTyped, RunTyped, GhostTyped

LEMMA TypesInit == Init => TypeOK
BY SessionTreeAssumption DEF Init, TypeOK, Ids, Roles, Places, Reasons, EMPTY_LEAF, Unset

\* Where a path ends, and its last message of a kind, are rows or nothing.
LEMMA TipTyped == ASSUME TableTyped PROVE Tip \in live \cup {0} /\ Tip \in 0..MaxId
<1>1. live \subseteq 0..MaxId
  BY SessionTreeAssumption DEF TableTyped, Ids
<1>2. ASSUME live # {} PROVE Max(live) \in live
  BY <1>1, <1>2, GreatestIsIn, SessionTreeAssumption
<1>3. Tip \in live \cup {0}
  BY <1>2 DEF Tip
<1>4. 0 \in 0..MaxId
  BY SessionTreeAssumption
<1> QED BY <1>1, <1>3, <1>4

LEMMA LastPlaceIs ==
    ASSUME NEW S, NEW p \in Seq(S), NEW r
    PROVE  /\ LastPlace(p, r) \in 0..Len(p)
           /\ LastPlace(p, r) = 0 => \A i \in DOMAIN p : ~(p[i] \in live /\ role[p[i]] = r)
           /\ LastPlace(p, r) # 0 => /\ LastPlace(p, r) \in DOMAIN p
                                     /\ p[LastPlace(p, r)] \in live
                                     /\ role[p[LastPlace(p, r)]] = r
<1> DEFINE at == {i \in DOMAIN p : p[i] \in live /\ role[p[i]] = r}
           n == Len(p)
<1>1. n \in Nat /\ DOMAIN p = 1..n
  OBVIOUS
<1>2. LastPlace(p, r) = IF at = {} THEN 0 ELSE Max(at)
  BY DEF LastPlace
<1>3. ASSUME at # {} PROVE Max(at) \in at
  <2>1. at \in SUBSET (0..n)
    BY <1>1
  <2> HIDE DEF at
  <2> QED BY <1>1, <1>3, <2>1, GreatestIsIn
<1>4. CASE at = {}
  BY <1>1, <1>2, <1>4
<1>5. CASE at # {}
  <2> DEFINE m == LastPlace(p, r)
  <2>1. m \in at
    BY <1>2, <1>3, <1>5
  <2> HIDE DEF m, n
  <2>2. m \in 1..n /\ m # 0 /\ p[m] \in live /\ role[p[m]] = r
    BY <1>1, <2>1
  <2> QED BY <1>1, <2>2 DEF m, n
<1> QED BY <1>4, <1>5

LEMMA LastUserTyped ==
    ASSUME TableTyped, NEW S, NEW p \in Seq(S)
    PROVE  LastUser(p) \in live \cup {0} /\ LastUser(p) \in 0..MaxId
<1>1. LastUser(p) = IF LastPlace(p, "user") = 0 THEN 0 ELSE p[LastPlace(p, "user")]
  BY DEF LastUser
<1>2. LastUser(p) \in live \cup {0}
  BY <1>1, LastPlaceIs
<1>3. live \subseteq 0..MaxId /\ 0 \in 0..MaxId
  BY SessionTreeAssumption DEF TableTyped, Ids
<1> QED BY <1>2, <1>3

LEMMA ActiveTyped == ASSUME TableTyped PROVE ActivePath \in Seq(Ids)
BY TipTyped, PathTyped DEF TableTyped, ActivePath

LEMMA LoadedTip == TableTyped => Tip \in 0..MaxId
BY TipTyped

LEMMA LoadedPath == TableTyped /\ mleaf = Tip => PathTo(mleaf) \in Seq(0..MaxId)
<1>1. Seq(Ids) \subseteq Seq(0..MaxId)
  BY SessionTreeAssumption DEF Ids
<1> QED BY <1>1, ActiveTyped DEF ActivePath

LEMMA LoadedUser == TableTyped /\ path \in Seq(0..MaxId) => LastUser(path) \in 0..MaxId
BY LastUserTyped

LEMMA ReloadTyped == ASSUME TableTyped', Reload PROVE MemoryTyped'
<1>1. (TableTyped => Tip \in 0..MaxId)'
  BY LoadedTip, PTL
<1>2. (TableTyped /\ mleaf = Tip => PathTo(mleaf) \in Seq(0..MaxId))'
  BY LoadedPath, PTL
<1>3. (TableTyped /\ path \in Seq(0..MaxId) => LastUser(path) \in 0..MaxId)'
  BY LoadedUser, PTL
<1>4. mleaf' \in 0..MaxId
  BY <1>1 DEF Reload
<1>5. path' \in Seq(0..MaxId)
  BY <1>2 DEF Reload
<1>6. known' \in 0..MaxId
  BY <1>3, <1>5 DEF Reload
<1>7. slot' \in Nat /\ clean' \in BOOLEAN
  BY DEF Reload
<1> QED BY <1>4, <1>5, <1>6, <1>7 DEF MemoryTyped

LEMMA NoReloadTyped == ASSUME MemoryTyped, NoReload PROVE MemoryTyped'
BY DEF NoReload, memory, MemoryTyped

LEMMA FailsTyped ==
    ASSUME faults \in 0..MaxFaults, NEW how \in Outcomes, NEW among, Fails(how, among)
    PROVE  faults' \in 0..MaxFaults
<1>1. CASE how = "ok"
  BY <1>1 DEF Fails
<1>2. CASE how # "ok"
  BY <1>2, SessionTreeAssumption DEF Fails, Outcomes
<1> QED BY <1>1, <1>2

LEMMA OverTyped ==
    ASSUME NEW at \in Places, NEW t \in 0..MaxId, Over(at, t)
    PROVE  RunTyped'
BY SessionTreeAssumption DEF Over, RunTyped, Reasons

LEMMA InsertTyped ==
    ASSUME TableTyped, NEW r \in Roles, NEW p \in 0..MaxId, Insert(r, p)
    PROVE  /\ next \in Ids /\ live' \subseteq Ids /\ next \in live'
           /\ parent' \in [Ids -> 0..MaxId] /\ role' \in [Ids -> Roles]
           /\ next' \in 1..MaxId + 1
BY SessionTreeAssumption DEF TableTyped, Insert, Ids

LEMMA SpliceTyped ==
    ASSUME TableTyped, NEW p \in 0..MaxId, NEW below \in Ids, Splice(p, below)
    PROVE  /\ next \in Ids /\ live' \subseteq Ids /\ next \in live'
           /\ parent' \in [Ids -> 0..MaxId] /\ role' \in [Ids -> Roles]
           /\ next' \in 1..MaxId + 1
BY SessionTreeAssumption DEF TableTyped, Splice, Ids, Roles

LEMMA AppendTyped ==
    ASSUME TableTyped, NEW r \in Roles, NEW p \in 0..MaxId, NEW how, AppendRow(r, p, how)
    PROVE  TableTyped'
<1>1. CASE UNCHANGED table
  BY <1>1 DEF table, TableTyped
<1>2. CASE Insert(r, p) /\ leaf' \in {leaf, next}
  BY <1>2, InsertTyped DEF TableTyped
<1> QED BY <1>1, <1>2 DEF AppendRow

\* The row a turn writes.
LEMMA AnswersTyped ==
    ASSUME GhostTyped, RunTyped, NEW how, Answers(how) \/ turnOf' = turnOf, UNCHANGED <<says, covers>>
    PROVE  GhostTyped'
<1>1. CASE Answers(how)
  <2>1. (IF how = "insert" THEN 0 ELSE turn) \in 0..MaxId
    BY SessionTreeAssumption DEF RunTyped
  <2> QED BY <1>1, <2>1 DEF Answers, GhostTyped
<1>2. CASE turnOf' = turnOf
  BY <1>2 DEF GhostTyped
<1> QED BY <1>1, <1>2

LEMMA WithReplyTyped ==
    ASSUME MemoryTyped, NEW r \in 0..MaxId
    PROVE  WithReply(r) \in Seq(0..MaxId)
<1>1. path \in Seq(0..MaxId)
  BY DEF MemoryTyped
<1>2. Append(path, r) \in Seq(0..MaxId)
  <2> DEFINE S == 0..MaxId
  <2>1. path \in Seq(S) /\ r \in S
    BY <1>1
  <2> HIDE DEF S
  <2>2. Append(path, r) \in Seq(S)
    BY <2>1
  <2> QED BY <2>2 DEF S
<1> QED BY <1>1, <1>2 DEF WithReply

\* One place of a sequence is given another value.
LEMMA PlaceTyped ==
    ASSUME NEW S, NEW p \in Seq(S), NEW i, NEW e \in S
    PROVE  /\ [p EXCEPT ![i] = e] \in Seq(S)
           /\ Len([p EXCEPT ![i] = e]) = Len(p)
           /\ \A j \in 1..Len(p) : [p EXCEPT ![i] = e][j] = IF j = i THEN e ELSE p[j]
<1> DEFINE q == [j \in 1..Len(p) |-> IF j = i THEN e ELSE p[j]]
<1>1. Len(p) \in Nat /\ DOMAIN p = 1..Len(p) /\ \A j \in 1..Len(p) : p[j] \in S
  OBVIOUS
<1>2. q \in Seq(S) /\ Len(q) = Len(p) /\ \A j \in 1..Len(p) : q[j] = IF j = i THEN e ELSE p[j]
  BY <1>1
<1>3. [p EXCEPT ![i] = e] = q
  BY <1>1
<1> HIDE DEF q
<1> QED BY <1>2, <1>3

LEMMA PartialTyped ==
    ASSUME TypeOK, NEW how \in Outcomes, NEW w, Partial(w, how),
           UNCHANGED <<known, slot, says, covers>>
    PROVE  TableTyped' /\ MemoryTyped' /\ GhostTyped' /\ faults' \in 0..MaxFaults
<1> USE TypesAre, SessionTreeAssumption
<1>1. row \in 0..MaxId /\ mleaf \in 0..MaxId /\ 0 \in 0..MaxId
  BY DEF RunTyped, MemoryTyped
<1>2. CASE UNCHANGED <<table, mleaf, turnOf, faults, clean>>
  <2>1. path' = path \/ path' = WithReply(row) \/ path' = WithReply(0)
    <3>1. CASE row = 0 /\ AppendRow("reply", mleaf, how) /\ next \in Ids
               /\ IF how = "ok"
                  THEN mleaf' = next /\ path' = WithReply(next) /\ UNCHANGED clean
                  ELSE /\ UNCHANGED mleaf /\ clean' = FALSE
                       /\ path' = IF w = "cut" THEN path ELSE WithReply(0)
      <4>1. how # "ok"
        BY <1>2, <3>1 DEF AppendRow, Insert, table, TableTyped
      <4> QED BY <3>1, <4>1
    <3> QED BY <3>1 DEF Partial
  <2>2. path' \in Seq(0..MaxId)
    BY <1>1, <2>1, WithReplyTyped DEF MemoryTyped
  <2> QED BY <1>2, <2>2 DEF TableTyped, MemoryTyped, GhostTyped, table
<1>3. CASE /\ next \in Ids /\ Fails(how, {"insert", "leaf"})
           /\ AppendRow("reply", mleaf, how)
           /\ Answers(how)
           /\ IF how = "ok"
              THEN mleaf' = next /\ path' = WithReply(next) /\ UNCHANGED clean
              ELSE /\ UNCHANGED mleaf /\ clean' = FALSE
                   /\ path' = IF w = "cut" THEN path ELSE WithReply(0)
  <2>1. TableTyped' /\ faults' \in 0..MaxFaults /\ GhostTyped'
    BY <1>1, <1>3, AppendTyped, FailsTyped, AnswersTyped DEF Roles
  <2>2. next \in 0..MaxId
    BY <1>3 DEF Ids
  <2>3. path' \in Seq(0..MaxId)
    BY <1>1, <1>3, <2>2, WithReplyTyped DEF MemoryTyped
  <2>4. MemoryTyped'
    BY <1>3, <2>2, <2>3 DEF MemoryTyped
  <2> QED BY <2>1, <2>4
<1> QED BY <1>2, <1>3 DEF Partial

LEMMA TurnTyped ==
    ASSUME TypeOK, NEW how \in Outcomes, Turn(how)
    PROVE  TypeOK'
<1> USE TypesAre, SessionTreeAssumption
<1>0. /\ row \in 0..MaxId /\ mleaf \in 0..MaxId /\ base \in 0..MaxId /\ turn \in 0..MaxId
      /\ 0 \in 0..MaxId /\ "idle" \in Places /\ "failed" \in Places
  BY DEF RunTyped, MemoryTyped, Places
<1>t. (TypeOK <=> TableTyped /\ MemoryTyped /\ RunTyped /\ GhostTyped /\ faults \in 0..MaxFaults)'
  BY TypesAre, PTL
<1>1. CASE SendMessage(how)
  <2>1. TableTyped' /\ faults' \in 0..MaxFaults
    BY <1>0, <1>1, AppendTyped, FailsTyped DEF SendMessage, Roles
  <2>2. next \in 0..MaxId
    BY <1>1 DEF SendMessage, Ids
  <2>3. path' \in Seq(0..MaxId)
    BY <1>0, <1>1, <2>2 DEF SendMessage, MemoryTyped
  <2>4. MemoryTyped' /\ RunTyped'
    <3>1. CASE how = "ok"
      <4>1. /\ mleaf' = next /\ turn' = next /\ pc' = "streaming"
            /\ row' = 0 /\ cont' = 0 /\ clean' = clean /\ UNCHANGED <<known, why, base, slot>>
        BY <1>1, <3>1 DEF SendMessage
      <4> QED BY <1>0, <2>2, <2>3, <4>1 DEF MemoryTyped, RunTyped, Places
    <3>2. CASE how # "ok"
      <4>1. clean' = FALSE /\ UNCHANGED <<mleaf, turn, pc, row, cont, known, why, base, slot>>
        BY <1>1, <3>2 DEF SendMessage
      <4> QED BY <2>3, <4>1 DEF MemoryTyped, RunTyped
    <3> QED BY <3>1, <3>2
  <2>5. GhostTyped'
    BY <1>1, <2>2 DEF SendMessage, GhostTyped
  <2> QED BY <1>t, <2>1, <2>4, <2>5
<1>2. CASE ToolStarts(how)
  <2>1. TableTyped' /\ faults' \in 0..MaxFaults /\ GhostTyped'
    BY <1>0, <1>2, AppendTyped, FailsTyped, AnswersTyped DEF ToolStarts, Roles
  <2>2. next \in 0..MaxId
    BY <1>2 DEF ToolStarts, Ids
  <2>3. MemoryTyped' /\ RunTyped'
    BY <1>2, <2>2 DEF ToolStarts, MemoryTyped, RunTyped
  <2> QED BY <1>t, <2>1, <2>3
<1>3. CASE CommitReply(how)
  <2>1. RunTyped' /\ slot' = 0 /\ UNCHANGED <<known, says, covers>>
    BY <1>0, <1>3, OverTyped DEF CommitReply
  <2>2. CASE UNCHANGED <<table, path, mleaf, turnOf, faults, clean>>
    BY <1>t, <2>1, <2>2 DEF TableTyped, MemoryTyped, GhostTyped, table
  <2>3. CASE /\ next \in Ids /\ Fails(how, {"insert", "leaf"})
             /\ AppendRow("reply", base, how) /\ Answers(how)
             /\ IF how = "ok"
                THEN /\ mleaf' = next /\ UNCHANGED clean
                     /\ path' = IF slot = 0 THEN path ELSE [path EXCEPT ![slot] = next]
                ELSE clean' = FALSE /\ UNCHANGED <<path, mleaf>>
    <3>1. TableTyped' /\ faults' \in 0..MaxFaults /\ GhostTyped'
      BY <1>0, <2>1, <2>3, AppendTyped, FailsTyped, AnswersTyped DEF Roles
    <3>2. next \in 0..MaxId
      BY <2>3 DEF Ids
    <3>3. [path EXCEPT ![slot] = next] \in Seq(0..MaxId)
      BY <3>2, PlaceTyped DEF MemoryTyped
    <3>4. path' \in Seq(0..MaxId)
      BY <2>3, <3>3 DEF MemoryTyped
    <3>5. MemoryTyped'
      BY <2>1, <2>3, <3>2, <3>4 DEF MemoryTyped
    <3> QED BY <1>t, <2>1, <3>1, <3>5
  <2> QED BY <1>3, <2>2, <2>3 DEF CommitReply
<1>4. CASE Settle(how)
  <2>1. TableTyped' /\ MemoryTyped' /\ GhostTyped' /\ faults' \in 0..MaxFaults
    BY <1>4, PartialTyped DEF Settle
  <2>2. Over("idle", 0) \/ Over("failed", turn) \/ (pc' = "compact" /\ UNCHANGED run)
    BY <1>4 DEF Settle
  <2>3. RunTyped'
    BY <1>0, <2>2, OverTyped DEF RunTyped, run, Places
  <2> QED BY <1>t, <2>1, <2>3
<1>5. CASE CutRun(how)
  BY <1>0, <1>t, <1>5, PartialTyped, OverTyped DEF CutRun
<1>6. CASE CutInRow(how)
  <2>1. TableTyped' /\ GhostTyped' /\ RunTyped'
    BY <1>0, <1>6, AppendTyped, AnswersTyped, OverTyped DEF CutInRow, Roles
  <2>2. MemoryTyped' /\ faults' = faults
    BY <1>6 DEF CutInRow, MemoryTyped, memory
  <2> QED BY <1>t, <2>1, <2>2
<1>7. CASE Resume(how)
  <2>1. UNCHANGED <<table, ghost>> /\ faults' \in 0..MaxFaults
    BY <1>7, FailsTyped DEF Resume
  <2>2. TableTyped' /\ GhostTyped'
    BY <2>1 DEF table, ghost, TableTyped, GhostTyped
  <2>3. CASE Over("idle", 0) /\ clean' = (clean /\ how = "ok") /\ UNCHANGED <<memory, slot>>
    BY <1>0, <1>t, <2>1, <2>2, <2>3, OverTyped DEF MemoryTyped, memory
  <2>4. CASE /\ Reload /\ pc' = "streaming"
             /\ row' \in {Tip, 0} /\ cont' \in {Len(ActivePath), 0}
             /\ UNCHANGED <<why, base, turn>>
    <3>1. Tip \in 0..MaxId /\ Len(ActivePath) \in Nat
      BY TipTyped, ActiveTyped
    <3>2. RunTyped'
      BY <1>0, <2>4, <3>1 DEF RunTyped, Places
    <3> QED BY <1>t, <2>1, <2>2, <2>4, <3>2, ReloadTyped
  <2> QED BY <1>7, <2>3, <2>4 DEF Resume
<1> QED BY <1>1, <1>2, <1>3, <1>4, <1>5, <1>6, <1>7 DEF Turn

LEMMA CoveredTyped ==
    ASSUME GhostTyped, NEW ms \in SUBSET Ids
    PROVE  Covered(ms) \in SUBSET Ids
BY DEF Covered, GhostTyped

LEMMA SummaryTyped ==
    ASSUME GhostTyped, NEW ms \in SUBSET Ids, covers' = [covers EXCEPT ![next] = Covered(ms)],
           UNCHANGED <<turnOf, says>>
    PROVE  GhostTyped'
BY CoveredTyped DEF GhostTyped

LEMMA StoredPathTyped == ASSUME TableTyped PROVE StoredPath \in Seq(Ids)
<1>1. ActivePath \in Seq(Ids)
  BY ActiveTyped
<1>2. ActivePath # <<>> => Tail(ActivePath) \in Seq(Ids)
  BY <1>1
<1> QED BY <1>1, <1>2 DEF StoredPath

\* The tail that is kept starts at a row, behind the summarized ones.
LEMMA CutsTyped ==
    ASSUME NEW p \in Seq(Ids), NEW c \in Cuts(p)
    PROVE  /\ Start(p) \in DOMAIN p /\ c \in DOMAIN p /\ c - 1 \in DOMAIN p
           /\ Start(p) <= c - 1 /\ p[c] \in live
           /\ Start(p) = IF LastPlace(p, "summary") = 0 THEN 1 ELSE LastPlace(p, "summary")
           /\ Span(p, c) = {p[i] : i \in Start(p)..c - 1} /\ Span(p, c) \in SUBSET Ids
<1> DEFINE l == LastPlace(p, "summary")
<1>1. l \in 0..Len(p) /\ Len(p) \in Nat /\ DOMAIN p = 1..Len(p)
  BY LastPlaceIs
<1> HIDE DEF l
<1>2. Max({1, l}) = IF l = 0 THEN 1 ELSE l
  <2> DEFINE S == {1, l}
  <2>1. S \in SUBSET (0..Len(p) + 1) /\ Len(p) + 1 \in Nat
    BY <1>1
  <2>2. \E x \in S : \A y \in S : y <= x
    BY <1>1
  <2>3. Max(S) \in S /\ \A y \in S : y <= Max(S)
    <3> HIDE DEF S
    <3> QED BY <2>2 DEF Max
  <2> QED BY <1>1, <2>3
<1>3. Start(p) = IF l = 0 THEN 1 ELSE l
  BY <1>2 DEF Start, l
<1>4. c \in Start(p) + 1..Len(p) /\ p[c] \in live
  BY DEF Cuts
<1>5. /\ Start(p) \in DOMAIN p /\ c \in DOMAIN p /\ c - 1 \in DOMAIN p
      /\ Start(p) <= c - 1
  BY <1>1, <1>3, <1>4
<1>6. Span(p, c) = {p[i] : i \in Start(p)..c - 1}
  BY DEF Span
<1>7. \A i \in Start(p)..c - 1 : p[i] \in Ids
  BY <1>1, <1>3, <1>4
<1> QED BY <1>3, <1>4, <1>5, <1>6, <1>7 DEF l

LEMMA CompactionTyped ==
    ASSUME TypeOK, NEW how \in Outcomes, Compaction(how)
    PROVE  TypeOK'
<1> USE TypesAre, SessionTreeAssumption
<1>t. (TypeOK <=> TableTyped /\ MemoryTyped /\ RunTyped /\ GhostTyped /\ faults \in 0..MaxFaults)'
  BY TypesAre, PTL
<1> DEFINE p == StoredPath
<1>1. PICK c \in Cuts(p) : CompactSession(p, c, how) \/ CompactRun(p, c, how)
  BY DEF Compaction
<1>2. p \in Seq(Ids)
  BY StoredPathTyped
<1> HIDE DEF p
<1> DEFINE first == p[c]
<1>3. first \in live /\ first \in Ids /\ parent[first] \in 0..MaxId /\ Span(p, c) \in SUBSET Ids
  BY <1>2, CutsTyped DEF TableTyped
<1>4. CompactPath(p, c, how) /\ UNCHANGED <<turnOf, says>> /\ next \in Ids
  BY <1>1 DEF CompactSession, CompactRun
<1>5. faults' \in 0..MaxFaults
  BY <1>1, FailsTyped DEF CompactSession, CompactRun
<1>6. covers' = [covers EXCEPT ![next] = Covered(Span(p, c))]
  BY <1>4 DEF CompactPath
<1>7. GhostTyped'
  BY <1>3, <1>4, <1>6, SummaryTyped
<1>8. TableTyped'
  <2> HIDE DEF first
  <2>1. CASE AppendRow("summary", parent[first], how)
    BY <1>3, <2>1, AppendTyped DEF Roles
  <2>2. CASE Insert("summary", parent[first]) /\ leaf' = Tip
    <3>1. "summary" \in Roles
      BY DEF Roles
    <3>2. live \subseteq live'
      BY <2>2 DEF Insert
    <3> QED BY <1>3, <2>2, <3>1, <3>2, InsertTyped, TipTyped DEF TableTyped, EMPTY_LEAF
  <2>3. CASE Splice(parent[first], first) /\ leaf' \in {next, Tip}
    <3>2. live \subseteq live'
      BY <2>3 DEF Splice
    <3> QED BY <1>3, <1>4, <2>3, <3>2, SpliceTyped, TipTyped DEF TableTyped, EMPTY_LEAF
  <2> QED BY <1>4, <2>1, <2>2, <2>3 DEF CompactPath, first
<1>9. CASE CompactSession(p, c, how)
  <2>1. MemoryTyped'
    BY <1>8, <1>9, ReloadTyped, NoReloadTyped DEF CompactSession
  <2>2. RunTyped'
    BY <1>9 DEF CompactSession, RunTyped
  <2> QED BY <1>t, <1>5, <1>7, <1>8, <2>1, <2>2
<1>10. CASE CompactRun(p, c, how)
  <2>1. MemoryTyped'
    BY <1>10 DEF CompactRun, MemoryTyped, memory
  <2>2. turn \in 0..MaxId /\ 0 \in 0..MaxId /\ "idle" \in Places /\ "spliced" \in Places
    BY DEF RunTyped, Places
  <2>3. RunTyped'
    BY <1>10, <2>2, OverTyped DEF CompactRun
  <2> QED BY <1>t, <1>5, <1>7, <1>8, <2>1, <2>3
<1> QED BY <1>1, <1>9, <1>10

LEMMA ForkTyped ==
    ASSUME TypeOK, NEW how \in Outcomes, NEW n \in live \cup {0}, NEW after \in BOOLEAN,
           ForkSession(n, after, how) \/ ForkSummarized(n, after, how)
    PROVE  TypeOK'
<1> USE TypesAre, SessionTreeAssumption
<1>t. (TypeOK <=> TableTyped /\ MemoryTyped /\ RunTyped /\ GhostTyped /\ faults \in 0..MaxFaults)'
  BY TypesAre, PTL
<1>1. \A t \in Targets(n) : t \in live \cup {0}
  BY ActiveTyped, LastUserTyped DEF Targets
<1>2. \A t \in live : ForkTip(t, after) \in 0..MaxId /\ parent[t] \in 0..MaxId /\ t \in Ids
  BY DEF ForkTip, TableTyped, Ids
<1>3. ASSUME ClearRetry PROVE RunTyped'
  <2>1. 0 \in 0..MaxId /\ "idle" \in Places
    BY DEF Places
  <2>2. CASE Over("idle", 0)
    BY <2>1, <2>2, OverTyped
  <2>3. CASE UNCHANGED <<pc, run>>
    BY <2>3 DEF run, RunTyped
  <2> QED BY <1>3, <2>2, <2>3 DEF ClearRetry
<1>4. CASE ForkSession(n, after, how)
  <2>1. PICK t \in Targets(n) :
          /\ ClearRetry /\ Fails(how, {"leaf", "load"})
          /\ leaf' = IF t = 0 \/ how = "leaf" THEN leaf ELSE ForkTip(t, after)
          /\ UNCHANGED <<live, parent, role, next, ghost>>
          /\ IF how = "ok" THEN Reload ELSE NoReload
    BY <1>4 DEF ForkSession
  <2>2. t # 0 => ForkTip(t, after) \in Ids \cup {EMPTY_LEAF}
    BY <1>1, <1>2 DEF EMPTY_LEAF, Ids
  <2>3. TableTyped' /\ GhostTyped'
    BY <2>1, <2>2 DEF TableTyped, GhostTyped, ghost
  <2>4. MemoryTyped'
    BY <2>1, <2>3, ReloadTyped, NoReloadTyped
  <2> QED BY <1>t, <1>3, <2>1, <2>3, <2>4, FailsTyped
<1>5. CASE ForkSummarized(n, after, how)
  <2>1. PICK t \in Targets(n) :
          /\ t # 0 /\ next \in Ids
          /\ ClearRetry /\ Fails(how, {"insert", "leaf", "reparent", "load"})
          /\ \/ AppendRow("summary", parent[t], how)
             \/ Insert("summary", parent[t]) /\ leaf' = next
             \/ Splice(parent[t], t) /\ leaf' = next
          /\ covers' = [covers EXCEPT ![next] = Covered(Range(PathTo(ForkTip(t, after))))]
          /\ UNCHANGED <<turnOf, says>>
          /\ IF how = "ok" THEN Reload ELSE NoReload
    BY <1>5 DEF ForkSummarized
  <2>2. t \in live /\ t \in Ids /\ parent[t] \in 0..MaxId /\ ForkTip(t, after) \in 0..MaxId
    BY <1>1, <1>2, <2>1
  <2>3. Range(PathTo(ForkTip(t, after))) \in SUBSET Ids
    <3>1. PathTo(ForkTip(t, after)) \in Seq(Ids)
      BY <2>2, PathTyped DEF TableTyped
    <3> QED BY <3>1 DEF Range
  <2>4. GhostTyped'
    BY <2>1, <2>3, SummaryTyped
  <2>5. TableTyped'
    <3>1. "summary" \in Roles
      BY DEF Roles
    <3>2. CASE AppendRow("summary", parent[t], how)
      BY <2>2, <3>1, <3>2, AppendTyped
    <3>3. CASE Insert("summary", parent[t]) /\ leaf' = next
      BY <2>2, <3>1, <3>3, InsertTyped DEF TableTyped
    <3>4. CASE Splice(parent[t], t) /\ leaf' = next
      BY <2>2, <3>4, SpliceTyped DEF TableTyped
    <3> QED BY <2>1, <3>2, <3>3, <3>4
  <2>6. MemoryTyped'
    BY <2>1, <2>5, ReloadTyped, NoReloadTyped
  <2> QED BY <1>t, <1>3, <2>1, <2>4, <2>5, <2>6, FailsTyped
<1> QED BY <1>4, <1>5

LEMMA DeleteTyped ==
    ASSUME TypeOK, NEW how \in Outcomes, Delete(how)
    PROVE  TypeOK'
<1> USE TypesAre, SessionTreeAssumption
<1>t. (TypeOK <=> TableTyped /\ MemoryTyped /\ RunTyped /\ GhostTyped /\ faults \in 0..MaxFaults)'
  BY TypesAre, PTL
<1>1. PICK m \in live : \E d \in Branches(m) :
        DeleteBranch(m, d, how) \/ (how = "delete" /\ DeleteFails(m, d))
  BY DEF Delete
<1>2. PICK d \in Branches(m) : DeleteBranch(m, d, how) \/ (how = "delete" /\ DeleteFails(m, d))
  BY <1>1
<1>3. parent[m] \in Ids \cup {EMPTY_LEAF} /\ d \in SUBSET live
  BY DEF TableTyped, Branches, Ids, EMPTY_LEAF
<1>4. /\ Over("idle", 0) /\ UNCHANGED <<parent, role, next, ghost>>
      /\ live' \subseteq live /\ leaf' \in {leaf, parent[m]}
      /\ Reload \/ NoReload \/ UNCHANGED <<memory, slot, clean>>
      /\ \E among : Fails(how, among)
  <2>1. CASE DeleteBranch(m, d, how)
    BY <2>1 DEF DeleteBranch, Rewound
  <2>2. CASE how = "delete" /\ DeleteFails(m, d)
    <3>1. PICK gone \in SUBSET d : live' = live \ gone
      BY <2>2 DEF DeleteFails
    <3> QED BY <2>2, <3>1 DEF DeleteFails, Rewound
  <2> QED BY <1>2, <2>1, <2>2
<1>5. TableTyped' /\ GhostTyped'
  BY <1>3, <1>4 DEF TableTyped, GhostTyped, ghost
<1>6. MemoryTyped'
  <2>1. CASE UNCHANGED <<memory, slot, clean>>
    BY <2>1 DEF MemoryTyped, memory
  <2> QED BY <1>4, <1>5, <2>1, ReloadTyped, NoReloadTyped
<1>7. RunTyped'
  <2>1. 0 \in 0..MaxId /\ "idle" \in Places
    BY DEF Places
  <2> QED BY <1>4, <2>1, OverTyped
<1> QED BY <1>t, <1>4, <1>5, <1>6, <1>7, FailsTyped

LEMMA ResendTyped ==
    ASSUME TypeOK, NEW how \in Outcomes, Resend(how)
    PROVE  TypeOK'
<1> USE TypesAre, SessionTreeAssumption
<1>t. (TypeOK <=> TableTyped /\ MemoryTyped /\ RunTyped /\ GhostTyped /\ faults \in 0..MaxFaults)'
  BY TypesAre, PTL
<1>1. CASE ReplayFork(how)
  BY <1>1, ForkTyped DEF ReplayFork
<1>2. CASE Replay(how)
  <2> DEFINE t == LastUser(ActivePath)
             tip == IF t = 0 THEN Tip ELSE parent[t]
  <2>1. /\ IF how = "insert" THEN UNCHANGED <<live, parent, role, next>>
                             ELSE Insert("user", tip)
        /\ leaf' = IF how = "ok" THEN next ELSE IF t = 0 THEN leaf ELSE tip
        /\ path' = Append(PathTo(tip), IF how = "ok" THEN next ELSE 0)
        /\ mleaf' = IF how = "ok" THEN next ELSE tip
        /\ known' = LastUser(PathTo(tip))
        /\ known # 0 /\ next \in Ids /\ Fails(how, {"insert", "leaf"})
        /\ says' = [says EXCEPT ![next] = says[known]]
        /\ pc' = "streaming" /\ turn' = (IF how = "ok" THEN next ELSE 0)
        /\ row' = 0 /\ cont' = 0 /\ slot' = 0 /\ clean' = (how = "ok")
        /\ UNCHANGED <<why, base, turnOf, covers>>
    BY <1>2 DEF Replay
  <2>2. t \in live \cup {0} /\ t \in 0..MaxId /\ tip \in 0..MaxId
    <3>1. t \in live \cup {0} /\ t \in 0..MaxId
      BY ActiveTyped, LastUserTyped
    <3>2. t # 0 => parent[t] \in 0..MaxId
      BY <3>1 DEF TableTyped
    <3>3. Tip \in 0..MaxId
      BY TipTyped
    <3> HIDE DEF t
    <3> QED BY <3>1, <3>2, <3>3
  <2>3. PathTo(tip) \in Seq(Ids)
    <3> HIDE DEF tip
    <3> QED BY <2>2, PathTyped DEF TableTyped
  <2> HIDE DEF t, tip
  <2>4. PathTo(tip) \in Seq(0..MaxId) /\ next \in 0..MaxId /\ 0 \in 0..MaxId
    <3>1. Seq(Ids) \subseteq Seq(0..MaxId)
      BY DEF Ids
    <3> QED BY <2>1, <2>3, <3>1 DEF Ids
  <2>5. TableTyped'
    <3>1. CASE how = "insert"
      BY <2>1, <2>2, <3>1 DEF TableTyped, Ids, EMPTY_LEAF
    <3>2. CASE how # "insert"
      <4>1. "user" \in Roles
        BY DEF Roles
      <4>2. tip \in Ids \cup {EMPTY_LEAF}
        BY <2>2 DEF Ids, EMPTY_LEAF
      <4> QED BY <2>1, <2>2, <3>2, <4>1, <4>2, InsertTyped DEF TableTyped
    <3> QED BY <3>1, <3>2
  <2>6. path' \in Seq(0..MaxId)
    <3> DEFINE q == PathTo(tip)
               e == IF how = "ok" THEN next ELSE 0
               S == 0..MaxId
    <3>1. q \in Seq(S) /\ e \in S /\ path' = Append(q, e)
      BY <2>1, <2>4
    <3> HIDE DEF q, e, S
    <3>2. path' \in Seq(S)
      BY <3>1
    <3> QED BY <3>2 DEF S
  <2>7. MemoryTyped'
    <3>1. known' \in 0..MaxId
      BY <2>1, <2>3, LastUserTyped
    <3> QED BY <2>1, <2>2, <2>4, <2>6, <3>1 DEF MemoryTyped
  <2>8. RunTyped'
    BY <2>1, <2>4 DEF RunTyped, Places
  <2>9. GhostTyped'
    <3>1. says[known] \in 0..MaxId
      BY <2>1 DEF GhostTyped, MemoryTyped, Ids
    <3> QED BY <2>1, <3>1 DEF GhostTyped
  <2> QED BY <1>t, <2>1, <2>5, <2>7, <2>8, <2>9, FailsTyped
<1> QED BY <1>1, <1>2 DEF Resend

LEMMA TypesStep ==
    ASSUME TypeOK, [Next]_vars
    PROVE  TypeOK'
<1> USE TypesAre, SessionTreeAssumption
<1>t. (TypeOK <=> TableTyped /\ MemoryTyped /\ RunTyped /\ GhostTyped /\ faults \in 0..MaxFaults)'
  BY TypesAre, PTL
<1>0. 0 \in 0..MaxId /\ "idle" \in Places
  BY DEF Places
<1>1. CASE \E how \in Outcomes : Turn(how) \/ Compaction(how) \/ Rewind(how)
  <2> PICK how \in Outcomes : Turn(how) \/ Compaction(how) \/ Rewind(how)
    BY <1>1
  <2>1. CASE Fork(how)
    <3>1. PICK n \in live \cup {0}, after \in BOOLEAN :
            ForkSession(n, after, how) \/ ForkSummarized(n, after, how)
      BY <2>1 DEF Fork
    <3> QED BY <3>1, ForkTyped
  <2> QED BY <2>1, TurnTyped, CompactionTyped, DeleteTyped, ResendTyped DEF Rewind
<1>2. CASE \E w \in Reasons : Finish(w)
  BY <1>2 DEF Finish, TypeOK, table, memory, ghost, Places
<1>3. CASE BeginCommit
  <2>1. /\ path' = WithReply(row) /\ base' = mleaf /\ pc' = "commit"
        /\ slot' = IF row = 0 THEN Len(path') ELSE 0
        /\ UNCHANGED <<table, mleaf, known, why, row, cont, turn, ghost, faults, clean>>
    BY <1>3 DEF BeginCommit
  <2>2. path' \in Seq(0..MaxId)
    BY <2>1, WithReplyTyped DEF RunTyped
  <2>3. slot' \in Nat
    BY <2>1, <2>2
  <2> QED BY <1>t, <2>1, <2>2, <2>3
          DEF TableTyped, MemoryTyped, RunTyped, GhostTyped, table, ghost, Places
<1>4. CASE NoCompaction \/ Exhausted \/ CancelRetry
  <2>1. Over("idle", 0) /\ UNCHANGED <<table, memory, slot, ghost, faults, clean>>
    BY <1>4 DEF NoCompaction, Exhausted, CancelRetry
  <2> QED BY <1>t, <1>0, <2>1, OverTyped
          DEF TableTyped, MemoryTyped, GhostTyped, table, memory, ghost
<1>5. CASE LoadSession
  <2>1. Over("idle", 0) /\ UNCHANGED <<table, ghost, faults>> /\ Reload
    BY <1>5 DEF LoadSession
  <2>2. TableTyped' /\ GhostTyped' /\ faults' \in 0..MaxFaults
    BY <2>1 DEF TableTyped, GhostTyped, table, ghost
  <2> QED BY <1>t, <1>0, <2>1, <2>2, OverTyped, ReloadTyped
<1>6. CASE UNCHANGED vars
  BY <1>6 DEF vars, TypeOK, table, memory, run, ghost
<1> QED BY <1>1, <1>2, <1>3, <1>4, <1>5, <1>6 DEF Next

\* Every variable stays in its range, whatever fails.
THEOREM TypeCorrect == Spec => []TypeOK
BY TypesInit, TypesStep, PTL DEF Spec

\* What every step starts from and ends in.
Base == TypeOK /\ IInv

LEMMA BaseHolds == ASSUME Survivable PROVE Spec => []Base
<1>1. Init => Base
  BY TypesInit, InvInit DEF Base
<1>2. Base /\ [Next]_vars => Base'
  BY TypesStep, InvStep DEF Base
<1> QED BY <1>1, <1>2, PTL DEF Spec

LEMMA BaseSound == Base => TableSound /\ TableTyped /\ Anchored
BY TypesAre DEF Base, IInv

\* A stored leaf is where the path ends.
LEMMA LeafIsTip == TableSound /\ leaf \in live => Tip = leaf
<1>1. TableSound => 0 \notin live
  BY Routes
<1> QED BY <1>1 DEF Tip, EMPTY_LEAF

\* The active path ends at the new row, and keeps what was on it.
LEMMA AppendedPath ==
    ASSUME TableSound, NEW r, NEW q \in Stored, Insert(r, q), leaf' = next
    PROVE  /\ Tip' = next /\ ActivePath' = Append(Route[q], next)
           /\ q = Tip => /\ ActivePath' = Append(ActivePath, next)
                         /\ Range(ActivePath) \subseteq Range(ActivePath')
           /\ next \in Range(ActivePath') /\ next \in live' /\ live \subseteq live'
<1>1. /\ TableSound' /\ next \notin Stored /\ Stored' = Stored \cup {next}
      /\ Route'[next] = Append(Route[q], next)
  BY InsertRoutes
<1>2. next \in live' /\ live \subseteq live'
  BY DEF Insert
<1>3. (TableSound /\ leaf \in live => Tip = leaf)'
  BY LeafIsTip, PTL
<1>4. Tip' = next
  BY <1>1, <1>2, <1>3
<1>5. ActivePath' = Append(Route[q], next)
  BY <1>1, <1>4, RoutesNext
<1>6. ActivePath = Route[Tip] /\ Chain(Route[q], q, live, parent)
  BY Routes
<1> DEFINE p == Route[q]
<1>7. next \in Range(Append(p, next)) /\ Range(p) \subseteq Range(Append(p, next))
  <2>1. p \in Seq(live) /\ Range(p) = {p[i] : i \in DOMAIN p}
    BY <1>6 DEF Chain, Range
  <2> HIDE DEF p
  <2>2. /\ Range(Append(p, next)) = {Append(p, next)[i] : i \in DOMAIN Append(p, next)}
        /\ DOMAIN p = 1..Len(p) /\ Len(p) \in Nat
        /\ DOMAIN Append(p, next) = 1..Len(p) + 1
        /\ Append(p, next)[Len(p) + 1] = next
        /\ \A i \in 1..Len(p) : Append(p, next)[i] = p[i]
    BY <2>1 DEF Range
  <2> QED BY <2>1, <2>2
<1> QED BY <1>2, <1>4, <1>5, <1>6, <1>7 DEF p

\* It stays while the table does.
LEMMA SamePath ==
    ASSUME TableSound, UNCHANGED table
    PROVE  ActivePath' = ActivePath /\ Tip' = Tip
<1>1. Tip' = Tip
  BY DEF Tip, table
<1>2. TableSound' /\ \A m \in Stored : Route'[m] = Route[m]
  BY SameRoutes DEF table
<1> QED BY <1>1, <1>2, Routes, RoutesNext

(***************************************************************************)
(* Memory and store                                                        *)
(***************************************************************************)
\* The path in memory while a reply is written: all but the row of the reply,
\* if that has one and does not go on in the last message of the path.
Writing ==
    \/ row = 0 /\ cont = 0 /\ path = ActivePath
    \/ row # 0 /\ cont = 0 /\ ActivePath = Append(path, row)
    \/ row # 0 /\ cont # 0 /\ cont = Len(path) /\ path = ActivePath

Prompted == \E m \in Range(ActivePath) : m \in live /\ role[m] = "user"

Loaded == path = ActivePath /\ mleaf = Tip

\* While a commit waits for its row memory is ahead of the store by the
\* message it will be.
Committing ==
    /\ mleaf = Tip /\ base = Tip
    /\ row # 0 => path = ActivePath
    /\ row = 0 => path = Append(ActivePath, 0) /\ slot = Len(path)

MemInv == clean =>
    /\ pc \in {"idle", "failed", "compact"} => Loaded
    /\ pc \in {"streaming", "ending"} => mleaf = Tip /\ Writing
    /\ pc = "commit" => Committing
    /\ pc \in {"streaming", "ending", "compact", "spliced"} => Prompted

\* No step of the user falls into a run's last writes, the budget of
\* compactions is not used up behind one, no failure leaves reasoning alone.
Orderly == Windows \cap {"race", "exhaust", "thought"} = {}

LEMMA PromptedIs == ASSUME TableTyped PROVE Prompted <=> LastUser(ActivePath) # 0
<1> DEFINE p == ActivePath
<1>1. p \in Seq(Ids)
  BY ActiveTyped
<1>2. Prompted <=> \E i \in DOMAIN p : p[i] \in live /\ role[p[i]] = "user"
  BY DEF Prompted, Range
<1>3. LastUser(p) = IF LastPlace(p, "user") = 0 THEN 0 ELSE p[LastPlace(p, "user")]
  BY DEF LastUser
<1>4. 0 \notin live
  BY SessionTreeAssumption DEF TableTyped, Ids
<1> HIDE DEF p
<1>5. LastUser(p) # 0 <=> \E i \in DOMAIN p : p[i] \in live /\ role[p[i]] = "user"
  BY <1>1, <1>3, <1>4, LastPlaceIs
<1> QED BY <1>2, <1>5 DEF p

LEMMA StaysPrompted ==
    ASSUME Prompted, Range(ActivePath) \subseteq Range(ActivePath'), live \subseteq live',
           \A m \in live : role'[m] = role[m]
    PROVE  Prompted'
BY DEF Prompted

LEMMA PromptHere ==
    ASSUME NEW m \in Range(ActivePath'), m \in live', role'[m] = "user"
    PROVE  Prompted'
BY DEF Prompted

\* The role of a new row, and of the others.
LEMMA InsertRole ==
    ASSUME Base, NEW r, NEW q, Insert(r, q)
    PROVE  role'[next] = r /\ \A m \in live : role'[m] = role[m]
<1>1. role \in [Ids -> Roles] /\ next \in Ids /\ next \notin live
  BY TypesAre, SessionTreeAssumption DEF Base, IInv, TableSound, Numbered, TableTyped, Insert, Ids
<1> QED BY <1>1 DEF Insert

LEMMA ReplyWritten ==
    ASSUME TypeOK, clean, Writing, row = 0
    PROVE  \A x : WithReply(x) = Append(ActivePath, x)
BY DEF Writing, WithReply, TypeOK

LEMMA ReplyKept ==
    ASSUME TypeOK, Writing, row # 0
    PROVE  WithReply(row) = ActivePath
<1>1. path \in Seq(0..MaxId)
  BY DEF TypeOK
<1>2. cont = Len(path) /\ cont # 0 => cont \in DOMAIN path
  BY <1>1
<1>3. 0 \notin DOMAIN path
  BY <1>1
<1> QED BY <1>2, <1>3 DEF Writing, WithReply

\* A reply row is put at the end of the path in memory.
LEMMA ReplyAppended ==
    ASSUME Base, mleaf = Tip, NEW how, AppendRow("reply", mleaf, how), how = "ok"
    PROVE  /\ Tip' = next /\ ActivePath' = Append(ActivePath, next)
           /\ next # 0 /\ (Prompted => Prompted')
<1>1. Insert("reply", mleaf) /\ leaf' = next /\ next # 0
  BY SessionTreeAssumption DEF AppendRow, Insert, Ids
<1>2. TableSound /\ mleaf \in Stored
  BY BaseSound DEF Anchored
<1>3. /\ Tip' = next /\ ActivePath' = Append(ActivePath, next)
      /\ Range(ActivePath) \subseteq Range(ActivePath') /\ live \subseteq live'
  BY <1>1, <1>2, AppendedPath
<1>4. \A m \in live : role'[m] = role[m]
  BY <1>1, InsertRole
<1> QED BY <1>1, <1>3, <1>4, StaysPrompted

LEMMA SamePrompted == ASSUME TableSound, UNCHANGED table PROVE Prompted' = Prompted
<1>1. ActivePath' = ActivePath
  BY SamePath
<1> QED BY <1>1 DEF Prompted, table

\* A partial reply that is written, or kept without a row, leaves memory as
\* the store.
LEMMA PartialLoaded ==
    ASSUME Base, Orderly, clean, mleaf = Tip, Writing, Prompted,
           NEW w, NEW how, Partial(w, how), clean'
    PROVE  Loaded' /\ Prompted'
<1>0. TableSound /\ TypeOK
  BY BaseSound DEF Base
<1>1. CASE row # 0 /\ path' = WithReply(row) /\ UNCHANGED <<table, mleaf>>
  <2>1. path' = ActivePath
    BY <1>0, <1>1, ReplyKept
  <2> QED BY <1>0, <1>1, <2>1, SamePath, SamePrompted DEF Loaded
<1>2. CASE row = 0 /\ UNCHANGED <<table, path, mleaf>>
  BY <1>0, <1>2, SamePath, SamePrompted DEF Loaded, Writing
<1>3. CASE row = 0 /\ AppendRow("reply", mleaf, how) /\ how = "ok"
           /\ mleaf' = next /\ path' = WithReply(next)
  BY <1>0, <1>3, ReplyAppended, ReplyWritten DEF Loaded
<1> QED BY <1>1, <1>2, <1>3 DEF Partial, Orderly

LEMMA MemTurn ==
    ASSUME Base, Base', Orderly, MemInv, NEW how \in Outcomes, Turn(how)
    PROVE  MemInv'
<1> SUFFICES ASSUME clean'
             PROVE  /\ pc' \in {"idle", "failed", "compact"} => Loaded'
                    /\ pc' \in {"streaming", "ending"} => mleaf' = Tip' /\ Writing'
                    /\ pc' = "commit" => Committing'
                    /\ pc' \in {"streaming", "ending", "compact", "spliced"} => Prompted'
  BY DEF MemInv
<1>0. TableSound /\ TypeOK /\ Anchored /\ TableTyped /\ TableSound'
  <2>1. (Base => TableSound /\ TableTyped /\ Anchored)'
    BY BaseSound, PTL
  <2> QED BY <2>1, BaseSound DEF Base
<1>1. CASE SendMessage(how)
  <2>1. how = "ok" /\ clean /\ Loaded
    BY <1>1 DEF SendMessage, MemInv
  <2>2. /\ Insert("user", mleaf) /\ leaf' = next /\ path' = Append(path, next)
        /\ mleaf' = next /\ pc' = "streaming" /\ row' = 0 /\ cont' = 0
    BY <1>1, <2>1 DEF SendMessage, AppendRow
  <2>3. /\ Tip' = next /\ ActivePath' = Append(ActivePath, next)
        /\ next \in Range(ActivePath') /\ next \in live'
    BY <1>0, <2>1, <2>2, AppendedPath DEF Loaded, Anchored
  <2>4. Prompted'
    BY <2>2, <2>3, InsertRole, PromptHere
  <2> QED BY <2>1, <2>2, <2>3, <2>4 DEF Writing, Loaded
<1>2. CASE ToolStarts(how)
  <2>1. /\ how = "ok" /\ clean /\ mleaf = Tip /\ Writing /\ Prompted /\ row = 0
    BY <1>2 DEF ToolStarts, MemInv
  <2>2. /\ AppendRow("reply", mleaf, how) /\ row' = next /\ mleaf' = next
        /\ UNCHANGED <<path, pc, cont>> /\ pc = "streaming"
    BY <1>2, <2>1 DEF ToolStarts
  <2>3. /\ Tip' = next /\ ActivePath' = Append(ActivePath, next) /\ next # 0 /\ Prompted'
    BY <2>1, <2>2, ReplyAppended
  <2> QED BY <2>1, <2>2, <2>3 DEF Writing
<1>3. CASE CommitReply(how)
  <2>1. clean /\ Committing /\ pc' = "idle"
    BY <1>3 DEF CommitReply, MemInv, Over
  <2>2. CASE row # 0 /\ UNCHANGED <<table, path, mleaf>>
    BY <1>0, <2>1, <2>2, SamePath DEF Committing, Loaded
  <2>3. CASE /\ row = 0 /\ AppendRow("reply", base, how) /\ how = "ok" /\ mleaf' = next
             /\ path' = IF slot = 0 THEN path ELSE [path EXCEPT ![slot] = next]
    <3>1. /\ Tip' = next /\ ActivePath' = Append(ActivePath, next)
      BY <2>1, <2>3, ReplyAppended DEF Committing
    <3>2. ActivePath \in Seq(Ids) /\ path = Append(ActivePath, 0) /\ slot = Len(path)
      BY <1>0, <2>1, <2>3, ActiveTyped DEF Committing
    <3> DEFINE p == ActivePath
    <3>3. p \in Seq(Ids) /\ path = Append(p, 0) /\ slot = Len(path)
      BY <3>2
    <3> HIDE DEF p
    <3>4. slot # 0 /\ [path EXCEPT ![slot] = next] = Append(p, next)
      <4> DEFINE r == Append(p, 0)
      <4>1. /\ r \in Seq(Ids \cup {0}) /\ Len(r) = Len(p) + 1 /\ Len(p) \in Nat
            /\ \A i \in 1..Len(p) : r[i] = p[i]
        BY <3>3
      <4>2. slot = Len(p) + 1 /\ path = r
        BY <3>3, <4>1
      <4> HIDE DEF r
      <4>3. next \in Nat
        BY <1>0 DEF TypeOK
      <4> DEFINE e == [r EXCEPT ![slot] = next]
                 a == Append(p, next)
      <4>4. e \in Seq(Nat) /\ Len(e) = Len(p) + 1
        BY <4>1, <4>2, <4>3, SessionTreeAssumption DEF Ids
      <4>5. a \in Seq(Nat) /\ Len(a) = Len(p) + 1
        BY <3>3, <4>3, SessionTreeAssumption DEF Ids
      <4>6. \A i \in 1..Len(p) + 1 : e[i] = a[i]
        BY <3>3, <4>1, <4>2
      <4> HIDE DEF e, a
      <4>7. e = a
        BY <4>4, <4>5, <4>6
      <4> QED BY <4>1, <4>2, <4>7 DEF e, a
    <3> QED BY <2>1, <2>3, <3>1, <3>4 DEF Loaded, p
  <2> QED BY <1>3, <2>1, <2>2, <2>3 DEF CommitReply
<1>4. ASSUME NEW w, Partial(w, how), pc \in {"streaming", "ending"}
      PROVE  Loaded' /\ Prompted'
  <2>1. clean
    BY <1>4 DEF Partial
  <2> QED BY <1>4, <2>1, PartialLoaded DEF MemInv
<1>5. CASE Settle(how)
  <2>1. pc' \in {"idle", "failed", "compact"}
    BY <1>5 DEF Settle, Over
  <2> QED BY <1>4, <1>5, <2>1 DEF Settle
<1>6. CASE CutRun(how)
  <2>1. pc' = "idle"
    BY <1>6 DEF CutRun, Over
  <2> QED BY <1>4, <1>6, <2>1 DEF CutRun
<1>7. CASE CutInRow(how)
  BY <1>7 DEF CutInRow
<1>8. CASE Resume(how)
  <2>1. UNCHANGED table /\ ActivePath' = ActivePath /\ Tip' = Tip /\ Prompted' = Prompted
    BY <1>0, <1>8, SamePath, SamePrompted DEF Resume
  <2>2. CASE (how = "load" \/ LastUser(ActivePath) = 0) /\ clean' = (clean /\ how = "ok")
             /\ Over("idle", 0) /\ UNCHANGED <<memory, slot>>
    <3>1. clean /\ LastUser(ActivePath) = 0
      BY <2>2
    <3>2. ~Prompted
      BY <1>0, <3>1, PromptedIs
    <3>3. pc = "failed" /\ Loaded
      BY <1>8, <3>1, <3>2 DEF Resume, MemInv
    <3>4. Loaded'
      BY <2>1, <2>2, <3>3 DEF Loaded, memory
    <3> QED BY <2>2, <3>4 DEF Over
  <2>3. CASE /\ LastUser(ActivePath) # 0 /\ Reload /\ pc' = "streaming"
             /\ row' = IF role[Tip] = "reply" THEN Tip ELSE 0
             /\ cont' = IF role[Tip] = "reply" THEN Len(ActivePath) ELSE 0
    <3>1. Prompted
      BY <1>0, <2>3, PromptedIs
    <3>2. path' = ActivePath' /\ mleaf' = Tip'
      BY <1>0, <2>3, ReloadedPath
    <3>3. Tip # 0 /\ Len(ActivePath) # 0
      <4>1. ActivePath # <<>>
        BY <3>1 DEF Prompted, Range
      <4>2. Chain(ActivePath, Tip, live, parent)
        BY <1>0, Routes
      <4> QED BY <4>1, <4>2, ChainLen DEF Chain
    <3>4. Writing'
      BY <2>1, <2>3, <3>2, <3>3 DEF Writing
    <3> QED BY <2>1, <2>3, <3>1, <3>2, <3>4
  <2> QED BY <1>8, <2>2, <2>3 DEF Resume
<1> QED BY <1>1, <1>2, <1>3, <1>5, <1>6, <1>7, <1>8 DEF Turn

\* A summary put into the path is on it with what was there before.
LEMMA SplicedPath ==
    ASSUME Base, NEW below \in live, Splice(parent[below], below), leaf' = Tip
    PROVE  /\ Tip' = Tip /\ Range(ActivePath) \subseteq Range(ActivePath')
           /\ live \subseteq live' /\ \A m \in live : role'[m] = role[m]
<1>0. TableSound /\ TableTyped
  BY BaseSound
<1>1. /\ TableSound' /\ Stored' = Stored \cup {next}
      /\ \A m \in Stored : /\ Range(Route[m]) \subseteq Range(Route'[m])
                           /\ Range(Route'[m]) \subseteq Range(Route[m]) \cup {next}
                           /\ below \notin Range(Route[m]) => Route'[m] = Route[m]
  <2>1. TableSound
    BY <1>0
  <2> QED BY <2>1, SpliceRoutes
<1>2. live' = live \cup {next} /\ next \in Ids /\ role' = [role EXCEPT ![next] = "summary"]
  BY DEF Splice
<1>3. Tip \in Stored /\ ActivePath = Route[Tip]
  BY <1>0, Routes
<1>4. Tip' = Tip
  <2>1. (TableSound /\ leaf \in live => Tip = leaf)'
    BY LeafIsTip, PTL
  <2>2. CASE Tip \in live
    BY <1>1, <1>2, <2>1, <2>2
  <2>3. CASE Tip = 0
    BY <2>3 DEF Tip, EMPTY_LEAF
  <2> QED BY <1>3, <2>2, <2>3 DEF Stored
<1>5. ActivePath' = Route'[Tip]
  BY <1>1, <1>4, RoutesNext
<1>6. \A m \in live : role'[m] = role[m]
  <2>1. next \notin live
    BY <1>0, SessionTreeAssumption DEF TableSound, Numbered
  <2>2. role \in [Ids -> Roles] /\ live \subseteq Ids
    BY <1>0 DEF TableTyped
  <2> QED BY <1>2, <2>1, <2>2
<1>7. Range(ActivePath) \subseteq Range(ActivePath')
  <2>1. PICK t \in Stored : t = Tip
    BY <1>3
  <2>2. Range(Route[t]) \subseteq Range(Route'[t])
    BY <1>1
  <2> QED BY <1>3, <1>5, <2>1, <2>2
<1> QED BY <1>2, <1>4, <1>6, <1>7

\* A compaction that goes well keeps the prompts on the path.
LEMMA CompactionMem ==
    ASSUME Base, Base', MemInv, NEW how \in Outcomes, Compaction(how)
    PROVE  MemInv'
<1>0. TableSound /\ TypeOK /\ Anchored /\ TableTyped /\ TableSound'
  <2>1. (Base => TableSound /\ TableTyped /\ Anchored)'
    BY BaseSound, PTL
  <2> QED BY <2>1, BaseSound DEF Base
<1>1. PICK p \in {StoredPath} : \E c \in Cuts(p) : CompactSession(p, c, how) \/ CompactRun(p, c, how)
  BY DEF Compaction
<1>2. PICK c \in Cuts(p) : CompactSession(p, c, how) \/ CompactRun(p, c, how)
  BY <1>1
<1>3. CASE CompactSession(p, c, how)
  <2>1. pc' = "idle" /\ (Reload \/ clean' = FALSE)
    BY <1>3 DEF CompactSession, NoReload
  <2> QED BY <1>0, <2>1, ReloadedPath DEF MemInv, Loaded
<1>4. CASE CompactRun(p, c, how)
  <2>1. CASE clean' # TRUE
    BY <2>1 DEF MemInv
  <2>2. CASE clean'
    <3>1. /\ clean /\ how = "ok" /\ Prompted /\ CompactPath(p, c, how) /\ pc' = "spliced"
      BY <1>4, <2>2 DEF CompactRun, MemInv, Over
    <3>2. p[c] \in live /\ Splice(parent[p[c]], p[c]) /\ leaf' = Tip
      BY <3>1 DEF CompactPath, Cuts
    <3>3. Prompted'
      BY <3>1, <3>2, SplicedPath, StaysPrompted
    <3> QED BY <3>1, <3>3 DEF MemInv
  <2> QED BY <2>1, <2>2
<1> QED BY <1>2, <1>3, <1>4

LEMMA SomeGreatest ==
    ASSUME NEW n \in Nat, NEW S \in SUBSET (0..n), S # {}
    PROVE  \E z \in S : \A y \in S : y <= z
<1> DEFINE T == {n - x : x \in S}
<1>1. T \in SUBSET Nat /\ T # {}
  <2>1. \A x \in S : n - x \in Nat
    OBVIOUS
  <2> QED BY <2>1
<1> HIDE DEF T
<1>2. PICK x \in T : \A y \in T : x <= y
  BY <1>1, LeastIsIn
<1>3. PICK z \in S : x = n - z
  BY DEF T
<1>4. \A y \in S : y <= z
  <2> TAKE y \in S
  <2>1. n - z <= n - y
    BY <1>2, <1>3 DEF T
  <2> QED BY <2>1
<1> QED BY <1>4

\* A step that leaves the store alone, and memory in step or not counted on.
LEMMA MemReload ==
    ASSUME Base', Reload, pc' \in {"idle", "failed"}
    PROVE  MemInv'
<1>1. (Base => TableSound /\ TableTyped /\ Anchored)'
  BY BaseSound, PTL
<1> QED BY <1>1, ReloadedPath DEF MemInv, Loaded

LEMMA MemNoReload == ASSUME NoReload PROVE MemInv'
BY DEF NoReload, MemInv

\* The tip stays when a branch goes that holds neither it nor the leaf.
LEMMA TipOutlivesBranch ==
    ASSUME Base, Base', Survivable, NEW m \in live, NEW d \in Branches(m), mleaf = Tip,
           MayDelete(d), leaf \notin d, leaf' = leaf, live' = live \ d, UNCHANGED <<parent, next>>
    PROVE  Tip' = Tip /\ ActivePath' = ActivePath
<1>0. TableSound /\ Anchored /\ Tip \notin d /\ TableTyped
  BY BaseSound DEF MayDelete, Survivable
<1>1. /\ TableSound' /\ Stored' = Stored \ d
      /\ \A o \in Stored' : Route'[o] = Route[o]
  BY <1>0, DeleteRoutes
<1>2. Tip' = Tip
  <2>1. CASE leaf = EMPTY_LEAF
    BY <2>1 DEF Tip
  <2>2. CASE leaf \in live
    <3>1. (TableSound /\ leaf \in live => Tip = leaf)'
      BY LeafIsTip, PTL
    <3> QED BY <1>0, <1>1, <2>2, <3>1, LeafIsTip
  <2>3. CASE leaf = Unset
    <3>1. 0 \notin live /\ live \subseteq Ids /\ live # {}
      BY <1>0, Routes
    <3>2. leaf # EMPTY_LEAF /\ leaf \notin live
      BY <2>3, <3>1 DEF Unset, EMPTY_LEAF, Ids
    <3>3. Tip = Max(live)
      BY <3>1, <3>2 DEF Tip
    <3> DEFINE x == Max(live)
    <3>4. x \in live /\ \A y \in live : y <= x
      <4>1. \E z \in live : \A y \in live : y <= z
        <5>1. live \in SUBSET (0..MaxId)
          BY <3>1 DEF Ids
        <5> QED BY <3>1, <5>1, SessionTreeAssumption, SomeGreatest
      <4> QED BY <4>1 DEF Max
    <3>5. x \in live' /\ \A y \in live' : y <= x
      BY <1>0, <3>3, <3>4
    <3> HIDE DEF x
    <3>6. Max(live') = x
      <4> DEFINE L == live'
      <4>1. x \in L /\ \A y \in L : y <= x
        BY <3>5
      <4>2. L \subseteq Int
        <5>1. Ids \subseteq Int
          BY SessionTreeAssumption DEF Ids
        <5>2. L \subseteq live
          OBVIOUS
        <5> QED BY <3>1, <5>1, <5>2
      <4> HIDE DEF L
      <4>3. Max(L) \in L /\ \A y \in L : y <= Max(L)
        BY <4>1 DEF Max
      <4>4. Max(L) = x
        <5> DEFINE z == Max(L)
        <5>1. z \in Int /\ x \in Int /\ z <= x /\ x <= z
          <6>1. z \in L /\ x \in L
            BY <4>1, <4>3
          <6> HIDE DEF z
          <6>2. z <= x
            BY <4>1, <6>1
          <6> QED BY <4>2, <4>3, <6>1, <6>2 DEF z
        <5> HIDE DEF z
        <5>2. z = x
          BY <5>1
        <5> QED BY <5>2 DEF z
      <4> QED BY <4>4 DEF L
    <3>7. Tip' = Max(live')
      BY <2>3, <3>1, <3>2, <3>5 DEF Tip
    <3> QED BY <3>3, <3>6, <3>7 DEF x
  <2> QED BY <1>0, <2>1, <2>2, <2>3 DEF Anchored, Stored, EMPTY_LEAF
<1>3. ActivePath' = Route'[Tip] /\ ActivePath = Route[Tip] /\ Tip \in Stored'
  BY <1>0, <1>1, <1>2, Routes, RoutesNext
<1> QED BY <1>1, <1>2, <1>3

LEMMA MemDelete ==
    ASSUME Base, Base', Survivable, MemInv, NEW how \in Outcomes, Delete(how)
    PROVE  MemInv'
<1> PICK m \in live :
      \E d \in Branches(m) : DeleteBranch(m, d, how) \/ (how = "delete" /\ DeleteFails(m, d))
  BY DEF Delete
<1>1. PICK d \in Branches(m) : DeleteBranch(m, d, how) \/ (how = "delete" /\ DeleteFails(m, d))
  OBVIOUS
<1>2. how \notin {"delete", "refresh"}
  BY DEF Survivable, Outcomes
<1>3. DeleteBranch(m, d, how) /\ pc \in {"idle", "failed"}
  BY <1>1, <1>2 DEF Delete
<1>4. pc' = "idle"
  BY <1>3 DEF DeleteBranch, Over
<1>5. CASE how \in {"load", "leaf"}
  BY <1>3, <1>5, MemNoReload DEF DeleteBranch
<1>6. CASE how \notin {"load", "leaf"} /\ leaf \in d
  BY <1>2, <1>3, <1>4, <1>6, MemReload DEF DeleteBranch
<1>7. CASE how \notin {"load", "leaf"} /\ leaf \notin d
  <2>1. /\ live' = live \ d /\ leaf' = leaf /\ UNCHANGED <<parent, next, path, mleaf, clean>>
        /\ MayDelete(d)
    BY <1>2, <1>3, <1>7 DEF DeleteBranch, Rewound, memory
  <2>2. CASE clean
    <3>1. Loaded
      BY <1>3, <2>2 DEF MemInv
    <3>2. Tip' = Tip /\ ActivePath' = ActivePath
      BY <1>7, <2>1, <3>1, TipOutlivesBranch DEF Loaded
    <3>3. Loaded'
      BY <2>1, <3>1, <3>2 DEF Loaded
    <3> QED BY <1>4, <3>3 DEF MemInv
  <2> QED BY <2>1, <2>2 DEF MemInv
<1> QED BY <1>5, <1>6, <1>7

LEMMA MemFork ==
    ASSUME Base, Base', Orderly, MemInv, NEW how \in Outcomes, Fork(how)
    PROVE  MemInv'
<1>1. PICK n \in live \cup {0}, after \in BOOLEAN :
        ForkSession(n, after, how) \/ ForkSummarized(n, after, how)
  BY DEF Fork
<1>2. ClearRetry /\ (Reload \/ NoReload)
  BY <1>1 DEF ForkSession, ForkSummarized
<1>3. pc \in {"idle", "failed"}
  BY DEF Fork, MayFork, Orderly
<1>4. pc' = "idle"
  BY <1>2, <1>3 DEF ClearRetry, Over
<1> QED BY <1>2, <1>4, MemReload, MemNoReload

\* Where a replay forks.
LEMMA ReplayTip ==
    ASSUME Base, NEW how, Replay(how)
    PROVE  \E t \in live \cup {0}, tip \in Stored :
             /\ t = LastUser(ActivePath) /\ tip = IF t = 0 THEN Tip ELSE parent[t]
             /\ IF how = "insert" THEN UNCHANGED <<live, parent, role, next>>
                                  ELSE Insert("user", tip)
             /\ leaf' = IF how = "ok" THEN next ELSE IF t = 0 THEN leaf ELSE tip
             /\ path' = Append(PathTo(tip), IF how = "ok" THEN next ELSE 0)
             /\ mleaf' = IF how = "ok" THEN next ELSE tip
<1> DEFINE t == LastUser(ActivePath)
           tip == IF t = 0 THEN Tip ELSE parent[t]
<1>0. TableSound
  BY BaseSound
<1>1. t \in live \cup {0}
  BY LastUserIsStored DEF Stored
<1>2. tip \in Stored
  BY <1>0, <1>1, Routes DEF TableSound, Rooted
<1>3. /\ IF how = "insert" THEN UNCHANGED <<live, parent, role, next>>
                                  ELSE Insert("user", tip)
      /\ leaf' = IF how = "ok" THEN next ELSE IF t = 0 THEN leaf ELSE tip
      /\ path' = Append(PathTo(tip), IF how = "ok" THEN next ELSE 0)
      /\ mleaf' = IF how = "ok" THEN next ELSE tip
  BY DEF Replay
<1> HIDE DEF t
<1> QED BY <1>1, <1>2, <1>3 DEF t

LEMMA MemResend ==
    ASSUME Base, Base', Orderly, MemInv, NEW how \in Outcomes, Resend(how)
    PROVE  MemInv'
<1>1. CASE ReplayFork(how)
  <2>1. Fork(how)
    BY <1>1 DEF Resend, ReplayFork, Fork, MayFork
  <2> QED BY <2>1, MemFork
<1>2. CASE Replay(how) /\ how # "ok"
  BY <1>2 DEF Replay, MemInv
<1>3. CASE Replay(how) /\ how = "ok"
  <2>1. PICK t \in live \cup {0}, tip \in Stored :
             /\ t = LastUser(ActivePath) /\ tip = IF t = 0 THEN Tip ELSE parent[t]
             /\ IF how = "insert" THEN UNCHANGED <<live, parent, role, next>>
                                  ELSE Insert("user", tip)
             /\ leaf' = IF how = "ok" THEN next ELSE IF t = 0 THEN leaf ELSE tip
             /\ path' = Append(PathTo(tip), IF how = "ok" THEN next ELSE 0)
             /\ mleaf' = IF how = "ok" THEN next ELSE tip
    BY <1>3, ReplayTip
  <2>2. TableSound /\ PathTo(tip) = Route[tip]
    BY BaseSound, Routes DEF Route
  <2>3. /\ Tip' = next /\ ActivePath' = Append(Route[tip], next)
        /\ next \in Range(ActivePath') /\ next \in live'
    BY <1>3, <2>1, <2>2, AppendedPath
  <2>4. Prompted'
    BY <1>3, <2>1, <2>3, InsertRole, PromptHere
  <2>5. pc' = "streaming" /\ row' = 0 /\ cont' = 0
    BY <1>3 DEF Replay
  <2>6. path' = ActivePath' /\ mleaf' = Tip'
    BY <1>3, <2>1, <2>2, <2>3
  <2>7. Writing'
    BY <2>5, <2>6 DEF Writing
  <2> QED BY <2>4, <2>5, <2>6, <2>7 DEF MemInv
<1> QED BY <1>1, <1>2, <1>3 DEF Resend

LEMMA MemStep ==
    ASSUME Base, Base', Survivable, Orderly, MemInv, [Next]_vars
    PROVE  MemInv'
<1>0. TableSound
  BY BaseSound
<1>1. CASE \E how \in Outcomes : Turn(how) \/ Compaction(how) \/ Rewind(how)
  BY <1>1, MemTurn, CompactionMem, MemFork, MemDelete, MemResend DEF Rewind
<1>2. ASSUME UNCHANGED table PROVE Tip' = Tip /\ ActivePath' = ActivePath /\ Prompted' = Prompted
  BY <1>0, <1>2, SamePath, SamePrompted
<1>3. CASE \E w \in Reasons : Finish(w)
  <2>1. /\ pc = "streaming" /\ pc' = "ending"
        /\ UNCHANGED <<table, path, mleaf, row, cont, clean>>
    BY <1>3 DEF Finish, memory
  <2> QED BY <1>2, <2>1 DEF MemInv, Writing
<1>4. CASE BeginCommit
  <2>1. /\ pc = "ending" /\ pc' = "commit" /\ path' = WithReply(row) /\ base' = mleaf
        /\ slot' = IF row = 0 THEN Len(path') ELSE 0
        /\ UNCHANGED <<table, mleaf, row, clean>>
    BY <1>4 DEF BeginCommit
  <2>2. ASSUME clean PROVE Committing'
    <3>1. mleaf = Tip /\ Writing /\ TypeOK
      BY <2>1, <2>2 DEF MemInv, Base
    <3>2. row # 0 => path' = ActivePath
      BY <2>1, <3>1, ReplyKept
    <3>3. row = 0 => path' = Append(ActivePath, 0)
      BY <2>1, <2>2, <3>1, ReplyWritten
    <3> QED BY <1>2, <2>1, <3>1, <3>2, <3>3 DEF Committing
  <2> QED BY <2>1, <2>2 DEF MemInv
<1>5. CASE NoCompaction \/ CancelRetry
  <2>1. /\ pc \in {"compact", "failed"} /\ pc' = "idle"
        /\ UNCHANGED <<table, path, mleaf, clean>>
    BY <1>5 DEF NoCompaction, CancelRetry, Over, memory
  <2> QED BY <1>2, <2>1 DEF MemInv, Loaded
<1>6. CASE Exhausted
  BY <1>6 DEF Exhausted, Orderly
<1>7. CASE LoadSession
  BY <1>7, MemReload DEF LoadSession, Over
<1>8. CASE UNCHANGED vars
  <2>1. UNCHANGED <<table, path, mleaf, clean, pc, row, cont, base, slot>>
    BY <1>8 DEF vars, memory, run
  <2> QED BY <1>2, <2>1 DEF MemInv, Loaded, Writing, Committing
<1> QED BY <1>1, <1>3, <1>4, <1>5, <1>6, <1>7, <1>8 DEF Next

LEMMA MemInit == Init => MemInv
<1> SUFFICES ASSUME Init PROVE Loaded
  BY DEF MemInv, Init
<1>1. TableSound
  BY InvInit DEF IInv
<1>2. Tip = 0 /\ path = <<>> /\ mleaf = 0
  BY DEF Init, Tip
<1>3. ActivePath = <<>>
  BY <1>1, <1>2, Routes DEF Chain
<1> QED BY <1>2, <1>3 DEF Loaded

\* Between turns the messages in memory are the stored active path, and the
\* next one hangs from its tip, unless a write or a load has failed.
THEOREM MemoryIsStoreSafe ==
    ASSUME Survivable, Orderly
    PROVE  Spec => []MemoryIsStore
<1>1. MemInv => MemoryIsStore
  BY DEF MemInv, MemoryIsStore, Loaded
<1>2. Spec => []Base
  BY BaseHolds
<1>3. Init => MemInv
  BY MemInit
<1>4. Base /\ Base' /\ MemInv /\ [Next]_vars => MemInv'
  BY MemStep
<1> QED BY <1>1, <1>2, <1>3, <1>4, PTL DEF Spec

(***************************************************************************)
(* The path only grows                                                     *)
(***************************************************************************)
LEMMA KeepsItself == ASSUME NEW p PROVE Keeps(p, p)
BY DEF Keeps

LEMMA KeepsPrefix ==
    ASSUME NEW S, NEW p \in Seq(S), NEW n
    PROVE  Keeps(p, Append(p, n))
<1> DEFINE r == Append(p, n)
           a == Len(p)
<1>1. /\ a \in Nat /\ DOMAIN p = 1..a /\ DOMAIN r = 1..a + 1
      /\ \A i \in 1..a : r[i] = p[i]
  OBVIOUS
<1>2. Range(p) \subseteq Range(r)
  <2>1. Range(p) = {p[i] : i \in DOMAIN p} /\ Range(r) = {r[i] : i \in DOMAIN r}
    BY DEF Range
  <2> HIDE DEF r, a
  <2> QED BY <1>1, <2>1
<1>3. ASSUME NEW i \in DOMAIN p, NEW j \in DOMAIN p, i < j
      PROVE  \E k, l \in DOMAIN r : k < l /\ r[k] = p[i] /\ r[l] = p[j]
  <2> HIDE DEF r, a
  <2>1. i \in DOMAIN r /\ j \in DOMAIN r /\ r[i] = p[i] /\ r[j] = p[j]
    BY <1>1
  <2> QED BY <1>3, <2>1
<1> QED BY <1>2, <1>3 DEF Keeps

\* What comes before a message is the path to it.
LEMMA PathUpTo ==
    ASSUME TableSound, NEW m \in Stored, NEW j \in DOMAIN Route[m]
    PROVE  /\ Route[m][j] \in live
           /\ Route[Route[m][j]] = SubSeq(Route[m], 1, j)
           /\ Range(Route[Route[m][j]]) = {Route[m][i] : i \in 1..j}
<1> DEFINE p == Route[m]
           x == p[j]
           s == SubSeq(p, 1, j)
<1>1. Chain(p, m, live, parent) /\ 0 \notin live
  BY Routes
<1> HIDE DEF p
<1>2. j \in DOMAIN p
  BY DEF p
<1>3. Chain(s, x, live, parent) /\ Len(s) = j /\ \A i \in 1..j : s[i] = p[i]
  BY <1>1, <1>2, ChainPrefix
<1>4. x \in live
  BY <1>1, <1>2, ChainLen
<1>5. Chain(Route[x], x, live, parent)
  BY <1>4, Routes DEF Stored
<1>6. Route[x] = s
  BY <1>1, <1>3, <1>5, ChainUnique
<1>7. Range(s) = {p[i] : i \in 1..j}
  <2>1. DOMAIN s = 1..j /\ \A y : y \in Range(s) <=> \E i \in DOMAIN s : s[i] = y
    BY <1>3, ChainLen
  <2> HIDE DEF s
  <2> QED BY <1>3, <2>1
<1> QED BY <1>4, <1>6, <1>7 DEF p

UpTo == \A m \in Stored : \A j \in DOMAIN Route[m] :
    /\ Route[m][j] \in live
    /\ Range(Route[Route[m][j]]) = {Route[m][i] : i \in 1..j}

LEMMA PathsUpTo == TableSound => UpTo
BY PathUpTo DEF UpTo

\* When every path keeps its messages it keeps their order.
LEMMA OrderKept ==
    ASSUME TableSound, TableSound', NEW m \in Stored, Stored \subseteq Stored',
           \A x \in Stored : Range(Route[x]) \subseteq Range(Route'[x])
    PROVE  Keeps(Route[m], Route'[m])
<1>1. UpTo'
  <2>1. (TableSound => UpTo)'
    BY PathsUpTo, PTL
  <2> QED BY <2>1
<1> DEFINE p == Route[m]
           q == Route'[m]
<1>2. /\ Chain(p, m, live, parent) /\ Chain(q, m, live', parent')
      /\ 0 \notin live /\ Range(p) \subseteq Range(q) /\ m \in Stored'
  BY Routes, RoutesNext
<1>3. \A j \in DOMAIN p : p[j] \in Stored /\ Range(Route[p[j]]) = {p[i] : i \in 1..j}
  BY PathsUpTo DEF UpTo, Stored
<1>4. \A j \in DOMAIN q : Range(Route'[q[j]]) = {q[i] : i \in 1..j}
  BY <1>1, <1>2 DEF UpTo
<1> HIDE DEF p, q
<1>5. ASSUME NEW i \in DOMAIN p, NEW j \in DOMAIN p, i < j
      PROVE  \E k, l \in DOMAIN q : k < l /\ q[k] = p[i] /\ q[l] = p[j]
  <2>1. /\ DOMAIN p = 1..Len(p) /\ Len(p) \in Nat /\ DOMAIN q = 1..Len(q) /\ Len(q) \in Nat
        /\ \A x : x \in Range(p) <=> \E k \in DOMAIN p : p[k] = x
        /\ \A x : x \in Range(q) <=> \E k \in DOMAIN q : q[k] = x
    BY <1>2, ChainLen
  <2>2. PICK l \in DOMAIN q : q[l] = p[j]
    BY <1>2, <2>1
  <2>3. p[i] \in Range(Route[p[j]])
    <3>1. i \in 1..j
      BY <1>5, <2>1
    <3> QED BY <1>3, <3>1
  <2>4. PICK x \in Stored : x = p[j]
    BY <1>3
  <2>5. p[i] \in Range(Route'[q[l]])
    BY <2>2, <2>3, <2>4
  <2>6. PICK k \in 1..l : q[k] = p[i]
    BY <1>4, <2>5
  <2>7. p[i] # p[j]
    BY <1>2, <1>5, <2>1, ChainInjective
  <2> QED BY <2>1, <2>2, <2>6, <2>7
<1>6. Keeps(p, q)
  BY <1>2, <1>5 DEF Keeps
<1> QED BY <1>6 DEF p, q

\* A row that the leaf is not put on is on no active path.
LEMMA UnusedRow ==
    ASSUME Base, NEW r, NEW q \in Stored, Insert(r, q), leaf' \in {leaf, Tip}, leaf # Unset
    PROVE  Tip' = Tip /\ ActivePath' = ActivePath
<1>0. TableSound /\ Anchored
  BY BaseSound
<1>1. /\ TableSound' /\ Stored' = Stored \cup {next}
      /\ \A m \in Stored : Route'[m] = Route[m]
  BY <1>0, InsertRoutes
<1>2. live' = live \cup {next} /\ Tip \in Stored
  BY <1>0, Routes DEF Insert
<1>3. Tip' = Tip
  <2>1. (TableSound /\ leaf \in live => Tip = leaf)'
    BY LeafIsTip, PTL
  <2>2. CASE leaf \in live
    BY <1>0, <1>1, <1>2, <2>1, <2>2, LeafIsTip
  <2>3. CASE leaf = EMPTY_LEAF
    BY <2>3 DEF Tip, EMPTY_LEAF
  <2> QED BY <1>0, <2>2, <2>3 DEF Anchored, Stored, EMPTY_LEAF
<1>4. ActivePath = Route[Tip] /\ ActivePath' = Route'[Tip]
  BY <1>0, <1>1, <1>3, Routes, RoutesNext
<1> QED BY <1>1, <1>2, <1>3, <1>4

LEMMA SameKept == ASSUME ActivePath' = ActivePath PROVE Keeps(ActivePath, ActivePath')
BY KeepsItself

\* A row appended to the tip leaves the path as it is, or one longer.
LEMMA AppendKeeps ==
    ASSUME Base, NEW r, NEW q, q = Tip, leaf # Unset, NEW how, AppendRow(r, q, how)
    PROVE  Keeps(ActivePath, ActivePath')
<1>0. TableSound /\ TableTyped /\ q \in Stored
  BY BaseSound, Routes
<1>1. CASE UNCHANGED table
  BY <1>0, <1>1, SamePath, SameKept
<1>2. CASE Insert(r, q) /\ UNCHANGED leaf
  BY <1>0, <1>2, UnusedRow, SameKept
<1>3. CASE Insert(r, q) /\ leaf' = next
  <2>1. ActivePath' = Append(ActivePath, next)
    BY <1>0, <1>3, AppendedPath
  <2>2. ActivePath \in Seq(Ids)
    BY <1>0, ActiveTyped
  <2> QED BY <2>1, <2>2, KeepsPrefix
<1> QED BY <1>1, <1>2, <1>3 DEF AppendRow

LEMMA CompactKeeps ==
    ASSUME Base, leaf # Unset, "restore" \notin Faults, NEW how \in Outcomes,
           NEW p, NEW c \in Cuts(p), CompactPath(p, c, how)
    PROVE  Keeps(ActivePath, ActivePath')
<1> DEFINE first == p[c]
<1>0. TableSound /\ first \in live /\ parent[first] \in Stored
  BY BaseSound DEF TableSound, Rooted, Cuts
<1>r. how # "restore"
  BY DEF Outcomes
<1> HIDE DEF first
<1>1. CASE how \in {"insert", "leaf"} /\ AppendRow("summary", parent[first], how)
  <2>1. CASE UNCHANGED table
    BY <1>0, <2>1, SamePath, SameKept
  <2>2. CASE Insert("summary", parent[first]) /\ UNCHANGED leaf
    BY <1>0, <2>2, UnusedRow, SameKept
  <2> QED BY <1>1, <2>1, <2>2 DEF AppendRow
<1>2. CASE Insert("summary", parent[first]) /\ leaf' = Tip
  BY <1>0, <1>2, UnusedRow, SameKept
<1>3. CASE Splice(parent[first], first) /\ leaf' = Tip
  <2>1. Tip' = Tip
    BY <1>0, <1>3, SplicedPath
  <2>2. /\ TableSound' /\ Stored' = Stored \cup {next}
        /\ \A m \in Stored : /\ Range(Route[m]) \subseteq Range(Route'[m])
                             /\ Range(Route'[m]) \subseteq Range(Route[m]) \cup {next}
                             /\ first \notin Range(Route[m]) => Route'[m] = Route[m]
    BY <1>0, <1>3, SpliceRoutes
  <2>3. Tip \in Stored /\ ActivePath = Route[Tip] /\ ActivePath' = Route'[Tip]
    BY <1>0, <2>1, <2>2, Routes, RoutesNext
  <2>4. \A x \in Stored : Range(Route[x]) \subseteq Range(Route'[x])
    BY <2>2
  <2>5. PICK m \in Stored : m = Tip
    BY <2>3
  <2>6. Keeps(Route[m], Route'[m])
    BY <1>0, <2>2, <2>4, OrderKept
  <2> QED BY <2>3, <2>5, <2>6
<1> QED BY <1>r, <1>1, <1>2, <1>3 DEF CompactPath, first

\* Where the run's writes hang from while memory is in step.
LEMMA TurnKeeps ==
    ASSUME Base, MemInv, clean, leaf # Unset, NEW how \in Outcomes, Turn(how)
    PROVE  Keeps(ActivePath, ActivePath')
<1>0. TableSound
  BY BaseSound
<1>1. CASE UNCHANGED table
  BY <1>0, <1>1, SamePath, SameKept
<1>2. CASE SendMessage(how)
  <2>1. AppendRow("user", mleaf, how) /\ mleaf = Tip
    BY <1>2 DEF SendMessage, MemInv, Loaded
  <2> QED BY <2>1, AppendKeeps
<1>3. CASE \E w : Partial(w, how) /\ pc \in {"streaming", "ending"}
  <2>1. mleaf = Tip /\ (UNCHANGED table \/ AppendRow("reply", mleaf, how))
    BY <1>3 DEF Partial, MemInv
  <2> QED BY <1>1, <2>1, AppendKeeps
<1>4. CASE ToolStarts(how) \/ CutInRow(how)
  <2>1. AppendRow("reply", mleaf, how) /\ mleaf = Tip
    BY <1>4 DEF ToolStarts, CutInRow, MemInv
  <2> QED BY <2>1, AppendKeeps
<1>5. CASE CommitReply(how)
  <2>1. base = Tip /\ (UNCHANGED table \/ AppendRow("reply", base, how))
    BY <1>5 DEF CommitReply, MemInv, Committing
  <2> QED BY <1>1, <2>1, AppendKeeps
<1>6. CASE Settle(how) \/ CutRun(how)
  BY <1>3, <1>6 DEF Settle, CutRun
<1>7. CASE Resume(how)
  BY <1>1, <1>7 DEF Resume
<1> QED BY <1>2, <1>4, <1>5, <1>6, <1>7 DEF Turn

LEMMA CompactionKeeps ==
    ASSUME Base, leaf # Unset, "restore" \notin Faults, NEW how \in Outcomes, Compaction(how)
    PROVE  Keeps(ActivePath, ActivePath')
<1>1. PICK p \in {StoredPath} : \E c \in Cuts(p) : CompactSession(p, c, how) \/ CompactRun(p, c, how)
  BY DEF Compaction
<1>2. PICK c \in Cuts(p) : CompactSession(p, c, how) \/ CompactRun(p, c, how)
  BY <1>1
<1>3. CompactPath(p, c, how)
  BY <1>2 DEF CompactSession, CompactRun
<1> QED BY <1>3, CompactKeeps

Grows ==
    \/ ~clean \/ leaf = Unset \/ UNCHANGED table
    \/ \E p \in {ActivePath}, q \in {ActivePath'} : Keeps(p, q)
    \/ \E how \in Outcomes : Rewind(how)

LEMMA GrowsStep ==
    ASSUME Base, MemInv, "restore" \notin Faults, [Next]_vars
    PROVE  [Grows]_vars
<1> SUFFICES ASSUME clean, leaf # Unset, ~ \E how \in Outcomes : Rewind(how)
             PROVE  Keeps(ActivePath, ActivePath')
  BY DEF Grows
<1>0. TableSound
  BY BaseSound
<1>1. CASE UNCHANGED table
  BY <1>0, <1>1, SamePath, SameKept
<1>2. CASE \E how \in Outcomes : Turn(how) \/ Compaction(how)
  BY <1>2, TurnKeeps, CompactionKeeps
<1>3. CASE (\E w \in Reasons : Finish(w)) \/ BeginCommit \/ NoCompaction \/ Exhausted
           \/ CancelRetry \/ LoadSession \/ UNCHANGED vars
  BY <1>1, <1>3 DEF Finish, BeginCommit, NoCompaction, Exhausted, CancelRetry, LoadSession, vars
<1> QED BY <1>2, <1>3 DEF Next

\* While no write or load has failed since memory was loaded, turns,
\* compactions, resumes and reloads keep the messages of the active path and
\* their order; only a fork, a branch delete or a replay takes any off it.
\* The restore of the leaf behind a compaction must not fail: it would leave
\* the path at the summary.
THEOREM PathOnlyGrowsSafe ==
    ASSUME Survivable, Orderly, "restore" \notin Faults
    PROVE  Spec => PathOnlyGrows
<1>1. Spec => []Base
  BY BaseHolds
<1>2. Init => MemInv
  BY MemInit
<1>3. Base /\ Base' /\ MemInv /\ [Next]_vars => MemInv'
  BY MemStep
<1>4. Base /\ MemInv /\ [Next]_vars => [Grows]_vars
  BY GrowsStep
<1> QED BY <1>1, <1>2, <1>3, <1>4, PTL DEF Spec, PathOnlyGrows, Grows

(***************************************************************************)
(* A reply and its prompt                                                  *)
(***************************************************************************)
Answered ==
    /\ \A m \in live : role[m] = "reply" /\ turnOf[m] \in live => turnOf[m] \in Range(Route[m])
    /\ \A m \in Ids : turnOf[m] < next

\* The prompt of the run that is under way is on the stored path, and on the
\* path its next row will hang from.
Answering ==
    /\ turn < next
    /\ turn # 0 =>
         /\ pc # "idle" /\ leaf \in live /\ turn \in Range(Route[leaf])
         /\ pc \in {"streaming", "ending"} => turn \in Range(Route[mleaf])
         /\ pc = "commit" => turn \in Range(Route[base])

AnswerInv == Answered /\ Answering

LEMMA InRange ==
    ASSUME NEW S, NEW p \in Seq(S), NEW n
    PROVE  Range(Append(p, n)) = Range(p) \cup {n}
<1> DEFINE r == Append(p, n)
<1>1. /\ DOMAIN p = 1..Len(p) /\ Len(p) \in Nat /\ DOMAIN r = 1..Len(p) + 1
      /\ r[Len(p) + 1] = n /\ \A i \in 1..Len(p) : r[i] = p[i]
  OBVIOUS
<1>2. Range(r) = {r[i] : i \in DOMAIN r} /\ Range(p) = {p[i] : i \in DOMAIN p}
  BY DEF Range
<1> HIDE DEF r
<1>3. Range(r) = Range(p) \cup {n}
  BY <1>1, <1>2
<1> QED BY <1>3 DEF r

LEMMA BaseIs ==
    Base => /\ TableSound /\ TableTyped /\ Anchored /\ live \subseteq Ids
            /\ next \in Nat \ {0} /\ turn \in Nat /\ turnOf \in [Ids -> 0..MaxId]
<1> SUFFICES ASSUME Base PROVE /\ TableSound /\ TableTyped /\ Anchored /\ live \subseteq Ids
                               /\ next \in Nat \ {0} /\ turn \in Nat /\ turnOf \in [Ids -> 0..MaxId]
  OBVIOUS
<1>1. TableSound /\ TableTyped /\ Anchored
  BY BaseSound
<1>2. next \in 1..MaxId + 1 /\ turn \in 0..MaxId /\ turnOf \in [Ids -> 0..MaxId] /\ live \subseteq Ids
  BY DEF Base, TypeOK
<1> QED BY <1>1, <1>2, SessionTreeAssumption

\* What an insert does to the table, told once.
LEMMA InsertTable ==
    ASSUME Base, NEW r, NEW q \in Stored, Insert(r, q)
    PROVE  /\ TableSound' /\ Stored' = Stored \cup {next} /\ next \notin Stored
           /\ live' = live \cup {next} /\ next' = next + 1 /\ next \in Ids /\ live \subseteq Ids
           /\ \A m \in Stored : Route'[m] = Route[m]
           /\ Range(Route'[next]) = Range(Route[q]) \cup {next}
           /\ role'[next] = r /\ \A m \in live : role'[m] = role[m]
<1>1. TableSound
  BY BaseSound
<1>2. /\ TableSound' /\ next \notin Stored /\ Stored' = Stored \cup {next}
      /\ \A m \in Stored : Route'[m] = Route[m]
      /\ Route'[next] = Append(Route[q], next)
  BY <1>1, InsertRoutes
<1>3. Route[q] \in Seq(live)
  BY <1>1, Routes DEF Chain
<1>4. Range(Route'[next]) = Range(Route[q]) \cup {next}
  BY <1>2, <1>3, InRange
<1>5. live \subseteq Ids
  BY <1>1, Routes
<1> QED BY <1>2, <1>4, <1>5, InsertRole DEF Insert

LEMMA SpliceTable ==
    ASSUME Base, NEW below \in live, Splice(parent[below], below)
    PROVE  /\ TableSound' /\ Stored' = Stored \cup {next} /\ next \notin Stored
           /\ live' = live \cup {next} /\ next' = next + 1 /\ next \in Ids /\ live \subseteq Ids
           /\ \A m \in Stored : Range(Route[m]) \subseteq Range(Route'[m])
           /\ Range(Route'[next]) = Range(Route[parent[below]]) \cup {next}
           /\ role'[next] = "summary" /\ \A m \in live : role'[m] = role[m]
<1>1. TableSound /\ TableTyped /\ parent[below] \in Stored
  BY BaseSound DEF TableSound, Rooted
<1>2. /\ TableSound' /\ next \notin Stored /\ Stored' = Stored \cup {next}
      /\ \A m \in Stored : /\ Range(Route[m]) \subseteq Range(Route'[m])
                           /\ Range(Route'[m]) \subseteq Range(Route[m]) \cup {next}
                           /\ below \notin Range(Route[m]) => Route'[m] = Route[m]
      /\ Route'[next] = Append(Route[parent[below]], next)
  BY <1>1, SpliceRoutes
<1>3. Route[parent[below]] \in Seq(live)
  BY <1>1, Routes DEF Chain
<1>4. Range(Route'[next]) = Range(Route[parent[below]]) \cup {next}
  BY <1>2, <1>3, InRange
<1>5. /\ live' = live \cup {next} /\ next' = next + 1 /\ next \in Ids
      /\ role' = [role EXCEPT ![next] = "summary"]
  BY DEF Splice
<1>6. live \subseteq Ids /\ next \notin live /\ role \in [Ids -> Roles]
  BY <1>1, <1>2 DEF TableTyped, Stored
<1>7. role'[next] = "summary" /\ \A m \in live : role'[m] = role[m]
  BY <1>5, <1>6
<1>8. \A m \in Stored : Range(Route[m]) \subseteq Range(Route'[m])
  BY <1>2
<1> QED BY <1>2, <1>4, <1>5, <1>6, <1>7, <1>8

\* A new row of another kind, put at an end or into a path.
LEMMA AnsweredMore ==
    ASSUME Base, Answered, live' = live \cup {next}, next' = next + 1, next \in Ids,
           \A m \in live : role'[m] = role[m] /\ Range(Route[m]) \subseteq Range(Route'[m]),
           \A m \in Ids : m # next => turnOf'[m] = turnOf[m],
           turnOf'[next] < next' /\ turnOf'[next] \in Nat,
           role'[next] = "reply" /\ turnOf'[next] \in live' => turnOf'[next] \in Range(Route'[next])
    PROVE  Answered'
<1>0. live \subseteq Ids /\ next \notin live /\ next \in Nat
  BY SessionTreeAssumption DEF Base, IInv, TableSound, Numbered, TypeOK
<1>1. \A m \in Ids : turnOf[m] \in Nat /\ turnOf[m] < next
  BY SessionTreeAssumption DEF Answered, Base, TypeOK
<1>2. \A m \in Ids : turnOf'[m] < next'
  <2> TAKE m \in Ids
  <2>1. CASE m = next
    BY <2>1
  <2>2. CASE m # next
    <3>1. turnOf[m] < next /\ turnOf'[m] = turnOf[m] /\ turnOf[m] \in Nat
      BY <1>1, <2>2
    <3> QED BY <1>0, <3>1
  <2> QED BY <2>1, <2>2
<1>3. ASSUME NEW m \in live', role'[m] = "reply", turnOf'[m] \in live'
      PROVE  turnOf'[m] \in Range(Route'[m])
  <2>1. CASE m = next
    BY <1>3, <2>1
  <2>2. CASE m # next
    <3>1. m \in live /\ turnOf'[m] = turnOf[m] /\ role[m] = "reply"
      BY <1>0, <1>3, <2>2
    <3>2. turnOf[m] # next
      <4>1. turnOf[m] < next /\ turnOf[m] \in Nat
        BY <1>0, <1>1, <3>1
      <4> QED BY <1>0, <4>1
    <3>3. turnOf[m] \in live
      BY <1>3, <3>1, <3>2
    <3>4. turnOf[m] \in Range(Route[m])
      BY <3>1, <3>3 DEF Answered
    <3> QED BY <3>1, <3>4
  <2> QED BY <2>1, <2>2
<1> QED BY <1>2, <1>3 DEF Answered

LEMMA AnsweredSame ==
    ASSUME Base, Answered, UNCHANGED <<live, parent, next, role>>,
           \A m \in Ids : m # next => turnOf'[m] = turnOf[m],
           turnOf' = turnOf \/ (next \in Ids /\ turnOf'[next] = 0)
    PROVE  Answered'
<1>0. TableSound /\ live \subseteq Ids /\ next \notin live /\ next \in Nat \ {0}
  BY BaseSound, SessionTreeAssumption DEF Base, IInv, TableSound, Numbered, TypeOK
<1>1. \A m \in live : Route'[m] = Route[m]
  BY <1>0, SameRoutes DEF Stored
<1>2. \A m \in live : turnOf'[m] = turnOf[m]
  BY <1>0
<1>3. \A m \in Ids : turnOf'[m] < next'
  <2> TAKE m \in Ids
  <2>1. turnOf'[m] = turnOf[m] \/ turnOf'[m] = 0
    OBVIOUS
  <2> QED BY <1>0, <2>1 DEF Answered
<1> QED BY <1>1, <1>2, <1>3 DEF Answered

\* A step that leaves the tree of rows alone, and the run where it was or over.
LEMMA AnswerSame ==
    ASSUME Base, AnswerInv, UNCHANGED <<live, parent, next, role, turnOf>>,
           turn' = 0 \/ /\ turn' = turn /\ pc' # "idle" /\ leaf' = leaf
                        /\ pc' \in {"streaming", "ending"} => turn \in Range(Route[mleaf'])
                        /\ pc' = "commit" => turn \in Range(Route[base']),
           mleaf' \in Stored, pc' = "commit" => base' \in Stored
    PROVE  AnswerInv'
<1>0. TableSound
  BY BaseSound
<1>1. Answered'
  BY AnsweredSame DEF AnswerInv
<1>2. \A m \in Stored : Route'[m] = Route[m]
  BY <1>0, SameRoutes
<1>3. next \in Nat \ {0} /\ turn \in Nat
  BY SessionTreeAssumption DEF Base, TypeOK
<1>4. CASE turn' = 0
  BY <1>1, <1>3, <1>4 DEF AnswerInv, Answering
<1>5. CASE turn' # 0
  <2>1. /\ turn' = turn /\ turn # 0 /\ turn < next /\ leaf \in live /\ turn \in Range(Route[leaf])
    BY <1>5 DEF AnswerInv, Answering
  <2>2. leaf \in Stored
    BY <2>1 DEF Stored
  <2>3. /\ turn' < next' /\ leaf' \in live' /\ turn' \in Range(Route'[leaf'])
    BY <1>2, <1>5, <2>1, <2>2
  <2>4. pc' \in {"streaming", "ending"} => turn' \in Range(Route'[mleaf'])
    BY <1>2, <1>5, <2>1
  <2>5. pc' = "commit" => turn' \in Range(Route'[base'])
    BY <1>2, <1>5, <2>1
  <2> QED BY <1>1, <1>5, <2>3, <2>4, <2>5 DEF AnswerInv, Answering
<1> QED BY <1>4, <1>5

\* A reply's row, written from where the run's prompt is above it.
LEMMA AnswerReply ==
    ASSUME Base, AnswerInv, NEW how, NEW q \in Stored, AppendRow("reply", q, how), Answers(how),
           turn # 0 => turn \in Range(Route[q])
    PROVE  /\ Answered' /\ TableSound'
           /\ how = "ok" => leaf' = next /\ next \in live'
           /\ how # "ok" => leaf' = leaf
           /\ turn < next' /\ 0 < next'
           /\ turn # 0 => /\ leaf \in Stored /\ leaf' \in live' /\ turn \in Range(Route'[leaf'])
                          /\ how = "ok" => turn \in Range(Route'[next])
                          /\ \A m \in Stored : turn \in Range(Route[m]) => turn \in Range(Route'[m])
<1>0. TableSound /\ next \in Nat \ {0} /\ turn \in Nat /\ turnOf \in [Ids -> 0..MaxId]
  BY BaseSound, SessionTreeAssumption DEF Base, TypeOK
<1>1. /\ turn < next /\ Answered
      /\ turn # 0 => leaf \in live /\ leaf \in Stored /\ turn \in Range(Route[leaf])
  BY DEF AnswerInv, Answering, Stored
<1>2. \A m \in Ids : m # next => turnOf'[m] = turnOf[m]
  BY <1>0 DEF Answers
<1>3. CASE how = "insert"
  <2>1. UNCHANGED table
    BY <1>3 DEF AppendRow
  <2>2. TableSound' /\ \A m \in Stored : Route'[m] = Route[m]
    BY <1>0, <2>1, SameRoutes DEF table
  <2>3. next \in Ids => turnOf'[next] = 0
    BY <1>0, <1>3 DEF Answers
  <2>4. next \notin Ids => turnOf' = turnOf
    BY <1>0, <1>3 DEF Answers
  <2>5. Answered'
    BY <1>1, <1>2, <2>1, <2>3, <2>4, AnsweredSame DEF table
  <2> QED BY <1>0, <1>1, <1>3, <2>1, <2>2, <2>5 DEF table
<1>4. CASE how # "insert"
  <2>1. Insert("reply", q) /\ leaf' = IF how = "ok" THEN next ELSE leaf
    BY <1>4 DEF AppendRow
  <2>2. /\ TableSound' /\ live' = live \cup {next} /\ next' = next + 1 /\ next \in Ids
        /\ \A m \in Stored : Route'[m] = Route[m]
        /\ Range(Route'[next]) = Range(Route[q]) \cup {next}
        /\ role'[next] = "reply" /\ \A m \in live : role'[m] = role[m]
        /\ next \notin Stored /\ Stored' = Stored \cup {next} /\ live \subseteq Ids
    BY <2>1, InsertTable
  <2>3. turnOf'[next] = turn
    BY <1>0, <1>4, <2>2 DEF Answers
  <2>4. 0 \notin live'
    BY <2>2, RoutesNext
  <2>5. \A m \in live : role'[m] = role[m] /\ Range(Route[m]) \subseteq Range(Route'[m])
    BY <2>2 DEF Stored
  <2>6. turnOf'[next] \in live' => turnOf'[next] \in Range(Route'[next])
    BY <2>2, <2>3, <2>4
  <2>7. turnOf'[next] < next' /\ turnOf'[next] \in Nat
    BY <1>0, <1>1, <2>2, <2>3
  <2>8. Answered'
    BY <1>1, <1>2, <2>2, <2>5, <2>6, <2>7, AnsweredMore
  <2>9. turn < next' /\ 0 < next'
    BY <1>0, <1>1, <2>2
  <2>10. turn # 0 => leaf' \in live' /\ turn \in Range(Route'[leaf']) /\ turn \in Range(Route'[next])
    BY <1>1, <2>1, <2>2
  <2> QED BY <1>1, <2>1, <2>2, <2>8, <2>9, <2>10
<1> QED BY <1>3, <1>4

LEMMA AnswerTurn ==
    ASSUME Base, Base', AnswerInv, NEW how \in Outcomes, Turn(how)
    PROVE  AnswerInv'
<1>0. /\ TableSound /\ Anchored /\ next \in Nat \ {0} /\ turn \in Nat
      /\ turnOf \in [Ids -> 0..MaxId]
  BY BaseIs
<1>a. mleaf \in Stored /\ (pc = "commit" => base \in Stored)
  BY <1>0 DEF Anchored
<1>1. CASE SendMessage(how)
  <2>1. turn = 0 /\ turnOf' = turnOf /\ AppendRow("user", mleaf, how) /\ next \in Ids
    BY <1>1 DEF SendMessage, AnswerInv, Answering
  <2>2. CASE how = "insert"
    <3>1. UNCHANGED <<table, turn, mleaf, pc>>
      BY <1>1, <2>1, <2>2 DEF SendMessage, AppendRow
    <3> QED BY <1>1, <1>a, <2>1, <3>1, AnswerSame DEF table, SendMessage
  <2>3. CASE how # "insert"
    <3>1. Insert("user", mleaf) /\ leaf' = IF how = "ok" THEN next ELSE leaf
      BY <2>1, <2>3 DEF AppendRow
    <3>2. /\ TableSound' /\ live' = live \cup {next} /\ next' = next + 1
          /\ \A m \in Stored : Route'[m] = Route[m]
          /\ Range(Route'[next]) = Range(Route[mleaf]) \cup {next}
          /\ role'[next] = "user" /\ \A m \in live : role'[m] = role[m]
          /\ next \notin Stored /\ Stored' = Stored \cup {next}
      BY <1>a, <3>1, InsertTable
    <3>3. \A m \in live : role'[m] = role[m] /\ Range(Route[m]) \subseteq Range(Route'[m])
      BY <3>2 DEF Stored
    <3>4. turnOf'[next] < next' /\ turnOf'[next] \in Nat
      BY <1>0, <2>1, <3>2 DEF AnswerInv, Answered
    <3>5. Answered'
      BY <2>1, <3>2, <3>3, <3>4, AnsweredMore DEF AnswerInv
    <3>6. CASE how = "ok"
      <4>1. turn' = next /\ leaf' = next /\ mleaf' = next /\ pc' = "streaming"
        BY <1>1, <3>1, <3>6 DEF SendMessage
      <4>2. next \in Range(Route'[next]) /\ next \in live' /\ next < next'
        BY <1>0, <3>2
      <4> QED BY <3>5, <4>1, <4>2 DEF AnswerInv, Answering
    <3>7. CASE how # "ok"
      <4>1. turn' = 0 /\ 0 < next'
        BY <1>0, <1>1, <2>1, <3>2, <3>7 DEF SendMessage
      <4> QED BY <3>5, <4>1 DEF AnswerInv, Answering
    <3> QED BY <3>6, <3>7
  <2> QED BY <2>2, <2>3
<1>2. CASE ToolStarts(how)
  <2>1. /\ AppendRow("reply", mleaf, how) /\ Answers(how) /\ turn' = turn
        /\ pc = "streaming" /\ pc' = pc /\ mleaf' = IF how = "ok" THEN next ELSE mleaf
    BY <1>2 DEF ToolStarts
  <2>2. turn # 0 => turn \in Range(Route[mleaf])
    BY <2>1 DEF AnswerInv, Answering
  <2>3. /\ Answered' /\ turn < next'
        /\ turn # 0 => /\ leaf' \in live' /\ turn \in Range(Route'[leaf'])
                       /\ how = "ok" => turn \in Range(Route'[next])
                       /\ \A m \in Stored : turn \in Range(Route[m]) => turn \in Range(Route'[m])
    BY <1>a, <2>1, <2>2, AnswerReply
  <2>4. turn # 0 => turn \in Range(Route'[mleaf'])
    BY <1>a, <2>1, <2>2, <2>3
  <2> QED BY <2>1, <2>3, <2>4 DEF AnswerInv, Answering
<1>3. CASE CommitReply(how)
  <2>1. pc = "commit" /\ turn' = 0 /\ pc' = "idle"
    BY <1>3 DEF CommitReply, Over
  <2>2. CASE UNCHANGED <<table, mleaf, turnOf>>
    <3>1. role' = role
      BY <2>2 DEF table
    <3> QED BY <1>a, <2>1, <2>2, AnswerSame DEF table
  <2>3. CASE AppendRow("reply", base, how) /\ Answers(how)
    <3>1. turn # 0 => turn \in Range(Route[base])
      BY <2>1 DEF AnswerInv, Answering
    <3>2. Answered' /\ 0 < next'
      BY <1>a, <2>1, <2>3, <3>1, AnswerReply
    <3> QED BY <2>1, <3>2 DEF AnswerInv, Answering
  <2> QED BY <1>3, <2>2, <2>3 DEF CommitReply
<1>4. ASSUME NEW w, Partial(w, how), pc \in {"streaming", "ending"},
             turn' = 0 \/ (turn' = turn /\ pc' \in {"failed", "compact"}), pc' # "commit"
      PROVE  AnswerInv'
  <2>1. turn # 0 => turn \in Range(Route[mleaf])
    BY <1>4 DEF AnswerInv, Answering
  <2>2. CASE UNCHANGED <<table, mleaf, turnOf>>
    BY <1>4, <1>a, <2>2, AnswerSame DEF table
  <2>3. CASE AppendRow("reply", mleaf, how) /\ Answers(how)
    <3>2. /\ Answered' /\ turn < next' /\ 0 < next'
          /\ turn # 0 => leaf' \in live' /\ turn \in Range(Route'[leaf'])
      BY <1>a, <2>1, <2>3, AnswerReply
    <3> QED BY <1>4, <3>2 DEF AnswerInv, Answering
  <2> QED BY <1>4, <2>2, <2>3 DEF Partial
<1>5. CASE Settle(how)
  <2>1. /\ Partial(why, how) /\ pc = "ending"
        /\ turn' = 0 \/ (turn' = turn /\ pc' \in {"failed", "compact"})
        /\ pc' # "commit"
    BY <1>5 DEF Settle, Over, run
  <2> QED BY <1>4, <2>1
<1>6. CASE CutRun(how)
  <2>1. Partial("cut", how) /\ pc = "streaming" /\ turn' = 0 /\ pc' = "idle"
    BY <1>6 DEF CutRun, Over
  <2> QED BY <1>4, <2>1
<1>7. CASE CutInRow(how)
  <2>1. /\ AppendRow("reply", mleaf, how) /\ Answers(how) /\ turn' = 0 /\ pc = "streaming"
    BY <1>7 DEF CutInRow, Over
  <2>2. turn # 0 => turn \in Range(Route[mleaf])
    BY <2>1 DEF AnswerInv, Answering
  <2>3. Answered' /\ 0 < next'
    BY <1>a, <2>1, <2>2, AnswerReply
  <2> QED BY <2>1, <2>3 DEF AnswerInv, Answering
<1>8. CASE Resume(how)
  <2>1. UNCHANGED <<table, turnOf>>
    BY <1>8 DEF Resume, ghost
  <2>2. Tip' = Tip /\ Tip \in Stored
    BY <1>0, <2>1, SamePath, Routes
  <2>3. CASE turn' = 0 /\ pc' = "idle" /\ mleaf' = mleaf
    BY <1>a, <2>1, <2>3, AnswerSame DEF table
  <2>4. CASE turn' = turn /\ pc' = "streaming" /\ mleaf' = Tip'
    <3>1. turn # 0 => Tip = leaf /\ turn \in Range(Route[leaf])
      BY <1>0, LeafIsTip DEF AnswerInv, Answering
    <3>2. CASE turn = 0
      BY <2>1, <2>2, <2>4, <3>2, AnswerSame DEF table
    <3>3. CASE turn # 0
      BY <2>1, <2>2, <2>4, <3>1, <3>3, AnswerSame DEF table
    <3> QED BY <3>2, <3>3
  <2> QED BY <1>8, <2>3, <2>4 DEF Resume, Over, Reload, memory
<1> QED BY <1>1, <1>2, <1>3, <1>5, <1>6, <1>7, <1>8 DEF Turn

\* A summary's row, wherever it is put.
LEMMA AnswerSummary ==
    ASSUME Base, AnswerInv, UNCHANGED turnOf,
           \/ \E q \in Stored : Insert("summary", q)
           \/ \E below \in live : Splice(parent[below], below)
    PROVE  /\ Answered' /\ TableSound' /\ next' = next + 1 /\ 0 < next' /\ live \subseteq live'
           /\ \A m \in Stored : Range(Route[m]) \subseteq Range(Route'[m])
<1>1. /\ TableSound' /\ live' = live \cup {next} /\ next' = next + 1 /\ next \in Ids
      /\ \A m \in Stored : Range(Route[m]) \subseteq Range(Route'[m])
      /\ role'[next] = "summary" /\ \A m \in live : role'[m] = role[m]
  <2>1. CASE \E q \in Stored : Insert("summary", q)
    BY <2>1, InsertTable
  <2>2. CASE \E below \in live : Splice(parent[below], below)
    BY <2>2, SpliceTable
  <2> QED BY <2>1, <2>2
<1>2. next \in Nat \ {0} /\ turnOf[next] \in Nat /\ turnOf[next] < next
  BY <1>1, SessionTreeAssumption DEF Base, TypeOK, AnswerInv, Answered
<1>3. turnOf'[next] < next' /\ turnOf'[next] \in Nat
  BY <1>1, <1>2
<1>4. \A m \in live : role'[m] = role[m] /\ Range(Route[m]) \subseteq Range(Route'[m])
  BY <1>1 DEF Stored
<1>5. role'[next] # "reply"
  BY <1>1
<1>6. Answered'
  BY <1>1, <1>3, <1>4, <1>5, AnsweredMore DEF AnswerInv
<1> QED BY <1>1, <1>2, <1>6

LEMMA AnswerCompaction ==
    ASSUME Base, Base', "restore" \notin Faults, AnswerInv, NEW how \in Outcomes, Compaction(how)
    PROVE  AnswerInv'
<1>0. TableSound /\ Anchored /\ turn \in Nat /\ next \in Nat
  BY BaseIs
<1>1. PICK p \in {StoredPath} : \E c \in Cuts(p) : CompactSession(p, c, how) \/ CompactRun(p, c, how)
  BY DEF Compaction
<1>2. PICK c \in Cuts(p) : CompactSession(p, c, how) \/ CompactRun(p, c, how)
  BY <1>1
<1> DEFINE first == p[c]
<1>3. first \in live /\ parent[first] \in Stored /\ how # "restore"
  BY <1>0 DEF TableSound, Rooted, Cuts, Outcomes
<1>4. CompactPath(p, c, how) /\ UNCHANGED turnOf
  BY <1>2 DEF CompactSession, CompactRun
<1> HIDE DEF first
<1>5. \/ UNCHANGED table /\ how = "insert"
      \/ /\ Insert("summary", parent[first]) \/ Splice(parent[first], first)
         /\ leaf' = Tip \/ how = "leaf"
  BY <1>3, <1>4 DEF CompactPath, AppendRow, first
<1>6. CASE pc = "idle"
  <2>1. turn = 0 /\ turn' = 0 /\ pc' = "idle"
    BY <1>2, <1>6 DEF AnswerInv, Answering, CompactSession, CompactRun
  <2>2. CASE UNCHANGED table
    <3>1. Answered'
      BY <1>4, <2>2, AnsweredSame DEF AnswerInv, table
    <3>2. turn' < next'
      BY <2>1, <2>2 DEF AnswerInv, Answering, table
    <3> QED BY <2>1, <3>1, <3>2 DEF AnswerInv, Answering
  <2>3. CASE Insert("summary", parent[first]) \/ Splice(parent[first], first)
    <3>1. Answered' /\ 0 < next'
      BY <1>3, <1>4, <2>3, AnswerSummary
    <3> QED BY <2>1, <3>1 DEF AnswerInv, Answering
  <2> QED BY <1>5, <2>2, <2>3
<1>7. CASE pc # "idle"
  <2>1. CompactRun(p, c, how)
    BY <1>2, <1>7 DEF CompactSession
  <2>2. CASE how \in {"insert", "leaf"}
    <3>1. turn' = 0 /\ pc' = "idle"
      BY <2>1, <2>2 DEF CompactRun, Over
    <3>2. CASE UNCHANGED table
      <4>1. Answered'
        BY <1>4, <3>2, AnsweredSame DEF AnswerInv, table
      <4>2. turn' < next'
        BY <1>0, <3>1, <3>2 DEF AnswerInv, Answering, table
      <4> QED BY <3>1, <4>1, <4>2 DEF AnswerInv, Answering
    <3>3. CASE Insert("summary", parent[first]) \/ Splice(parent[first], first)
      <4>1. Answered' /\ 0 < next'
        BY <1>3, <1>4, <3>3, AnswerSummary
      <4> QED BY <3>1, <4>1 DEF AnswerInv, Answering
    <3> QED BY <1>5, <3>2, <3>3
  <2>3. CASE how \notin {"insert", "leaf"}
    <3>1. turn' = turn /\ pc' = "spliced"
      BY <2>1, <2>3 DEF CompactRun, Over
    <3>2. leaf' = Tip /\ (Insert("summary", parent[first]) \/ Splice(parent[first], first))
      BY <1>5, <2>3
    <3>3. /\ Answered' /\ next' = next + 1 /\ live \subseteq live'
          /\ \A m \in Stored : Range(Route[m]) \subseteq Range(Route'[m])
      BY <1>3, <1>4, <3>2, AnswerSummary
    <3>4. turn < next /\ (turn # 0 => leaf \in live /\ turn \in Range(Route[leaf]) /\ Tip = leaf)
      BY <1>0, LeafIsTip DEF AnswerInv, Answering
    <3>5. turn' < next'
      BY <1>0, <3>1, <3>3, <3>4
    <3>6. turn # 0 => leaf' = leaf /\ leaf' \in live' /\ turn \in Range(Route'[leaf])
      BY <3>2, <3>3, <3>4 DEF Stored
    <3>7. turn' # 0 => leaf' \in live' /\ turn' \in Range(Route'[leaf'])
      BY <3>1, <3>6
    <3> QED BY <3>1, <3>3, <3>5, <3>7 DEF AnswerInv, Answering
  <2> QED BY <2>2, <2>3
<1> QED BY <1>6, <1>7

LEMMA AnswerFork ==
    ASSUME Base, Base', "race" \notin Windows, AnswerInv, NEW how \in Outcomes, Fork(how)
    PROVE  AnswerInv'
<1>0. TableSound /\ Anchored /\ next \in Nat \ {0}
  BY BaseIs
<1>1. PICK n \in live \cup {0}, after \in BOOLEAN :
        ForkSession(n, after, how) \/ ForkSummarized(n, after, how)
  BY DEF Fork
<1>2. ClearRetry /\ UNCHANGED turnOf
  BY <1>1 DEF ForkSession, ForkSummarized, ghost
<1>3. turn' = 0 /\ pc' = "idle"
  BY <1>2 DEF Fork, MayFork, ClearRetry, Over
<1>4. Targets(n) \subseteq Stored
  BY LastUserIsStored DEF Targets, Stored
<1>5. CASE ForkSession(n, after, how)
  <2>1. UNCHANGED <<live, parent, role, next>>
    BY <1>5 DEF ForkSession
  <2>2. Answered' /\ 0 < next'
    BY <1>0, <1>2, <2>1, AnsweredSame DEF AnswerInv
  <2> QED BY <1>3, <2>2 DEF AnswerInv, Answering
<1>6. CASE ForkSummarized(n, after, how)
  <2>1. PICK t \in Targets(n) :
          /\ t # 0
          /\ \/ AppendRow("summary", parent[t], how)
             \/ Insert("summary", parent[t])
             \/ Splice(parent[t], t)
    BY <1>6 DEF ForkSummarized
  <2>2. t \in live /\ parent[t] \in Stored
    BY <1>0, <1>4, <2>1 DEF TableSound, Rooted, Stored
  <2>3. CASE UNCHANGED table
    <3>1. Answered' /\ 0 < next'
      BY <1>0, <1>2, <2>3, AnsweredSame DEF AnswerInv, table
    <3> QED BY <1>3, <3>1 DEF AnswerInv, Answering
  <2>4. CASE Insert("summary", parent[t]) \/ Splice(parent[t], t)
    <3>1. Answered' /\ 0 < next'
      BY <1>2, <2>2, <2>4, AnswerSummary
    <3> QED BY <1>3, <3>1 DEF AnswerInv, Answering
  <2> QED BY <2>1, <2>3, <2>4 DEF AppendRow
<1> QED BY <1>1, <1>5, <1>6

LEMMA AnswerDelete ==
    ASSUME Base, Base', Survivable, AnswerInv, NEW how \in Outcomes, Delete(how)
    PROVE  AnswerInv'
<1>0. TableSound /\ next \in Nat \ {0} /\ live \subseteq Ids
  BY BaseIs
<1> PICK m \in live :
      \E d \in Branches(m) : DeleteBranch(m, d, how) \/ (how = "delete" /\ DeleteFails(m, d))
  BY DEF Delete
<1>1. PICK d \in Branches(m) : DeleteBranch(m, d, how) \/ (how = "delete" /\ DeleteFails(m, d))
  OBVIOUS
<1>2. how \notin {"delete", "refresh"}
  BY DEF Survivable, Outcomes
<1>3. DeleteBranch(m, d, how)
  BY <1>1, <1>2
<1>4. turn' = 0 /\ pc' = "idle" /\ UNCHANGED <<parent, role, next, turnOf>>
  BY <1>3 DEF DeleteBranch, Over, ghost
<1>5. CASE UNCHANGED live
  <2>1. Answered' /\ 0 < next'
    BY <1>0, <1>4, <1>5, AnsweredSame DEF AnswerInv
  <2> QED BY <1>4, <2>1 DEF AnswerInv, Answering
<1>6. CASE live' = live \ d
  <2>1. Stored' = Stored \ d /\ \A o \in Stored' : Route'[o] = Route[o]
    BY <1>0, <1>4, <1>6, DeleteRoutes
  <2>2. \A o \in live' : o \in live /\ Route'[o] = Route[o]
    BY <1>6, <2>1 DEF Stored
  <2>3. Answered'
    BY <1>4, <1>6, <2>2 DEF AnswerInv, Answered
  <2>4. 0 < next'
    BY <1>0, <1>4
  <2> QED BY <1>4, <2>3, <2>4 DEF AnswerInv, Answering
<1> QED BY <1>3, <1>5, <1>6 DEF DeleteBranch

LEMMA AnswerResend ==
    ASSUME Base, Base', "race" \notin Windows, AnswerInv, NEW how \in Outcomes, Resend(how)
    PROVE  AnswerInv'
<1>0. TableSound /\ next \in Nat \ {0} /\ Anchored
  BY BaseIs
<1>1. CASE ReplayFork(how)
  <2>1. Fork(how)
    BY <1>1 DEF Resend, ReplayFork, Fork, MayFork
  <2> QED BY <2>1, AnswerFork
<1>2. CASE Replay(how)
  <2>1. PICK t \in live \cup {0}, tip \in Stored :
             /\ t = LastUser(ActivePath) /\ tip = IF t = 0 THEN Tip ELSE parent[t]
             /\ IF how = "insert" THEN UNCHANGED <<live, parent, role, next>>
                                  ELSE Insert("user", tip)
             /\ leaf' = IF how = "ok" THEN next ELSE IF t = 0 THEN leaf ELSE tip
             /\ path' = Append(PathTo(tip), IF how = "ok" THEN next ELSE 0)
             /\ mleaf' = IF how = "ok" THEN next ELSE tip
    BY <1>2, ReplayTip
  <2>2. /\ pc' = "streaming" /\ turn' = (IF how = "ok" THEN next ELSE 0) /\ turnOf' = turnOf
    BY <1>2 DEF Replay
  <2>3. CASE how = "insert"
    <3>1. Answered' /\ 0 < next'
      BY <1>0, <2>1, <2>2, <2>3, AnsweredSame DEF AnswerInv
    <3> QED BY <2>2, <2>3, <3>1 DEF AnswerInv, Answering
  <2>4. CASE how # "insert"
    <3>1. Insert("user", tip)
      BY <2>1, <2>4
    <3>2. /\ TableSound' /\ live' = live \cup {next} /\ next' = next + 1 /\ next \in Ids
          /\ \A m \in Stored : Route'[m] = Route[m]
          /\ Range(Route'[next]) = Range(Route[tip]) \cup {next}
          /\ role'[next] = "user" /\ \A m \in live : role'[m] = role[m]
          /\ next \notin Stored /\ Stored' = Stored \cup {next}
      BY <3>1, InsertTable
    <3>3. \A m \in live : role'[m] = role[m] /\ Range(Route[m]) \subseteq Range(Route'[m])
      BY <3>2 DEF Stored
    <3>4. turnOf[next] \in Nat /\ turnOf[next] < next
      BY <3>2, SessionTreeAssumption DEF AnswerInv, Answered, Base, TypeOK
    <3>5. turnOf'[next] < next' /\ turnOf'[next] \in Nat /\ next < next' /\ 0 < next'
      BY <1>0, <2>2, <3>2, <3>4
    <3>6. Answered'
      BY <2>2, <3>2, <3>3, <3>5, AnsweredMore DEF AnswerInv
    <3>7. CASE how = "ok"
      <4>1. leaf' = next /\ mleaf' = next /\ next \in live' /\ next \in Range(Route'[next])
        BY <2>1, <3>2, <3>7
      <4> QED BY <2>2, <3>5, <3>6, <3>7, <4>1 DEF AnswerInv, Answering
    <3>8. CASE how # "ok"
      BY <2>2, <3>5, <3>6, <3>8 DEF AnswerInv, Answering
    <3> QED BY <3>7, <3>8
  <2> QED BY <2>3, <2>4
<1> QED BY <1>1, <1>2 DEF Resend

LEMMA AnswerStep ==
    ASSUME Base, Base', Survivable, "race" \notin Windows, "restore" \notin Faults,
           AnswerInv, [Next]_vars
    PROVE  AnswerInv'
<1>0. TableSound /\ Anchored /\ TableSound'
  <2>1. (Base => TableSound /\ TableTyped /\ Anchored)'
    BY BaseSound, PTL
  <2> QED BY <2>1, BaseSound
<1>a. mleaf \in Stored /\ (pc = "commit" => base \in Stored) /\ (turn = 0 \/ pc # "idle")
  BY <1>0 DEF Anchored, AnswerInv, Answering
<1>1. CASE \E how \in Outcomes : Turn(how) \/ Compaction(how) \/ Rewind(how)
  BY <1>1, AnswerTurn, AnswerCompaction, AnswerFork, AnswerDelete, AnswerResend DEF Rewind
<1>2. CASE \E w \in Reasons : Finish(w)
  <2>1. /\ pc = "streaming" /\ pc' = "ending" /\ UNCHANGED <<table, mleaf, turn, turnOf>>
    BY <1>2 DEF Finish, memory, ghost
  <2>2. turn # 0 => turn \in Range(Route[mleaf])
    BY <2>1 DEF AnswerInv, Answering
  <2>3. CASE turn = 0
    BY <1>a, <2>1, <2>3, AnswerSame DEF table
  <2>4. CASE turn # 0
    BY <1>a, <2>1, <2>2, <2>4, AnswerSame DEF table
  <2> QED BY <2>3, <2>4
<1>3. CASE BeginCommit
  <2>1. /\ pc = "ending" /\ pc' = "commit" /\ base' = mleaf /\ UNCHANGED <<table, mleaf, turn, turnOf>>
    BY <1>3 DEF BeginCommit, ghost
  <2>2. turn # 0 => turn \in Range(Route[mleaf])
    BY <2>1 DEF AnswerInv, Answering
  <2>3. CASE turn = 0
    BY <1>a, <2>1, <2>3, AnswerSame DEF table
  <2>4. CASE turn # 0
    BY <1>a, <2>1, <2>2, <2>4, AnswerSame DEF table
  <2> QED BY <2>3, <2>4
<1>4. CASE NoCompaction \/ Exhausted \/ CancelRetry
  <2>1. turn' = 0 /\ pc' = "idle" /\ UNCHANGED <<table, mleaf, turnOf>>
    BY <1>4 DEF NoCompaction, Exhausted, CancelRetry, Over, memory, ghost
  <2> QED BY <1>a, <2>1, AnswerSame DEF table
<1>5. CASE LoadSession
  <2>1. turn' = 0 /\ pc' = "idle" /\ UNCHANGED <<table, turnOf>> /\ mleaf' = Tip'
    BY <1>5 DEF LoadSession, Over, ghost, Reload
  <2>2. Tip' = Tip /\ Tip \in Stored
    BY <1>0, <2>1, SamePath, Routes
  <2> QED BY <2>1, <2>2, AnswerSame DEF table
<1>6. CASE UNCHANGED vars
  <2>1. UNCHANGED <<table, mleaf, turn, turnOf, pc, base>>
    BY <1>6 DEF vars, memory, run, ghost
  <2>2. CASE turn = 0
    BY <1>a, <2>1, <2>2, AnswerSame DEF table
  <2>3. CASE turn # 0
    <3>1. /\ pc \in {"streaming", "ending"} => turn \in Range(Route[mleaf])
          /\ pc = "commit" => turn \in Range(Route[base])
      BY <2>3 DEF AnswerInv, Answering
    <3> QED BY <1>a, <2>1, <2>3, <3>1, AnswerSame DEF table
  <2> QED BY <2>2, <2>3
<1> QED BY <1>1, <1>2, <1>3, <1>4, <1>5, <1>6 DEF Next

\* Every reply hangs, by some chain, from the prompt it answers while that is
\* stored: whether its row came at the first tool call, at the commit, with a
\* partial or in an aborted creation, and whatever has been compacted, forked
\* or resumed in between.
THEOREM ReplyUnderPromptSafe ==
    ASSUME Survivable, "race" \notin Windows, "restore" \notin Faults
    PROVE  Spec => []ReplyUnderPrompt
<1>1. Spec => []Base
  BY BaseHolds
<1>2. Init => AnswerInv
  BY SessionTreeAssumption DEF Init, AnswerInv, Answered, Answering, Ids
<1>3. Base /\ Base' /\ AnswerInv /\ [Next]_vars => AnswerInv'
  BY AnswerStep
<1>4. Base /\ AnswerInv => ReplyUnderPrompt
  <2> SUFFICES ASSUME Base, AnswerInv, NEW m \in live, role[m] = "reply", turnOf[m] \in live
               PROVE  turnOf[m] \in Range(PathTo(m))
    BY DEF ReplyUnderPrompt
  <2>1. Route[m] = PathTo(m)
    <3>1. m \in 0..MaxId
      BY BaseSound, Routes DEF Stored
    <3> QED BY <3>1 DEF Route
  <2> QED BY <2>1 DEF AnswerInv, Answered
<1> QED BY <1>1, <1>2, <1>3, <1>4, PTL DEF Spec

(***************************************************************************)
(* What summaries stand for                                                *)
(***************************************************************************)
Covering == \A s \in live : role[s] = "summary" =>
    \A x \in Range(Route[s]) : x = s \/ role[x] = "summary" \/ x \in covers[s]

Bounded == \A m \in Ids : covers[m] \subseteq 1..next - 1

\* The run that is under way writes where no summary reaches.
Aside == turn # 0 =>
    /\ pc # "idle" /\ leaf \in live /\ \A m \in Ids : leaf \notin covers[m]
    /\ pc \in {"streaming", "ending"} => row \in {0, leaf}

CoverInv == Covering /\ Bounded /\ Aside

LEMMA CoversIs == Base => covers \in [Ids -> SUBSET Ids] /\ row \in 0..MaxId
BY DEF Base, TypeOK

\* A new row, which joins a path only at its end or as a summary.
LEMMA CoversMore ==
    ASSUME Base, Covering, Bounded, live' = live \cup {next}, next' = next + 1, next \in Ids,
           \A m \in live : role'[m] = role[m],
           \A m \in live : \A x \in Range(Route'[m]) :
               x \in Range(Route[m]) \/ (x = next /\ role'[next] = "summary"),
           \A m \in Ids : m # next => covers'[m] = covers[m],
           covers'[next] \subseteq 1..next - 1,
           role'[next] = "summary" => \A x \in Range(Route'[next]) :
               x = next \/ (x \in live /\ (role[x] = "summary" \/ x \in covers'[next]))
    PROVE  Covering' /\ Bounded'
<1>0. TableSound /\ live \subseteq Ids /\ next \notin live /\ next \in Nat
  <2>1. TableSound /\ live \subseteq Ids /\ next \in Nat
    BY BaseIs
  <2> QED BY <2>1 DEF TableSound, Numbered
<1>1. Bounded'
  <2> SUFFICES ASSUME NEW m \in Ids PROVE covers'[m] \subseteq 1..next' - 1
    BY DEF Bounded
  <2>1. covers'[m] \subseteq 1..next - 1
    BY DEF Bounded
  <2> QED BY <1>0, <2>1
<1>2. ASSUME NEW s \in live', role'[s] = "summary", NEW x \in Range(Route'[s])
      PROVE  x = s \/ role'[x] = "summary" \/ x \in covers'[s]
  <2>1. CASE s = next
    BY <1>2, <2>1
  <2>2. CASE s # next
    <3>1. s \in live /\ role[s] = "summary" /\ covers'[s] = covers[s]
      BY <1>0, <1>2, <2>2
    <3>2. CASE x \in Range(Route[s])
      <4>1. x \in live
        <5>1. Chain(Route[s], s, live, parent)
          BY <1>0, <3>1, Routes DEF Stored
        <5> QED BY <3>2, <5>1, ChainClosed
      <4>2. x = s \/ role[x] = "summary" \/ x \in covers[s]
        BY <3>1, <3>2 DEF Covering
      <4> QED BY <3>1, <4>1, <4>2
    <3> QED BY <1>2, <3>1, <3>2
  <2> QED BY <2>1, <2>2
<1> QED BY <1>1, <1>2 DEF Covering

LEMMA CoversSame ==
    ASSUME Base, Covering, Bounded, UNCHANGED <<live, parent, next, role>>,
           \A m \in Ids : m # next => covers'[m] = covers[m],
           next \in Ids => covers'[next] \subseteq 1..next - 1
    PROVE  Covering' /\ Bounded'
<1>0. TableSound /\ live \subseteq Ids /\ next \notin live
  <2>1. TableSound /\ live \subseteq Ids /\ next \in Nat
    BY BaseIs
  <2> QED BY <2>1 DEF TableSound, Numbered
<1>1. \A m \in live : Route'[m] = Route[m]
  BY <1>0, SameRoutes DEF Stored
<1>2. \A m \in live : covers'[m] = covers[m]
  BY <1>0
<1>3. Bounded'
  BY DEF Bounded
<1>4. Covering'
  BY <1>1, <1>2 DEF Covering
<1> QED BY <1>3, <1>4

\* A row that is no summary.
LEMMA CoversInsert ==
    ASSUME Base, Covering, Bounded, NEW r, r # "summary", NEW q \in Stored, Insert(r, q),
           UNCHANGED covers
    PROVE  Covering' /\ Bounded' /\ \A m \in Ids : next \notin covers[m]
<1>1. /\ live' = live \cup {next} /\ next' = next + 1 /\ next \in Ids
      /\ \A m \in Stored : Route'[m] = Route[m]
      /\ role'[next] = r /\ \A m \in live : role'[m] = role[m]
  BY InsertTable
<1>2. \A m \in live : \A x \in Range(Route'[m]) :
               x \in Range(Route[m]) \/ (x = next /\ role'[next] = "summary")
  BY <1>1 DEF Stored
<1>3. covers'[next] \subseteq 1..next - 1
  BY <1>1 DEF Bounded
<1>4. Covering' /\ Bounded'
  BY <1>1, <1>2, <1>3, CoversMore
<1>5. \A m \in Ids : next \notin covers[m]
  <2>1. next \in Nat
    BY BaseIs
  <2> QED BY <2>1 DEF Bounded
<1> QED BY <1>4, <1>5

\* What a summary of rows stands for is older than it.
LEMMA CoveredBounds ==
    ASSUME Base, Bounded, NEW ms \in SUBSET live
    PROVE  /\ Covered(ms) \subseteq 1..next - 1 /\ ms \subseteq Covered(ms)
           /\ \A m \in ms : covers[m] \subseteq Covered(ms)
           /\ \A x \in Covered(ms) : x \in ms \/ \E m \in Ids : x \in covers[m]
<1>1. live \subseteq 1..next - 1 /\ live \subseteq Ids
  BY BaseIs DEF TableSound, Numbered
<1>2. \A m \in live : covers[m] \subseteq 1..next - 1
  BY <1>1 DEF Bounded
<1> QED BY <1>1, <1>2 DEF Covered

\* A summary's row, or none when its insert fails.
LEMMA CoversSummary ==
    ASSUME Base, Covering, Bounded, next \in Ids, NEW q \in Stored, NEW C \in SUBSET (1..next - 1),
           covers' = [covers EXCEPT ![next] = C],
           \A x \in Range(Route[q]) : role[x] = "summary" \/ x \in C,
           \/ UNCHANGED table
           \/ Insert("summary", q)
           \/ \E below \in live : q = parent[below] /\ Splice(q, below)
    PROVE  Covering' /\ Bounded' /\ \A m \in Ids : covers'[m] \subseteq covers[m] \cup C
<1>0. TableSound /\ live \subseteq Ids /\ covers \in [Ids -> SUBSET Ids]
  BY BaseIs, CoversIs
<1>1. /\ covers'[next] = C /\ \A m \in Ids : m # next => covers'[m] = covers[m]
      /\ \A m \in Ids : covers'[m] \subseteq covers[m] \cup C
  BY <1>0
<1>2. CASE UNCHANGED table
  BY <1>1, <1>2, CoversSame DEF table
<1>3. CASE \/ Insert("summary", q)
           \/ \E below \in live : q = parent[below] /\ Splice(q, below)
  <2>1. /\ live' = live \cup {next} /\ next' = next + 1 /\ next \in Ids
        /\ role'[next] = "summary" /\ \A m \in live : role'[m] = role[m]
        /\ Range(Route'[next]) = Range(Route[q]) \cup {next}
        /\ \A m \in Stored : Range(Route'[m]) \subseteq Range(Route[m]) \cup {next}
    <3>1. CASE Insert("summary", q)
      BY <3>1, InsertTable
    <3>2. CASE \E below \in live : q = parent[below] /\ Splice(q, below)
      <4>1. PICK below \in live : q = parent[below] /\ Splice(q, below)
        BY <3>2
      <4>2. \A m \in Stored :
                /\ Range(Route[m]) \subseteq Range(Route'[m])
                /\ Range(Route'[m]) \subseteq Range(Route[m]) \cup {next}
                /\ below \notin Range(Route[m]) => Route'[m] = Route[m]
        BY <1>0, <4>1, SpliceRoutes
      <4> QED BY <4>1, <4>2, SpliceTable
    <3> QED BY <1>3, <3>1, <3>2
  <2>2. \A m \in live : \A x \in Range(Route'[m]) :
               x \in Range(Route[m]) \/ (x = next /\ role'[next] = "summary")
    BY <2>1 DEF Stored
  <2>3. Range(Route[q]) \subseteq live
    BY <1>0, Routes, ChainClosed
  <2>4. \A x \in Range(Route'[next]) :
               x = next \/ (x \in live /\ (role[x] = "summary" \/ x \in covers'[next]))
    BY <1>1, <2>1, <2>3
  <2>5. Covering' /\ Bounded'
    BY <1>1, <2>1, <2>2, <2>4, CoversMore
  <2> QED BY <1>1, <2>5
<1> QED BY <1>2, <1>3

\* A sound path is all rows.
LEMMA StoredPathIs == ASSUME TableSound PROVE StoredPath = ActivePath
<1>1. ActivePath = <<>> \/ Head(ActivePath) \in live
  <2>1. ActivePath \in Seq(live)
    BY Routes DEF Chain
  <2> QED BY <2>1
<1> QED BY <1>1 DEF StoredPath

\* A compaction's summary stands for all above the tail that is kept, by
\* itself or by the summary before it, and not for where the path ends.
LEMMA CompactCovers ==
    ASSUME Base, Covering, Bounded, NEW p, p = StoredPath, NEW c \in Cuts(p)
    PROVE  /\ p[c] \in live /\ parent[p[c]] \in Stored /\ Span(p, c) \in SUBSET live
           /\ \A x \in Range(Route[parent[p[c]]]) : role[x] = "summary" \/ x \in Covered(Span(p, c))
           /\ Tip \notin Span(p, c)
<1>0. TableSound /\ TableTyped
  BY BaseIs
<1>1. /\ p = Route[Tip] /\ Tip \in Stored /\ Chain(p, Tip, live, parent)
      /\ 0 \notin live
  BY <1>0, StoredPathIs, Routes
<1>2. p \in Seq(Ids) /\ p \in Seq(live)
  BY <1>0, <1>1, StoredPathTyped DEF Chain
<1> DEFINE st == Start(p)
           sp == Span(p, c)
           first == p[c]
           l == LastPlace(p, "summary")
<1>3. /\ st \in DOMAIN p /\ c \in DOMAIN p /\ c - 1 \in DOMAIN p
      /\ st <= c - 1 /\ first \in live
      /\ st = (IF l = 0 THEN 1 ELSE l)
      /\ sp = {p[i] : i \in st..c - 1}
  BY <1>2, CutsTyped
<1>4. l # 0 => role[p[l]] = "summary"
  BY <1>2, LastPlaceIs
<1> HIDE DEF st, sp, first, l
<1>5. DOMAIN p = 1..Len(p) /\ Len(p) \in Nat /\ \A i \in DOMAIN p : p[i] \in live
  BY <1>1, ChainLen
<1>6. sp \in SUBSET live
  BY <1>3, <1>5
<1>7. parent[first] = p[c - 1]
  <2>1. parent[p[c]] = p[c - 1]
    <3> DEFINE i == c - 1
    <3>1. i \in DOMAIN p /\ i + 1 \in DOMAIN p /\ i + 1 = c
      BY <1>3, <1>5
    <3> HIDE DEF i
    <3>2. Tip # 0
      BY <1>1, <1>3, <1>5, ChainLen
    <3>3. parent[p[i+1]] = p[i]
      BY <1>1, <3>1, <3>2 DEF Chain
    <3> QED BY <3>1, <3>3 DEF i
  <2> QED BY <2>1 DEF first
<1>8. \A j \in DOMAIN p : Range(Route[p[j]]) = {p[i] : i \in 1..j}
  <2> TAKE j \in DOMAIN p
  <2>1. PICK m \in Stored : m = Tip
    BY <1>1
  <2>2. p = Route[m] /\ j \in DOMAIN Route[m]
    BY <1>1, <2>1
  <2>3. Range(Route[Route[m][j]]) = {Route[m][i] : i \in 1..j}
    BY <1>0, <2>2, PathUpTo
  <2> QED BY <2>2, <2>3
<1>9. ASSUME NEW x \in Range(Route[parent[first]])
      PROVE  role[x] = "summary" \/ x \in Covered(sp)
  <2>1. PICK i \in 1..c - 1 : x = p[i]
    BY <1>3, <1>7, <1>8, <1>9
  <2>2. CASE i \in st..c - 1
    BY <1>3, <1>6, <2>1, <2>2, CoveredBounds
  <2>3. CASE i \notin st..c - 1
    <3>1. i < st /\ l # 0 /\ l = st /\ i \in 1..l
      BY <1>3, <1>5, <2>1, <2>3
    <3> DEFINE s == p[l]
    <3>2. s \in live /\ role[s] = "summary" /\ s \in sp /\ l \in DOMAIN p
      BY <1>3, <1>4, <1>5, <3>1
    <3>3. x \in Range(Route[s])
      BY <1>8, <2>1, <3>1, <3>2
    <3>4. x # s
      <4>1. i \in DOMAIN p /\ i # l
        BY <1>3, <1>5, <2>1, <3>1
      <4> QED BY <1>1, <2>1, <3>2, <4>1, ChainInjective
    <3> HIDE DEF s
    <3>5. role[x] = "summary" \/ x \in covers[s]
      BY <3>2, <3>3, <3>4 DEF Covering
    <3>6. covers[s] \subseteq Covered(sp)
      BY <1>6, <3>2, CoveredBounds
    <3> QED BY <3>5, <3>6
  <2> QED BY <2>2, <2>3
<1>10. Tip \notin sp
  <2> SUFFICES ASSUME Tip \in sp PROVE FALSE
    OBVIOUS
  <2>1. PICK i \in st..c - 1 : p[i] = Tip
    BY <1>3
  <2>2. i \in DOMAIN p /\ i # Len(p) /\ Len(p) \in DOMAIN p
    <3>1. st \in 1..Len(p) /\ c \in 1..Len(p) /\ Len(p) \in Nat
      BY <1>3, <1>5
    <3>2. i \in 1..Len(p) /\ i # Len(p) /\ Len(p) \in 1..Len(p)
      BY <2>1, <3>1
    <3> QED BY <1>5, <3>2
  <2>3. p[Len(p)] = Tip
    <3>1. Tip # 0
      BY <1>1, <2>2, ChainLen
    <3> QED BY <1>1, <3>1 DEF Chain
  <2> QED BY <1>1, <2>1, <2>2, <2>3, ChainInjective
<1>11. parent[first] \in Stored
  BY <1>0, <1>3 DEF TableSound, Rooted
<1> QED BY <1>3, <1>6, <1>9, <1>10, <1>11 DEF sp, first

\* What a row hangs from is on the path to it.
LEMMA PathAbove ==
    ASSUME TableSound, NEW t \in live
    PROVE  /\ parent[t] \in Stored /\ Range(Route[parent[t]]) \subseteq Range(Route[t])
           /\ Range(Route[t]) \subseteq live /\ Range(Route[parent[t]]) \subseteq live
<1>1. t \in Stored /\ parent[t] \in Stored /\ 0 \notin live
  BY Routes DEF TableSound, Rooted, Stored
<1>2. PICK q \in Stored : q = parent[t]
  BY <1>1
<1>3. Chain(Route[t], t, live, parent) /\ Chain(Route[q], q, live, parent)
  BY <1>1, Routes
<1> DEFINE s == Range(Route[t])
<1>4. /\ s \subseteq live /\ t \in s /\ \A x \in s : parent[x] \in s \cup {0}
  <2>1. t # 0
    BY <1>1
  <2> QED BY <1>3, <2>1, ChainClosed
<1>5. q # 0 => q \in s
  BY <1>2, <1>4
<1> HIDE DEF s
<1>6. Range(Route[q]) \subseteq s
  BY <1>1, <1>3, <1>4, <1>5, ChainLeast
<1> QED BY <1>1, <1>2, <1>4, <1>6 DEF s

\* A fork's summary stands for what it is put in the place of.
LEMMA ForkCovers ==
    ASSUME Base, Bounded, NEW t \in live, NEW after
    PROVE  /\ parent[t] \in Stored /\ Range(PathTo(ForkTip(t, after))) \in SUBSET live
           /\ \A x \in Range(Route[parent[t]]) : x \in Covered(Range(PathTo(ForkTip(t, after))))
<1>1. TableSound
  BY BaseIs
<1>2. PICK f \in {t, parent[t]} : f = ForkTip(t, after)
  BY DEF ForkTip
<1>3. f \in 0..MaxId
  BY <1>1, Routes, PathAbove DEF Stored
<1>4. PathTo(f) = Route[f]
  BY <1>3 DEF Route
<1>5. Range(PathTo(f)) \in SUBSET live /\ Range(Route[parent[t]]) \subseteq Range(PathTo(f))
  BY <1>1, <1>2, <1>4, PathAbove
<1>6. Range(PathTo(f)) \subseteq Covered(Range(PathTo(f)))
  BY <1>5, CoveredBounds
<1> QED BY <1>1, <1>2, <1>5, <1>6, PathAbove

\* A row of the run's or the user's, which the leaf goes to or does not.
LEMMA AppendCovers ==
    ASSUME Base, CoverInv, NEW r, r # "summary", NEW q \in Stored, NEW how, AppendRow(r, q, how),
           UNCHANGED covers
    PROVE  /\ Covering' /\ Bounded'
           /\ how = "ok" => leaf' = next /\ next \in live' /\ \A m \in Ids : next \notin covers'[m]
           /\ how # "ok" => leaf' = leaf /\ live \subseteq live'
<1>1. CASE how = "insert" /\ UNCHANGED table
  <2>1. next \in Ids => covers'[next] \subseteq 1..next - 1
    BY DEF CoverInv, Bounded
  <2>2. Covering' /\ Bounded'
    BY <1>1, <2>1, CoversSame DEF CoverInv, table
  <2> QED BY <1>1, <2>2 DEF table
<1>2. CASE how # "insert" /\ Insert(r, q)
  <2>1. Covering' /\ Bounded' /\ \A m \in Ids : next \notin covers[m]
    BY <1>2, CoversInsert DEF CoverInv
  <2>2. live' = live \cup {next}
    BY <1>2 DEF Insert
  <2> QED BY <1>2, <2>1, <2>2 DEF AppendRow
<1> QED BY <1>1, <1>2 DEF AppendRow

LEMMA CoversTable ==
    ASSUME Base, CoverInv, UNCHANGED <<live, parent, next, role, covers>>
    PROVE  Covering' /\ Bounded'
<1>1. next \in Ids => covers'[next] \subseteq 1..next - 1
  BY DEF CoverInv, Bounded
<1> QED BY <1>1, CoversSame DEF CoverInv

LEMMA CoverTurn ==
    ASSUME Base, CoverInv, NEW how \in Outcomes, Turn(how)
    PROVE  CoverInv'
<1>0. /\ TableSound /\ mleaf \in Stored /\ (pc = "commit" => base \in Stored)
  BY BaseIs DEF Anchored
<1>1. CASE SendMessage(how)
  <2>1. /\ AppendRow("user", mleaf, how) /\ UNCHANGED covers /\ pc = "idle"
        /\ IF how = "ok" THEN turn' = next /\ pc' = "streaming" /\ row' = 0
                         ELSE UNCHANGED <<turn, pc, row>>
    BY <1>1 DEF SendMessage
  <2>2. turn = 0
    BY <2>1 DEF CoverInv, Aside
  <2>3. /\ Covering' /\ Bounded'
        /\ how = "ok" => leaf' = next /\ next \in live' /\ \A m \in Ids : next \notin covers'[m]
    BY <1>0, <2>1, AppendCovers
  <2>4. Aside'
    BY <2>1, <2>2, <2>3 DEF CoverInv, Aside
  <2> QED BY <2>3, <2>4 DEF CoverInv
<1>2. CASE ToolStarts(how)
  <2>1. /\ AppendRow("reply", mleaf, how) /\ UNCHANGED <<covers, pc, turn>> /\ pc = "streaming"
        /\ row = 0 /\ row' = IF how = "ok" THEN next ELSE row
    BY <1>2 DEF ToolStarts
  <2>2. /\ Covering' /\ Bounded'
        /\ how = "ok" => leaf' = next /\ next \in live' /\ \A m \in Ids : next \notin covers'[m]
        /\ how # "ok" => leaf' = leaf /\ live \subseteq live'
    BY <1>0, <2>1, AppendCovers
  <2>3. Aside'
    BY <2>1, <2>2 DEF CoverInv, Aside
  <2> QED BY <2>2, <2>3 DEF CoverInv
<1>3. CASE CommitReply(how)
  <2>1. /\ turn' = 0 /\ UNCHANGED covers
        /\ UNCHANGED table \/ AppendRow("reply", base, how)
        /\ pc = "commit"
    BY <1>3 DEF CommitReply, Over
  <2>2. Covering' /\ Bounded'
    BY <1>0, <2>1, AppendCovers, CoversTable DEF table
  <2> QED BY <2>1, <2>2 DEF CoverInv, Aside
<1>4. ASSUME NEW w, Partial(w, how), UNCHANGED covers,
             turn' = 0 \/ (turn' = turn /\ pc' \in {"failed", "compact"})
      PROVE  CoverInv'
  <2>1. CASE UNCHANGED table
    <3>1. Covering' /\ Bounded'
      BY <1>4, <2>1, CoversTable DEF table
    <3>2. Aside'
      BY <1>4, <2>1 DEF CoverInv, Aside, table
    <3> QED BY <3>1, <3>2 DEF CoverInv
  <2>2. CASE AppendRow("reply", mleaf, how)
    <3>1. /\ Covering' /\ Bounded'
          /\ how = "ok" => leaf' = next /\ next \in live' /\ \A m \in Ids : next \notin covers'[m]
          /\ how # "ok" => leaf' = leaf /\ live \subseteq live'
      BY <1>0, <1>4, <2>2, AppendCovers
    <3>2. Aside'
      BY <1>4, <3>1 DEF CoverInv, Aside
    <3> QED BY <3>1, <3>2 DEF CoverInv
  <2> QED BY <1>4, <2>1, <2>2 DEF Partial
<1>5. CASE Settle(how)
  <2>1. /\ Partial(why, how) /\ UNCHANGED covers
        /\ turn' = 0 \/ (turn' = turn /\ pc' \in {"failed", "compact"})
    BY <1>5 DEF Settle, Over, run
  <2> QED BY <1>4, <2>1
<1>6. CASE CutRun(how)
  <2>1. Partial("cut", how) /\ UNCHANGED covers /\ turn' = 0
    BY <1>6 DEF CutRun, Over
  <2> QED BY <1>4, <2>1
<1>7. CASE CutInRow(how)
  <2>1. AppendRow("reply", mleaf, how) /\ UNCHANGED covers /\ turn' = 0
    BY <1>7 DEF CutInRow, Over
  <2>2. Covering' /\ Bounded'
    BY <1>0, <2>1, AppendCovers
  <2> QED BY <2>1, <2>2 DEF CoverInv, Aside
<1>8. CASE Resume(how)
  <2>1. UNCHANGED <<table, covers>>
        /\ \/ turn' = 0
           \/ turn' = turn /\ pc' = "streaming" /\ row' \in {0, Tip}
    BY <1>8 DEF Resume, Over, ghost
  <2>2. Covering' /\ Bounded'
    BY <2>1, CoversTable DEF table
  <2>3. turn # 0 => Tip = leaf
    BY <1>0, LeafIsTip DEF CoverInv, Aside
  <2>4. Aside'
    BY <2>1, <2>3 DEF CoverInv, Aside, table
  <2> QED BY <2>2, <2>4 DEF CoverInv
<1> QED BY <1>1, <1>2, <1>3, <1>5, <1>6, <1>7, <1>8 DEF Turn

LEMMA CoverCompaction ==
    ASSUME Base, CoverInv, NEW how \in Outcomes, Compaction(how)
    PROVE  CoverInv'
<1>0. TableSound /\ next \in Nat
  BY BaseIs
<1>1. PICK p \in {StoredPath} : \E c \in Cuts(p) : CompactSession(p, c, how) \/ CompactRun(p, c, how)
  BY DEF Compaction
<1>2. PICK c \in Cuts(p) : CompactSession(p, c, how) \/ CompactRun(p, c, how)
  BY <1>1
<1> DEFINE first == p[c]
           q == parent[first]
           sp == Span(p, c)
           C == Covered(sp)
<1>3. /\ first \in live /\ q \in Stored /\ sp \in SUBSET live
      /\ \A x \in Range(Route[q]) : role[x] = "summary" \/ x \in C
      /\ Tip \notin sp
  BY CompactCovers DEF CoverInv
<1>4. CompactPath(p, c, how) /\ next \in Ids
  BY <1>2 DEF CompactSession, CompactRun
<1>5. /\ covers' = [covers EXCEPT ![next] = C]
      /\ \/ UNCHANGED table /\ how = "insert"
         \/ /\ Insert("summary", q) \/ Splice(q, first)
            /\ \/ leaf' = Tip /\ how \in {"reparent", "ok", "load"}
               \/ leaf' = next /\ how = "restore"
               \/ how = "leaf"
  BY <1>4 DEF CompactPath, AppendRow
<1> HIDE DEF first
<1>6. /\ C \in SUBSET (1..next - 1)
      /\ \A x \in C : x \in sp \/ \E m \in Ids : x \in covers[m]
  <2> HIDE DEF sp
  <2>1. /\ Covered(sp) \subseteq 1..next - 1
        /\ \A x \in Covered(sp) : x \in sp \/ \E m \in Ids : x \in covers[m]
    BY <1>3, CoveredBounds DEF CoverInv
  <2> QED BY <2>1
<1> HIDE DEF sp, C
<1>7. \/ UNCHANGED table
      \/ Insert("summary", q)
      \/ \E below \in live : q = parent[below] /\ Splice(q, below)
  BY <1>3, <1>5 DEF q
<1> HIDE DEF q
<1>8. Covering' /\ Bounded' /\ \A m \in Ids : covers'[m] \subseteq covers[m] \cup C
  BY <1>3, <1>4, <1>5, <1>6, <1>7, CoversSummary DEF CoverInv
<1>9. Aside'
  <2>1. CASE turn' = 0
    BY <2>1 DEF Aside
  <2>2. CASE turn' # 0
    <3>1. pc' = "spliced" /\ turn' = turn /\ how \notin {"insert", "leaf"}
      <4>1. CASE CompactSession(p, c, how)
        BY <2>2, <4>1 DEF CompactSession, CoverInv, Aside
      <4>2. CASE CompactRun(p, c, how)
        BY <2>2, <4>2 DEF CompactRun, Over
      <4> QED BY <1>2, <4>1, <4>2
    <3>2. leaf \in live /\ Tip = leaf /\ \A m \in Ids : leaf \notin covers[m]
      BY <1>0, <2>2, <3>1, LeafIsTip DEF CoverInv, Aside
    <3>3. live' = live \cup {next} /\ leaf' \in {Tip, next}
      BY <1>5, <3>1 DEF Insert, Splice
    <3>4. leaf \notin C
      BY <1>3, <1>6, <3>2
    <3>5. next \notin C /\ \A m \in Ids : next \notin covers[m]
      BY <1>0, <1>6 DEF CoverInv, Bounded
    <3>6. leaf' \in live' /\ \A m \in Ids : leaf' \notin covers'[m]
      BY <1>8, <3>2, <3>3, <3>4, <3>5
    <3> QED BY <3>1, <3>6 DEF Aside
  <2> QED BY <2>1, <2>2
<1> QED BY <1>8, <1>9 DEF CoverInv

LEMMA CoverFork ==
    ASSUME Base, CoverInv, "race" \notin Windows, NEW how \in Outcomes, Fork(how)
    PROVE  CoverInv'
<1>0. TableSound
  BY BaseIs
<1>1. PICK n \in live \cup {0}, after \in BOOLEAN :
        ForkSession(n, after, how) \/ ForkSummarized(n, after, how)
  BY DEF Fork
<1>2. turn' = 0
  <2>1. ClearRetry
    BY <1>1 DEF ForkSession, ForkSummarized
  <2> QED BY <2>1 DEF Fork, MayFork, ClearRetry, Over
<1>3. Aside'
  BY <1>2 DEF Aside
<1>4. CASE ForkSession(n, after, how)
  <2>1. UNCHANGED <<live, parent, next, role, covers>>
    BY <1>4 DEF ForkSession, ghost
  <2> QED BY <1>3, <2>1, CoversTable DEF CoverInv
<1>5. CASE ForkSummarized(n, after, how)
  <2>1. PICK t \in Targets(n) :
          /\ t # 0 /\ next \in Ids
          /\ \/ AppendRow("summary", parent[t], how)
             \/ Insert("summary", parent[t])
             \/ Splice(parent[t], t)
          /\ covers' = [covers EXCEPT ![next] = Covered(Range(PathTo(ForkTip(t, after))))]
    BY <1>5 DEF ForkSummarized
  <2> DEFINE ms == Range(PathTo(ForkTip(t, after)))
             C == Covered(ms)
             q == parent[t]
  <2>2. t \in live
    <3>1. Targets(n) \subseteq Stored
      BY LastUserIsStored DEF Targets, Stored
    <3> QED BY <2>1, <3>1 DEF Stored
  <2>3. q \in Stored /\ ms \in SUBSET live /\ \A x \in Range(Route[q]) : x \in C
    BY <2>2, ForkCovers DEF CoverInv
  <2>4. covers' = [covers EXCEPT ![next] = C]
    BY <2>1
  <2> HIDE DEF ms
  <2>5. C \in SUBSET (1..next - 1)
    BY <2>3, CoveredBounds DEF CoverInv
  <2>6. \/ UNCHANGED table
        \/ Insert("summary", q)
        \/ \E below \in live : q = parent[below] /\ Splice(q, below)
    BY <2>1, <2>2 DEF AppendRow
  <2> HIDE DEF C, q
  <2>7. \A x \in Range(Route[q]) : role[x] = "summary" \/ x \in C
    BY <2>3
  <2>8. Covering' /\ Bounded'
    BY <2>1, <2>3, <2>4, <2>5, <2>6, <2>7, CoversSummary DEF CoverInv
  <2> QED BY <1>3, <2>8 DEF CoverInv
<1> QED BY <1>1, <1>4, <1>5

LEMMA CoverDelete ==
    ASSUME Base, CoverInv, Survivable, NEW how \in Outcomes, Delete(how)
    PROVE  CoverInv'
<1>0. TableSound
  BY BaseIs
<1> PICK m \in live :
      \E d \in Branches(m) : DeleteBranch(m, d, how) \/ (how = "delete" /\ DeleteFails(m, d))
  BY DEF Delete
<1>1. PICK d \in Branches(m) : DeleteBranch(m, d, how) \/ (how = "delete" /\ DeleteFails(m, d))
  OBVIOUS
<1>2. DeleteBranch(m, d, how)
  BY <1>1 DEF Survivable, Outcomes
<1>3. turn' = 0 /\ UNCHANGED <<parent, role, next, covers>>
  BY <1>2 DEF DeleteBranch, Over, ghost
<1>4. Aside'
  BY <1>3 DEF Aside
<1>5. CASE UNCHANGED live
  BY <1>3, <1>4, <1>5, CoversTable DEF CoverInv
<1>6. CASE live' = live \ d
  <2>1. Stored' = Stored \ d /\ \A o \in Stored' : Route'[o] = Route[o]
    BY <1>0, <1>3, <1>6, DeleteRoutes
  <2>2. \A o \in live' : o \in live /\ Route'[o] = Route[o]
    BY <1>6, <2>1 DEF Stored
  <2>3. Covering'
    BY <1>3, <2>2 DEF CoverInv, Covering
  <2>4. Bounded'
    BY <1>3 DEF CoverInv, Bounded
  <2> QED BY <1>4, <2>3, <2>4 DEF CoverInv
<1> QED BY <1>2, <1>5, <1>6 DEF DeleteBranch

LEMMA CoverResend ==
    ASSUME Base, CoverInv, "race" \notin Windows, NEW how \in Outcomes, Resend(how)
    PROVE  CoverInv'
<1>1. CASE ReplayFork(how)
  <2>1. Fork(how)
    BY <1>1 DEF Resend, ReplayFork, Fork, MayFork
  <2> QED BY <2>1, CoverFork
<1>2. CASE Replay(how)
  <2>1. PICK t \in live \cup {0}, tip \in Stored :
             /\ t = LastUser(ActivePath) /\ tip = IF t = 0 THEN Tip ELSE parent[t]
             /\ IF how = "insert" THEN UNCHANGED <<live, parent, role, next>>
                                  ELSE Insert("user", tip)
             /\ leaf' = IF how = "ok" THEN next ELSE IF t = 0 THEN leaf ELSE tip
             /\ path' = Append(PathTo(tip), IF how = "ok" THEN next ELSE 0)
             /\ mleaf' = IF how = "ok" THEN next ELSE tip
    BY <1>2, ReplayTip
  <2>2. /\ pc' = "streaming" /\ turn' = (IF how = "ok" THEN next ELSE 0) /\ row' = 0
        /\ covers' = covers
    BY <1>2 DEF Replay
  <2>3. CASE how = "insert"
    <3>1. Covering' /\ Bounded'
      BY <2>1, <2>2, <2>3, CoversTable
    <3> QED BY <2>2, <2>3, <3>1 DEF CoverInv, Aside
  <2>4. CASE how # "insert"
    <3>1. Insert("user", tip)
      BY <2>1, <2>4
    <3>2. Covering' /\ Bounded' /\ \A m \in Ids : next \notin covers[m]
      BY <2>2, <3>1, CoversInsert DEF CoverInv
    <3>3. live' = live \cup {next}
      BY <3>1 DEF Insert
    <3>4. Aside'
      BY <2>1, <2>2, <3>2, <3>3 DEF Aside
    <3> QED BY <3>2, <3>4 DEF CoverInv
  <2> QED BY <2>3, <2>4
<1> QED BY <1>1, <1>2 DEF Resend

LEMMA CoverStep ==
    ASSUME Base, Survivable, "race" \notin Windows, CoverInv, [Next]_vars
    PROVE  CoverInv'
<1>1. CASE \E how \in Outcomes : Turn(how) \/ Compaction(how) \/ Rewind(how)
  BY <1>1, CoverTurn, CoverCompaction, CoverFork, CoverDelete, CoverResend DEF Rewind
<1>2. CASE \E w \in Reasons : Finish(w)
  <2>1. /\ pc = "streaming" /\ pc' = "ending" /\ UNCHANGED <<table, row, turn, covers>>
    BY <1>2 DEF Finish, ghost
  <2>2. Covering' /\ Bounded'
    BY <2>1, CoversTable DEF table
  <2>3. Aside'
    BY <2>1 DEF CoverInv, Aside, table
  <2> QED BY <2>2, <2>3 DEF CoverInv
<1>3. CASE BeginCommit
  <2>1. /\ pc = "ending" /\ pc' = "commit" /\ UNCHANGED <<table, row, turn, covers>>
    BY <1>3 DEF BeginCommit, ghost
  <2>2. Covering' /\ Bounded'
    BY <2>1, CoversTable DEF table
  <2>3. Aside'
    BY <2>1 DEF CoverInv, Aside, table
  <2> QED BY <2>2, <2>3 DEF CoverInv
<1>4. CASE NoCompaction \/ Exhausted \/ CancelRetry \/ LoadSession
  <2>1. turn' = 0 /\ UNCHANGED <<table, covers>>
    BY <1>4 DEF NoCompaction, Exhausted, CancelRetry, LoadSession, Over, ghost
  <2>2. Covering' /\ Bounded'
    BY <2>1, CoversTable DEF table
  <2> QED BY <2>1, <2>2 DEF CoverInv, Aside
<1>5. CASE UNCHANGED vars
  <2>1. UNCHANGED <<table, row, turn, pc, covers>>
    BY <1>5 DEF vars, run, ghost
  <2>2. Covering' /\ Bounded'
    BY <2>1, CoversTable DEF table
  <2>3. Aside'
    BY <2>1 DEF CoverInv, Aside, table
  <2> QED BY <2>2, <2>3 DEF CoverInv
<1> QED BY <1>1, <1>2, <1>3, <1>4, <1>5 DEF Next

LEMMA CoverInit == Init => CoverInv
<1> SUFFICES ASSUME Init PROVE CoverInv
  OBVIOUS
<1>1. live = {} /\ turn = 0 /\ \A m \in Ids : covers[m] = {}
  BY DEF Init
<1> QED BY <1>1 DEF CoverInv, Covering, Bounded, Aside

\* The newest summary of a path stands for what is before it on the path.
LEMMA NewestCovers ==
    ASSUME Base, CoverInv, NEW m \in live, NEW p, p = Route[m],
           NEW i \in 1..LastPlace(p, "summary") - 1
    PROVE  role[p[i]] = "summary" \/ p[i] \in covers[p[LastPlace(p, "summary")]]
<1>0. TableSound
  BY BaseIs
<1>1. Chain(p, m, live, parent) /\ 0 \notin live /\ m \in Stored
  BY <1>0, Routes DEF Stored
<1> DEFINE l == LastPlace(p, "summary")
<1>2. DOMAIN p = 1..Len(p) /\ Len(p) \in Nat /\ p \in Seq(live)
  BY <1>1, ChainLen DEF Chain
<1>3. l \in 0..Len(p) /\ (l # 0 => l \in DOMAIN p /\ p[l] \in live /\ role[p[l]] = "summary")
  BY <1>2, LastPlaceIs
<1> HIDE DEF l
<1>4. i \in 1..l - 1
  BY DEF l
<1>5. l # 0 /\ i \in DOMAIN p /\ i \in 1..l /\ i # l
  BY <1>2, <1>3, <1>4
<1>6. PICK s \in live : s = p[l] /\ role[s] = "summary" /\ l \in DOMAIN p
  BY <1>3, <1>5
<1>7. Range(Route[s]) = {p[k] : k \in 1..l}
  <2>1. l \in DOMAIN Route[m]
    BY <1>6
  <2>2. Range(Route[Route[m][l]]) = {Route[m][k] : k \in 1..l}
    BY <1>0, <1>1, <2>1, PathUpTo
  <2> QED BY <1>6, <2>2
<1>8. p[i] \in Range(Route[s])
  BY <1>5, <1>7
<1>9. p[i] # s
  BY <1>1, <1>5, <1>6, ChainInjective
<1> QED BY <1>6, <1>8, <1>9 DEF CoverInv, Covering, l

\* On every branch the newest summary stands for the prompts and replies
\* before it, by itself or by the summaries it replaced, and the row that is
\* being written is in none: whatever was compacted on other branches in
\* between, forked with a summary in the middle of a path, or deleted.
THEOREM NothingForgottenSafe ==
    ASSUME Survivable, "race" \notin Windows
    PROVE  Spec => []NothingForgotten
<1>1. Spec => []Base
  BY BaseHolds
<1>2. Init => CoverInv
  BY CoverInit
<1>3. Base /\ CoverInv /\ [Next]_vars => CoverInv'
  BY CoverStep
<1>4. Base /\ CoverInv => NothingForgotten
  <2> SUFFICES ASSUME Base, CoverInv PROVE NothingForgotten
    OBVIOUS
  <2>0. TableSound /\ live \subseteq Ids /\ covers \in [Ids -> SUBSET Ids]
    BY BaseIs, CoversIs
  <2>1. ASSUME NEW m \in live, NEW i \in 1..LastPlace(PathTo(m), "summary") - 1
        PROVE  \/ role[PathTo(m)[i]] = "summary"
               \/ PathTo(m)[i] \in covers[PathTo(m)[LastPlace(PathTo(m), "summary")]]
    <3>1. Route[m] = PathTo(m)
      <4>1. m \in 0..MaxId
        BY <2>0, Routes DEF Stored
      <4> QED BY <4>1 DEF Route
    <3> QED BY <2>1, <3>1, NewestCovers
  <2>2. ASSUME pc = "streaming", turn # 0, NEW m \in Range(ActivePath)
        PROVE  row \notin covers[m]
    <3>1. m \in Ids
      <4>1. Range(ActivePath) \subseteq live
        BY <2>0, Routes, ChainClosed
      <4> QED BY <2>0, <2>2, <4>1
    <3>2. row = 0 \/ (row = leaf /\ leaf \notin covers[m])
      BY <2>2, <3>1 DEF CoverInv, Aside
    <3>3. 0 \notin Ids
      BY DEF Ids
    <3> QED BY <2>0, <3>1, <3>2, <3>3
  <2> QED BY <2>1, <2>2 DEF NothingForgotten
<1> QED BY <1>1, <1>2, <1>3, <1>4, PTL DEF Spec
=============================================================================
