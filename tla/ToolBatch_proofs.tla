-------------------------- MODULE ToolBatch_proofs --------------------------
(* A batch of tool calls, whatever the calls, the workers among them and    *)
(* the slots.                                                               *)
(*                                                                          *)
(* What the merged stream may yield is typed together with the rest (Types).*)
(* On top of it Life follows one call from its announcement to its row:     *)
(* what the stream has yet to say of it, where rig has it, where the gate   *)
(* has it and what the screen shows, or will once it hears of the call in   *)
(* hand (View); it gives RecordedOnce.  InSlots adds the order of the       *)
(* batch and gives ShownTrue.  Boundaries adds where the main stream is     *)
(* between actions and gives SteerKillsNothing.                             *)
EXTENDS ToolBatch, FiniteSetTheorems, TLAPS

(***************************************************************************)
(* Queues                                                                  *)
(***************************************************************************)
\* What joins a queue is its last.
LEMMA Joins ==
    ASSUME NEW S, NEW q \in Seq(S), NEW e \in S
    PROVE  /\ Append(q, e) \in Seq(S) /\ Append(q, e) # <<>> /\ Len(q) \in Nat
           /\ Len(Append(q, e)) = Len(q) + 1
           /\ DOMAIN q = 1..Len(q) /\ DOMAIN Append(q, e) = 1..(Len(q) + 1)
           /\ Append(q, e)[Len(q) + 1] = e
           /\ \A i \in DOMAIN q : i \in DOMAIN Append(q, e) /\ Append(q, e)[i] = q[i]
           /\ ToSet(Append(q, e)) = ToSet(q) \cup {e}
<1>1. /\ Append(q, e) \in Seq(S) /\ Append(q, e) # <<>> /\ Len(q) \in Nat
      /\ Len(Append(q, e)) = Len(q) + 1
      /\ DOMAIN q = 1..Len(q) /\ DOMAIN Append(q, e) = 1..(Len(q) + 1)
      /\ Append(q, e)[Len(q) + 1] = e
      /\ \A i \in DOMAIN q : Append(q, e)[i] = q[i]
  OBVIOUS
<1> DEFINE r == Append(q, e)
<1> HIDE DEF r
<1>2. ToSet(r) = ToSet(q) \cup {e}
  <2>1. ASSUME NEW x \in ToSet(r) PROVE x \in ToSet(q) \cup {e}
    <3> PICK i \in DOMAIN r : r[i] = x
      BY <2>1 DEF ToSet
    <3> QED BY <1>1 DEF ToSet, r
  <2>2. ASSUME NEW x \in ToSet(q) \cup {e} PROVE x \in ToSet(r)
    <3>1. CASE x = e
      BY <1>1, <3>1 DEF ToSet, r
    <3>2. CASE x # e
      <4> PICK i \in DOMAIN q : q[i] = x
        BY <2>2, <3>2 DEF ToSet
      <4> QED BY <1>1 DEF ToSet, r
    <3> QED BY <3>1, <3>2
  <2> QED BY <2>1, <2>2
<1> QED BY <1>1, <1>2 DEF r

\* The rest moves up when the first leaves.
LEMMA Leads ==
    ASSUME NEW S, NEW q \in Seq(S), q # <<>>
    PROVE  /\ Tail(q) \in Seq(S) /\ Len(q) \in Nat \ {0} /\ Len(Tail(q)) = Len(q) - 1
           /\ Head(q) \in S /\ Head(q) = q[1] /\ 1 \in DOMAIN q
           /\ DOMAIN q = 1..Len(q) /\ DOMAIN Tail(q) = 1..(Len(q) - 1)
           /\ \A i \in DOMAIN Tail(q) : i + 1 \in DOMAIN q /\ Tail(q)[i] = q[i + 1]
           /\ \A i \in DOMAIN q : i # 1 => i - 1 \in DOMAIN Tail(q) /\ Tail(q)[i - 1] = q[i]
           /\ ToSet(q) = ToSet(Tail(q)) \cup {Head(q)}
<1>1. /\ Tail(q) \in Seq(S) /\ Len(q) \in Nat \ {0} /\ Len(Tail(q)) = Len(q) - 1
      /\ Head(q) \in S /\ Head(q) = q[1] /\ 1 \in DOMAIN q
      /\ DOMAIN q = 1..Len(q) /\ DOMAIN Tail(q) = 1..(Len(q) - 1)
  OBVIOUS
<1>2. \A i \in DOMAIN Tail(q) : i + 1 \in DOMAIN q /\ Tail(q)[i] = q[i + 1]
  BY <1>1
<1>3. \A i \in DOMAIN q : i # 1 => i - 1 \in DOMAIN Tail(q) /\ Tail(q)[i - 1] = q[i]
  <2> SUFFICES ASSUME NEW i \in DOMAIN q, i # 1
               PROVE  i - 1 \in DOMAIN Tail(q) /\ Tail(q)[i - 1] = q[i]
    OBVIOUS
  <2>1. i - 1 \in DOMAIN Tail(q) /\ (i - 1) + 1 = i
    BY <1>1
  <2> QED BY <1>2, <2>1
<1> DEFINE r == Tail(q)
           h == Head(q)
<1> HIDE DEF r, h
<1>4. ToSet(q) = ToSet(r) \cup {h}
  <2>1. ASSUME NEW x \in ToSet(q) PROVE x \in ToSet(r) \cup {h}
    <3> PICK i \in DOMAIN q : q[i] = x
      BY <2>1 DEF ToSet
    <3> QED BY <1>1, <1>3 DEF ToSet, r, h
  <2>2. ASSUME NEW x \in ToSet(r) \cup {h} PROVE x \in ToSet(q)
    <3>1. CASE x = h
      BY <1>1, <3>1 DEF ToSet, h
    <3>2. CASE x # h
      <4> PICK i \in DOMAIN r : r[i] = x
        BY <2>2, <3>2 DEF ToSet
      <4> QED BY <1>2 DEF ToSet, r
    <3> QED BY <3>1, <3>2
  <2> QED BY <2>1, <2>2
<1> QED BY <1>1, <1>2, <1>3, <1>4 DEF r, h

\* What is not yet in a queue may join it.
LEMMA JoinsOnce ==
    ASSUME NEW S, NEW q \in Seq(S), NEW e \in S, IsInjective(q), e \notin ToSet(q)
    PROVE  IsInjective(Append(q, e))
<1> DEFINE r == Append(q, e)
<1>1. /\ DOMAIN r = 1..(Len(q) + 1) /\ DOMAIN q = 1..Len(q) /\ r[Len(q) + 1] = e /\ Len(q) \in Nat
      /\ \A i \in DOMAIN q : r[i] = q[i] /\ q[i] # e
  BY Joins DEF ToSet
<1> HIDE DEF r
<1> QED BY <1>1 DEF IsInjective, r

\* The first leaves.
LEMMA LeadsOnce ==
    ASSUME NEW S, NEW q \in Seq(S), q # <<>>, IsInjective(q)
    PROVE  /\ IsInjective(Tail(q)) /\ ToSet(Tail(q)) = ToSet(q) \ {Head(q)}
           /\ \A i, j \in DOMAIN Tail(q) : i < j =>
                 \E m, n \in DOMAIN q : m < n /\ Tail(q)[i] = q[m] /\ Tail(q)[j] = q[n]
<1> DEFINE r == Tail(q)
           h == Head(q)
<1>1. /\ h = q[1] /\ 1 \in DOMAIN q /\ ToSet(q) = ToSet(r) \cup {h}
      /\ DOMAIN q = 1..Len(q) /\ Len(q) \in Nat /\ DOMAIN r = 1..(Len(q) - 1)
      /\ \A i \in DOMAIN r : i + 1 \in DOMAIN q /\ r[i] = q[i + 1]
  BY Leads
<1> HIDE DEF r, h
<1>2. IsInjective(r)
  <2> SUFFICES ASSUME NEW i \in DOMAIN r, NEW j \in DOMAIN r, r[i] = r[j] PROVE i = j
    BY DEF IsInjective
  <2>1. i + 1 = j + 1 /\ i \in Int /\ j \in Int
    BY <1>1 DEF IsInjective
  <2> QED BY <2>1
<1>3. h \notin ToSet(r)
  <2> SUFFICES ASSUME NEW i \in DOMAIN r, r[i] = h PROVE FALSE
    BY DEF ToSet
  <2>1. i + 1 = 1 /\ i \in 1..(Len(q) - 1)
    BY <1>1 DEF IsInjective
  <2> QED BY <1>1, <2>1
<1>4. ASSUME NEW i \in DOMAIN r, NEW j \in DOMAIN r, i < j
      PROVE  \E m, n \in DOMAIN q : m < n /\ r[i] = q[m] /\ r[j] = q[n]
  <2>1. i + 1 \in DOMAIN q /\ j + 1 \in DOMAIN q /\ i + 1 < j + 1
    BY <1>1, <1>4
  <2> QED BY <1>1, <2>1
<1> QED BY <1>1, <1>2, <1>3, <1>4 DEF r, h

\* What is left of and right of a place.
LEMMA Pieces ==
    ASSUME NEW S, NEW q \in Seq(S), NEW k \in DOMAIN q
    PROVE  /\ SubSeq(q, 1, k - 1) \in Seq(S) /\ Len(SubSeq(q, 1, k - 1)) = k - 1
           /\ \A i \in 1..(k - 1) : SubSeq(q, 1, k - 1)[i] = q[i]
           /\ SubSeq(q, k + 1, Len(q)) \in Seq(S) /\ Len(SubSeq(q, k + 1, Len(q))) = Len(q) - k
           /\ \A i \in 1..(Len(q) - k) : SubSeq(q, k + 1, Len(q))[i] = q[k + i]
<1>1. DOMAIN q = 1..Len(q) /\ Len(q) \in Nat /\ k \in 1..Len(q)
  OBVIOUS
<1>2. /\ SubSeq(q, 1, k - 1) \in Seq(S) /\ Len(SubSeq(q, 1, k - 1)) = k - 1
      /\ \A i \in 1..(k - 1) : SubSeq(q, 1, k - 1)[i] = q[i]
  BY <1>1
<1>3. /\ SubSeq(q, k + 1, Len(q)) \in Seq(S) /\ Len(SubSeq(q, k + 1, Len(q))) = Len(q) - k
      /\ \A i \in 1..(Len(q) - k) : SubSeq(q, k + 1, Len(q))[i] = q[k + i]
  BY <1>1
<1> QED BY <1>2, <1>3

\* One leaves, wherever it stands.
LEMMA LeavesOnce ==
    ASSUME NEW S, NEW q \in Seq(S), IsInjective(q), NEW k \in DOMAIN q
    PROVE  /\ RemoveAt(q, k) \in Seq(S) /\ IsInjective(RemoveAt(q, k))
           /\ ToSet(RemoveAt(q, k)) = ToSet(q) \ {q[k]}
           /\ \A i, j \in DOMAIN RemoveAt(q, k) : i < j =>
                 \E m, n \in DOMAIN q :
                    m < n /\ RemoveAt(q, k)[i] = q[m] /\ RemoveAt(q, k)[j] = q[n]
<1> DEFINE e == q[k]
           r == RemoveAt(q, k)
<1>1. DOMAIN q = 1..Len(q) /\ Len(q) \in Nat /\ k \in 1..Len(q)
  OBVIOUS
<1>2. /\ SubSeq(q, 1, k - 1) \in Seq(S) /\ Len(SubSeq(q, 1, k - 1)) = k - 1
      /\ \A i \in 1..(k - 1) : SubSeq(q, 1, k - 1)[i] = q[i]
      /\ SubSeq(q, k + 1, Len(q)) \in Seq(S) /\ Len(SubSeq(q, k + 1, Len(q))) = Len(q) - k
      /\ \A i \in 1..(Len(q) - k) : SubSeq(q, k + 1, Len(q))[i] = q[k + i]
  BY Pieces
<1> DEFINE a == SubSeq(q, 1, k - 1)
           b == SubSeq(q, k + 1, Len(q))
<1>4. r = a \o b
  BY DEF RemoveAt
<1> HIDE DEF a, b, r
<1>3. /\ a \in Seq(S) /\ Len(a) = k - 1 /\ \A i \in 1..(k - 1) : a[i] = q[i]
      /\ b \in Seq(S) /\ Len(b) = Len(q) - k /\ \A i \in 1..(Len(q) - k) : b[i] = q[k + i]
  BY <1>2 DEF a, b
<1>5. r \in Seq(S) /\ Len(r) = Len(a) + Len(b)
  <2>1. a \in Seq(S) /\ b \in Seq(S)
    BY <1>3
  <2> QED BY <1>4, <2>1
<1>6. DOMAIN r = 1..(Len(q) - 1)
  <2>1. Len(r) = Len(q) - 1
    BY <1>1, <1>3, <1>5
  <2> QED BY <1>5, <2>1
<1>7. \A i \in 1..(k - 1) : r[i] = q[i]
  BY <1>1, <1>3, <1>4
<1>8. \A i \in k..(Len(q) - 1) : r[i] = q[i + 1]
  <2> SUFFICES ASSUME NEW i \in k..(Len(q) - 1) PROVE r[i] = q[i + 1]
    OBVIOUS
  <2>1. r[i] = b[i - (k - 1)]
    BY <1>1, <1>3, <1>4
  <2>2. b[i - (k - 1)] = q[k + (i - (k - 1))]
    BY <1>1, <1>3
  <2> QED BY <1>1, <2>1, <2>2
<1> DEFINE Was(n) == IF n < k THEN n ELSE n + 1
<1>9. \A n \in DOMAIN r : Was(n) \in DOMAIN q /\ Was(n) # k /\ r[n] = q[Was(n)]
  BY <1>1, <1>6, <1>7, <1>8
<1>10. IsInjective(r)
  <2> SUFFICES ASSUME NEW i \in DOMAIN r, NEW j \in DOMAIN r, r[i] = r[j] PROVE i = j
    BY DEF IsInjective
  <2>1. Was(i) = Was(j)
    BY <1>9 DEF IsInjective
  <2> QED BY <1>1, <1>6, <2>1
<1>11. ASSUME NEW x \in ToSet(r) PROVE x \in ToSet(q) \ {e}
  <2> PICK n \in DOMAIN r : r[n] = x
    BY <1>11 DEF ToSet
  <2>1. Was(n) \in DOMAIN q /\ Was(n) # k /\ q[Was(n)] = x
    BY <1>9
  <2> QED BY <2>1 DEF IsInjective, ToSet, e
<1>12. ASSUME NEW x \in ToSet(q) \ {e} PROVE x \in ToSet(r)
  <2> PICK j \in DOMAIN q : q[j] = x
    BY <1>12 DEF ToSet
  <2>1. j # k
    BY <1>12 DEF e
  <2>2. CASE j < k
    <3>1. j \in 1..(k - 1) /\ j \in DOMAIN r
      BY <1>1, <1>6, <2>2
    <3> QED BY <1>7, <3>1 DEF ToSet
  <2>3. CASE j > k
    <3>1. j - 1 \in k..(Len(q) - 1) /\ j - 1 \in DOMAIN r /\ (j - 1) + 1 = j
      BY <1>1, <1>6, <2>3
    <3> QED BY <1>8, <3>1 DEF ToSet
  <2> QED BY <1>1, <2>1, <2>2, <2>3
<1>13. \A i, j \in DOMAIN r : i < j =>
          \E m, n \in DOMAIN q : m < n /\ r[i] = q[m] /\ r[j] = q[n]
  <2> SUFFICES ASSUME NEW i \in DOMAIN r, NEW j \in DOMAIN r, i < j
               PROVE  \E m, n \in DOMAIN q : m < n /\ r[i] = q[m] /\ r[j] = q[n]
    OBVIOUS
  <2>1. Was(i) < Was(j)
    BY <1>1, <1>6
  <2> QED BY <1>9, <2>1
<1> QED BY <1>5, <1>10, <1>11, <1>12, <1>13 DEF r, e

\* Two queues put behind each other.
LEMMA Follows ==
    ASSUME NEW S, NEW p \in Seq(S), NEW q \in Seq(S)
    PROVE  /\ p \o q \in Seq(S) /\ Len(p) \in Nat /\ Len(q) \in Nat
           /\ DOMAIN p = 1..Len(p) /\ DOMAIN q = 1..Len(q) /\ DOMAIN (p \o q) = 1..(Len(p) + Len(q))
           /\ \A i \in DOMAIN p : i \in DOMAIN (p \o q) /\ (p \o q)[i] = p[i]
           /\ \A i \in DOMAIN q : Len(p) + i \in DOMAIN (p \o q) /\ (p \o q)[Len(p) + i] = q[i]
           /\ \A i \in DOMAIN (p \o q) : i \in DOMAIN p \/ i - Len(p) \in DOMAIN q
<1>1. /\ p \o q \in Seq(S) /\ Len(p) \in Nat /\ Len(q) \in Nat
      /\ DOMAIN p = 1..Len(p) /\ DOMAIN q = 1..Len(q) /\ DOMAIN (p \o q) = 1..(Len(p) + Len(q))
  OBVIOUS
<1>2. \A i \in DOMAIN p : i \in DOMAIN (p \o q) /\ (p \o q)[i] = p[i]
  BY <1>1
<1>3. \A i \in DOMAIN q : Len(p) + i \in DOMAIN (p \o q) /\ (p \o q)[Len(p) + i] = q[i]
  <2> SUFFICES ASSUME NEW i \in DOMAIN q
               PROVE  Len(p) + i \in DOMAIN (p \o q) /\ (p \o q)[Len(p) + i] = q[i]
    OBVIOUS
  <2>1. Len(p) + i \in DOMAIN (p \o q) /\ (Len(p) + i) - Len(p) = i /\ Len(p) + i > Len(p)
    BY <1>1
  <2> QED BY <1>1, <2>1
<1>4. \A i \in DOMAIN (p \o q) : i \in DOMAIN p \/ i - Len(p) \in DOMAIN q
  BY <1>1
<1> QED BY <1>1, <1>2, <1>3, <1>4

\* What stands in a sequence is finitely many.
LEMMA MembersFinite ==
    ASSUME NEW S, NEW q \in Seq(S)
    PROVE  IsFiniteSet(ToSet(q))
<1>1. DOMAIN q = 1..Len(q) /\ Len(q) \in Nat
  OBVIOUS
<1>2. IsFiniteSet(DOMAIN q)
  BY <1>1, FS_Interval
<1>3. q \in Surjection(DOMAIN q, ToSet(q))
  BY DEF Surjection, ToSet
<1> QED BY <1>2, <1>3, FS_Surjection

(***************************************************************************)
(* The inductive invariants                                                *)
(***************************************************************************)
Items == [kind : Kinds, call : Calls \cup {Hidden}]

\* What each part of the merged stream may yield.
Fits(s, e) ==
    /\ s = "main" => e.kind # "result" /\ (e.kind = "start" => e.call \in Manager)
    /\ s = "early" => e.kind = "result" /\ e.call \in Manager
    /\ s = "activity" =>
          e.kind \in {"start", "result", "fail"} /\ (e.kind # "fail" => e.call \in Inner)

Typed(p) ==
    /\ p \in [Sources -> Seq(Items)]
    /\ \A s \in Sources : \A i \in DOMAIN p[s] : Fits(s, p[s][i])

\* The handler of a call's item has the call in hand.
Handled == core \in {"started", "written", "settled"}

HandHeld == Handled => hand \in Calls

Types == TypeOK /\ Typed(pipes) /\ HandHeld

Due(p, kind, c) == \E s \in Sources : \E i \in DOMAIN p[s] : p[s][i] = Item(kind, c)

\* A call is announced once, then reported once.
Once(p) ==
    /\ \A s \in Sources : \A i, j \in DOMAIN p[s] :
          p[s][i] = p[s][j] /\ p[s][i].kind \in {"start", "result"} => i = j
    /\ \A i, j \in DOMAIN p["activity"] : \A c \in Calls :
          p["activity"][i] = Item("start", c) /\ p["activity"][j] = Item("result", c) => i < j

\* A call waits on an answer in one place, and returns no other way.
AskInv ==
    /\ \A c \in Calls : phase[c] \in {"asks", "freed", "refused"} => c \in Asking
    /\ \A c \in pending \cup ToSet(asks) : phase[c] = "asks"
    /\ pending \cap ToSet(asks) = {}
    /\ IsInjective(asks)

Failing == \E i \in DOMAIN pipes["activity"] : pipes["activity"][i].kind = "fail"

\* A worker's calls are out only inside its own, and have returned before it
\* has; a worker that failed has told the turn.
WorkerInv == \A x \in Inner :
    /\ InHand(x) => phase[Owner(x)] = "runs"
    /\ phase[x] # "unsaid" => phase[Owner(x)] \in {"runs", "back"}
    /\ phase[Owner(x)] = "back" /\ end = "running" => phase[x] \in {"unsaid", "back"} \/ Failing

\* What the screen says once it has heard of the call in hand: the stream
\* loop has done what Tell then tells.
View ==
    IF core = "started" THEN [shown EXCEPT ![hand] = Told(gate[Owner(hand)], hand)]
    ELSE IF core = "settled" THEN [d \in Calls |->
        IF d = hand THEN "finished"
        ELSE IF Owner(d) = Owner(hand) THEN Told(gate[Owner(hand)], d) ELSE shown[d]]
    ELSE shown

\* A result is due, or its row is written and the call still open.
OnWay(c) == Due(pipes, "result", c) \/ (core = "written" /\ hand = c)

\* From its announcement to its result, a call is open.
CallInv == \A c \in Calls :
    /\ phase[c] = "unsaid" =>
          View[c] = "hidden" /\ ~Due(pipes, "start", c) /\ ~OnWay(c)
    /\ Due(pipes, "start", c) => View[c] = "hidden" /\ (c \in Manager => phase[c] = "said")
    /\ OnWay(c) => phase[c] = "back" /\ View[c] # "finished"
    /\ View[c] = "finished" => phase[c] = "back"
    /\ phase[c] = "back" => OnWay(c) \/ View[c] = "finished"
    /\ c \in open <=> View[c] \in {"waiting", "running"}

\* The calls of the batch are said once, and the final item comes when none of
\* them is out.
DoneInv ==
    /\ stage = "request" => \A c \in Manager : phase[c] = "unsaid"
    /\ done \/ (\E i \in DOMAIN pipes["main"] : pipes["main"][i].kind = "done") =>
           stage = "over" /\ \A c \in Manager : phase[c] = "back"

KeptInv ==
    /\ \A c \in ToSet(rows.kept) :
          c \notin Workers /\ (View[c] = "finished" \/ (core = "written" /\ hand = c))
    /\ IsInjective(rows.kept)
    /\ \A c \in Calls \ Workers :
          View[c] = "finished" \/ (core = "written" /\ hand = c) => c \in ToSet(rows.kept)

\* A call that is out is recorded as killed when the run is over, and by the
\* cut for a denial before that.
KilledInv == \A c \in Calls :
    /\ c \notin open => rows.killed[c] = 0
    /\ end = "running" => rows.killed[c] = 0 \/ (core = "cut" /\ rows.killed[c] = 1)
    /\ end # "running" /\ c \in open => rows.killed[c] = 1 \/ (core = "cut" /\ rows.killed[c] = 2)

RowsInv == KeptInv /\ KilledInv

\* What the screen has yet to hear is the call in hand, and that a call that
\* waited runs.
HandInv ==
    /\ core = "started" => shown[hand] = "hidden"
    /\ core = "written" => hand \notin Workers /\ ~Due(pipes, "start", hand) /\ ~Due(pipes, "result", hand)
    /\ core = "settled" => \A c \in Calls : c = hand \/ (shown[c] = "running" => View[c] = "running")
    /\ \A c \in Calls : /\ View[c] = "hidden" <=> ~Asked(c) /\ ~Heard(c)
                        /\ View[c] = "finished" <=> Heard(c)

GateInv ==
    /\ \A o \in Workers \cup {Hidden} :
          /\ \A c \in gate[o].running : Owner(c) = o /\ View[c] = "running"
          /\ \A c \in ToSet(gate[o].queued) : Owner(c) = o /\ View[c] = "waiting"
          /\ IsInjective(gate[o].queued)
    /\ \A c \in Calls :
          /\ View[c] = "running" => c \in gate[Owner(c)].running
          /\ View[c] = "waiting" => c \in ToSet(gate[Owner(c)].queued)

Track == AskInv /\ WorkerInv /\ Once(pipes) /\ CallInv /\ DoneInv /\ RowsInv /\ GateInv /\ HandInv

Life == Types /\ Track

\* The manager's calls are announced in call order, and get slots in it.
OrderInv ==
    /\ \A c \in Manager : View[c] # "hidden" => \A d \in Earlier(c) : View[d] # "hidden"
    /\ end = "running" => \A i \in DOMAIN pipes["main"] : pipes["main"][i].kind = "start" =>
          \A d \in Earlier(pipes["main"][i].call) :
              View[d] # "hidden" \/ \E k \in 1..(i - 1) : pipes["main"][k] = Item("start", d)

SlotsInv == LET g == gate[Hidden] IN
    /\ g.queued # <<>> => Cardinality(g.running) = Slots
    /\ \A i \in DOMAIN g.queued :
          /\ g.running \subseteq Earlier(g.queued[i])
          /\ \A j \in 1..(i - 1) : g.queued[j] \in Earlier(g.queued[i])

\* A call of the batch is started when its announcement was heard; one that is
\* not heard is still to come, or the run is being cut.
HeardInv == \A c \in Manager : View[c] = "hidden" =>
    /\ phase[c] \in {"unsaid", "said"}
    /\ phase[c] = "said" => \/ Due(pipes, "start", c) \/ end # "running"
                            \/ \E i \in DOMAIN pipes["main"] : pipes["main"][i].kind = "stop"

\* What the screen shows waiting is behind as many calls as there are slots,
\* the one in hand among them.
BehindInv == core = "settled" => \A c \in Manager : shown[c] = "waiting" =>
    Cardinality({d \in Earlier(c) : View[d] = "running" \/ d = hand}) >= Slots

InSlots == Life /\ HeardInv /\ OrderInv /\ SlotsInv /\ BehindInv

\* A request first yields its calls; what comes behind the batch starts none.
MainInOrder ==
    /\ stage = "request" => pipes["main"] = <<>>
    /\ stage \in {"request", "tools"} =>
          /\ action # "text"
          /\ \A i \in DOMAIN pipes["main"] : pipes["main"][i].kind = "start"
    /\ stage = "over" => \A i \in DOMAIN pipes["main"] : pipes["main"][i].kind # "start"

\* Between actions no call of the manager's is out.
Between == action = "between" =>
    open \cap Manager \subseteq IF core = "started" THEN {hand} ELSE {}

Boundaries == Life /\ MainInOrder /\ Between /\ SteerKillsNothing

(***************************************************************************)
(* The calls and their batches                                             *)
(***************************************************************************)
LEMMA Owners ==
    /\ Calls = Manager \cup Inner /\ Manager \cap Inner = {} /\ Hidden \notin Calls
    /\ Workers \subseteq Manager
    /\ \A c \in Manager : Owner(c) = Hidden
    /\ \A x \in Inner : /\ Owner(x) \in Workers
                        /\ \E i \in DOMAIN Inside[Owner(x)] : Inside[Owner(x)][i] = x
    /\ \A w \in Workers : \A i \in DOMAIN Inside[w] :
          Inside[w][i] \in Inner /\ Owner(Inside[w][i]) = w
    /\ \A c \in Calls : Owner(c) \in Workers \cup {Hidden} /\ Owner(c) # c
<1>1. /\ Calls = Manager \cup Inner /\ Manager \cap Inner = {} /\ Hidden \notin Calls
      /\ Workers \subseteq Manager
  BY ToolBatchAssumption DEF Calls
<1>2. \A c \in Manager : Owner(c) = Hidden
  BY DEF Owner
<1>3. ASSUME NEW x \in Inner
      PROVE  /\ Owner(x) \in Workers
             /\ \E i \in DOMAIN Inside[Owner(x)] : Inside[Owner(x)][i] = x
  <2>1. x \notin Manager /\ \E w \in Workers : \E i \in DOMAIN Inside[w] : Inside[w][i] = x
    BY <1>1 DEF Inner
  <2> QED BY <2>1 DEF Owner
<1>4. ASSUME NEW w \in Workers, NEW i \in DOMAIN Inside[w]
      PROVE  Inside[w][i] \in Inner /\ Owner(Inside[w][i]) = w
  <2>1. Inside[w][i] \in Inner
    BY DEF Inner
  <2>2. PICK j \in DOMAIN Inside[Owner(Inside[w][i])] :
           Inside[Owner(Inside[w][i])][j] = Inside[w][i]
    BY <1>3, <2>1
  <2> QED BY <1>3, <2>1, <2>2, ToolBatchAssumption
<1>5. \A c \in Calls : Owner(c) \in Workers \cup {Hidden} /\ Owner(c) # c
  BY <1>1, <1>2, <1>3
<1> QED BY <1>1, <1>2, <1>3, <1>4, <1>5

LEMMA ItemIs ==
    /\ \A k \in Kinds : \A c \in Calls \cup {Hidden} :
          Item(k, c) \in Items /\ Item(k, c).kind = k /\ Item(k, c).call = c
    /\ \A e \in Items : e = Item(e.kind, e.call) /\ e.kind \in Kinds /\ e.call \in Calls \cup {Hidden}
    /\ \A k, c, l, d : Item(k, c) = Item(l, d) => k = l /\ c = d
BY DEF Item, Items

(***************************************************************************)
(* The merged stream                                                       *)
(***************************************************************************)
\* The part a call is announced or reported on.
LEMMA DueWhere ==
    ASSUME NEW p, Typed(p), NEW c \in Calls
    PROVE  /\ \A k : Due(p, k, c) <=> \E s \in Sources : Item(k, c) \in ToSet(p[s])
           /\ c \in Manager /\ Due(p, "start", c) => Item("start", c) \in ToSet(p["main"])
           /\ c \in Manager /\ Due(p, "result", c) => Item("result", c) \in ToSet(p["early"])
           /\ c \in Inner /\ Due(p, "start", c) => Item("start", c) \in ToSet(p["activity"])
           /\ c \in Inner /\ Due(p, "result", c) => Item("result", c) \in ToSet(p["activity"])
<1>1. \A k : Due(p, k, c) <=> \E s \in Sources : Item(k, c) \in ToSet(p[s])
  BY DEF Due, ToSet
<1>2. ASSUME NEW k \in {"start", "result"}, NEW s \in Sources, Item(k, c) \in ToSet(p[s])
      PROVE  Fits(s, Item(k, c)) /\ Item(k, c).kind = k /\ Item(k, c).call = c
  BY <1>2 DEF Typed, ToSet, Item
<1>3. c \notin Manager \/ c \notin Inner
  BY Owners
<1> QED BY <1>1, <1>2, <1>3 DEF Fits, Sources

\* An item joins a part.
Put(p, s, e, r) == r = [p EXCEPT ![s] = Append(@, e)]

LEMMA Puts ==
    ASSUME NEW p, Typed(p), NEW s \in Sources, NEW e \in Items, Fits(s, e),
           NEW r, Put(p, s, e, r)
    PROVE  /\ Typed(r) /\ \A t \in Sources \ {s} : r[t] = p[t]
           /\ r[s] = Append(p[s], e)
           /\ \A k, c : Due(r, k, c) <=> Due(p, k, c) \/ Item(k, c) = e
           /\ \A t \in Sources : ToSet(p[t]) \subseteq ToSet(r[t])
<1>1. /\ \A t \in Sources \ {s} : r[t] = p[t] /\ p[t] \in Seq(Items)
      /\ r[s] = Append(p[s], e) /\ p[s] \in Seq(Items) /\ DOMAIN r = Sources
      /\ r = [t \in Sources |-> r[t]]
  BY DEF Typed, Put
<1> DEFINE n == Len(p[s]) + 1
<1>2. /\ r[s] \in Seq(Items) /\ r[s][n] = e /\ DOMAIN p[s] = 1..Len(p[s]) /\ Len(p[s]) \in Nat
      /\ DOMAIN r[s] = 1..n
      /\ \A i \in DOMAIN p[s] : i \in DOMAIN r[s] /\ r[s][i] = p[s][i]
      /\ ToSet(r[s]) = ToSet(p[s]) \cup {e}
  BY <1>1, Joins
<1>3. \A i \in DOMAIN r[s] : i = n \/ i \in DOMAIN p[s]
  BY <1>2
<1>4. n \in DOMAIN r[s] /\ n \in Nat /\ \A i \in DOMAIN p[s] : i < n
  BY <1>2
<1> HIDE DEF n
<1>5. Typed(r)
  <2>1. r \in [Sources -> Seq(Items)]
    BY <1>1, <1>2
  <2>2. \A t \in Sources : \A i \in DOMAIN r[t] : Fits(t, r[t][i])
    BY <1>1, <1>2, <1>3 DEF Typed
  <2> QED BY <2>1, <2>2 DEF Typed
<1>6. \A t \in Sources : ToSet(r[t]) = IF t = s THEN ToSet(p[s]) \cup {e} ELSE ToSet(p[t])
  BY <1>1, <1>2
<1>7. \A k, c : Due(r, k, c) <=> Due(p, k, c) \/ Item(k, c) = e
  <2> SUFFICES ASSUME NEW k, NEW c PROVE Due(r, k, c) <=> Due(p, k, c) \/ Item(k, c) = e
    OBVIOUS
  <2>1. \A q : Due(q, k, c) <=> \E t \in Sources : Item(k, c) \in ToSet(q[t])
    BY DEF Due, ToSet
  <2> DEFINE x == Item(k, c)
  <2>2. \A q : Due(q, k, c) <=> \E t \in Sources : x \in ToSet(q[t])
    BY <2>1
  <2> HIDE DEF x
  <2>3. (\E t \in Sources : x \in ToSet(r[t])) <=> (\E t \in Sources : x \in ToSet(p[t])) \/ x = e
    BY <1>6
  <2> QED BY <2>2, <2>3 DEF x
<1> QED BY <1>1, <1>5, <1>6, <1>7

\* What no part holds yet may join one.
LEMMA PutsOnce ==
    ASSUME NEW p, Typed(p), Once(p), NEW s \in Sources, NEW e \in Items,
           e.kind # "start", e.kind = "result" => ~Due(p, "result", e.call),
           NEW r, Put(p, s, e, r)
    PROVE  Once(r)
<1>1. /\ \A t \in Sources \ {s} : r[t] = p[t]
      /\ r[s] = Append(p[s], e) /\ p[s] \in Seq(Items)
  BY DEF Typed, Put
<1> DEFINE n == Len(p[s]) + 1
<1>2. /\ r[s][n] = e /\ DOMAIN p[s] = 1..Len(p[s]) /\ Len(p[s]) \in Nat
      /\ DOMAIN r[s] = 1..n
      /\ \A i \in DOMAIN p[s] : i \in DOMAIN r[s] /\ r[s][i] = p[s][i]
  BY <1>1, Joins
<1>3. \A i \in DOMAIN r[s] : i = n \/ i \in DOMAIN p[s]
  BY <1>2
<1>4. n \in DOMAIN r[s] /\ n \in Nat /\ \A i \in DOMAIN p[s] : i < n
  BY <1>2
<1> HIDE DEF n
<1>5. e = Item(e.kind, e.call)
  BY ItemIs
<1>6. ASSUME NEW t \in Sources, NEW i \in DOMAIN r[t], NEW j \in DOMAIN r[t],
             r[t][i] = r[t][j], r[t][i].kind \in {"start", "result"}
      PROVE  i = j
  <2>1. CASE t # s
    BY <1>1, <1>6, <2>1 DEF Once
  <2>2. CASE t = s
    <3>1. e.kind \in {"start", "result"} => \A k \in DOMAIN p[s] : p[s][k] # e
      BY <1>5 DEF Due
    <3>2. CASE i \in DOMAIN p[s] /\ j \in DOMAIN p[s]
      BY <1>2, <1>6, <2>2, <3>2 DEF Once
    <3> QED BY <1>2, <1>3, <1>6, <2>2, <3>1, <3>2
  <2> QED BY <2>1, <2>2
<1>7. ASSUME NEW i \in DOMAIN r["activity"], NEW j \in DOMAIN r["activity"], NEW c \in Calls,
             r["activity"][i] = Item("start", c), r["activity"][j] = Item("result", c)
      PROVE  i < j
  <2>1. CASE s # "activity"
    BY <1>1, <1>7, <2>1 DEF Once, Sources
  <2>2. CASE s = "activity"
    <3>1. CASE i \in DOMAIN p[s] /\ j \in DOMAIN p[s]
      BY <1>2, <1>7, <2>2, <3>1 DEF Once
    <3>2. CASE i = n
      <4>1. e = Item("start", c)
        BY <1>2, <1>7, <2>2, <3>2
      <4> QED BY <1>5, <4>1, ItemIs
    <3>3. CASE i \in DOMAIN p[s] /\ j = n
      BY <1>4, <3>3
    <3> QED BY <1>3, <1>7, <2>2, <3>1, <3>2, <3>3
  <2> QED BY <2>1, <2>2
<1> QED BY <1>6, <1>7 DEF Once

\* The next item of a part is taken.
Taken(p, s, r) == r = [p EXCEPT ![s] = Tail(@)]

LEMMA Takes ==
    ASSUME NEW p, Typed(p), NEW s \in Sources, p[s] # <<>>,
           NEW r, Taken(p, s, r)
    PROVE  /\ Typed(r) /\ \A t \in Sources \ {s} : r[t] = p[t]
           /\ r[s] = Tail(p[s]) /\ Head(p[s]) \in Items /\ Fits(s, Head(p[s]))
           /\ Head(p[s]) = p[s][1] /\ 1 \in DOMAIN p[s]
           /\ \A t \in Sources : ToSet(r[t]) \subseteq ToSet(p[t])
           /\ \A k, c : Due(p, k, c) <=> Due(r, k, c) \/ Item(k, c) = Head(p[s])
<1> DEFINE h == Head(p[s])
<1>1. /\ \A t \in Sources \ {s} : r[t] = p[t] /\ p[t] \in Seq(Items)
      /\ r[s] = Tail(p[s]) /\ p[s] \in Seq(Items) /\ DOMAIN r = Sources
      /\ r = [t \in Sources |-> r[t]]
  BY DEF Typed, Taken
<1>2. /\ r[s] \in Seq(Items) /\ h \in Items /\ h = p[s][1] /\ 1 \in DOMAIN p[s]
      /\ DOMAIN p[s] = 1..Len(p[s]) /\ Len(p[s]) \in Nat /\ DOMAIN r[s] = 1..(Len(p[s]) - 1)
      /\ \A i \in DOMAIN r[s] : i + 1 \in DOMAIN p[s] /\ r[s][i] = p[s][i + 1]
      /\ ToSet(p[s]) = ToSet(r[s]) \cup {h}
  BY <1>1, Leads
<1>3. \A i \in DOMAIN r[s] : i \in Int /\ i + 1 # 1
  BY <1>2
<1> HIDE DEF h
<1>4. Typed(r) /\ Fits(s, h)
  <2>1. r \in [Sources -> Seq(Items)]
    BY <1>1, <1>2
  <2>2. \A t \in Sources : \A i \in DOMAIN r[t] : Fits(t, r[t][i])
    <3>1. \A i \in DOMAIN r[s] : Fits(s, r[s][i])
      BY <1>2 DEF Typed
    <3>2. \A t \in Sources \ {s} : \A i \in DOMAIN r[t] : Fits(t, r[t][i])
      BY <1>1 DEF Typed
    <3> QED BY <3>1, <3>2
  <2> QED BY <1>2, <2>1, <2>2 DEF Typed
<1>5. \A t \in Sources : ToSet(p[t]) = IF t = s THEN ToSet(r[s]) \cup {h} ELSE ToSet(r[t])
  BY <1>1, <1>2
<1>6. \A q, k, c : Due(q, k, c) <=> \E t \in Sources : Item(k, c) \in ToSet(q[t])
  BY DEF Due, ToSet
<1>7. \A k, c : Due(p, k, c) <=> Due(r, k, c) \/ Item(k, c) = h
  BY <1>5, <1>6
<1> QED BY <1>1, <1>2, <1>4, <1>5, <1>7 DEF h

\* What was next is not due again; a call whose result is next was announced.
LEMMA TakesOnce ==
    ASSUME NEW p, Typed(p), Once(p), NEW s \in Sources, p[s] # <<>>,
           NEW r, Taken(p, s, r)
    PROVE  /\ Once(r)
           /\ \A k \in {"start", "result"} : \A c \in Calls :
                 Item(k, c) = Head(p[s]) => ~Due(r, k, c)
           /\ \A c \in Inner : Item("result", c) = Head(p[s]) => ~Due(p, "start", c)
<1> DEFINE h == Head(p[s])
<1>1. /\ \A t \in Sources \ {s} : r[t] = p[t]
      /\ r[s] = Tail(p[s]) /\ p[s] \in Seq(Items)
  BY DEF Typed, Taken
<1>2. /\ r[s] \in Seq(Items) /\ h \in Items /\ h = p[s][1] /\ 1 \in DOMAIN p[s]
      /\ DOMAIN p[s] = 1..Len(p[s]) /\ Len(p[s]) \in Nat /\ DOMAIN r[s] = 1..(Len(p[s]) - 1)
      /\ \A i \in DOMAIN r[s] : i + 1 \in DOMAIN p[s] /\ r[s][i] = p[s][i + 1]
  BY <1>1, Leads
<1>3. \A i \in DOMAIN r[s] : i \in Int /\ i + 1 # 1
  BY <1>2
<1> HIDE DEF h
<1>4. Typed(r) /\ Fits(s, h)
  <2>1. Typed(r)
    BY Takes
  <2> QED BY <2>1, Takes DEF h
<1>8. Once(r)
  <2>1. ASSUME NEW t \in Sources, NEW i \in DOMAIN r[t], NEW j \in DOMAIN r[t],
               r[t][i] = r[t][j], r[t][i].kind \in {"start", "result"}
        PROVE  i = j
    <3>1. CASE t # s
      BY <1>1, <2>1, <3>1 DEF Once
    <3>2. CASE t = s
      <4>1. /\ i + 1 \in DOMAIN p[s] /\ j + 1 \in DOMAIN p[s]
            /\ p[s][i + 1] = p[s][j + 1] /\ p[s][i + 1].kind \in {"start", "result"}
        BY <1>2, <2>1, <3>2
      <4>2. i + 1 = j + 1
        BY <4>1 DEF Once
      <4> QED BY <1>3, <2>1, <3>2, <4>2
    <3> QED BY <3>1, <3>2
  <2>2. ASSUME NEW i \in DOMAIN r["activity"], NEW j \in DOMAIN r["activity"], NEW c \in Calls,
               r["activity"][i] = Item("start", c), r["activity"][j] = Item("result", c)
        PROVE  i < j
    <3>1. CASE s # "activity"
      BY <1>1, <2>2, <3>1 DEF Once, Sources
    <3>2. CASE s = "activity"
      <4>1. /\ i + 1 \in DOMAIN p[s] /\ j + 1 \in DOMAIN p[s]
            /\ p[s][i + 1] = Item("start", c) /\ p[s][j + 1] = Item("result", c)
        BY <1>2, <2>2, <3>2
      <4>2. i + 1 < j + 1
        BY <3>2, <4>1 DEF Once
      <4> QED BY <1>3, <2>2, <3>2, <4>2
    <3> QED BY <3>1, <3>2
  <2> QED BY <2>1, <2>2 DEF Once
<1>9. ASSUME NEW k \in {"start", "result"}, NEW c \in Calls, Item(k, c) = h
      PROVE  ~Due(r, k, c)
  <2> SUFFICES ASSUME Due(r, k, c) PROVE FALSE
    OBVIOUS
  <2>0. PICK t \in Sources : \E i \in DOMAIN r[t] : r[t][i] = h
    BY <1>9 DEF Due
  <2>1. PICK i \in DOMAIN r[t] : r[t][i] = h
    BY <2>0
  <2>2. h.kind = k /\ h.call = c
    BY <1>9, ItemIs DEF Item
  <2>3. t = s
    BY <1>1, <1>4, <2>1, <2>2, Owners DEF Typed, Fits, Sources
  <2>4. i + 1 = 1
    BY <1>2, <1>9, <2>1, <2>2, <2>3 DEF Once
  <2> QED BY <1>3, <2>1, <2>3, <2>4
<1>10. ASSUME NEW c \in Inner, Item("result", c) = h
       PROVE  ~Due(p, "start", c)
  <2> SUFFICES ASSUME Due(p, "start", c) PROVE FALSE
    OBVIOUS
  <2>1. c \in Calls
    BY Owners
  <2>2. Item("start", c) \in ToSet(p["activity"])
    BY <2>1, DueWhere
  <2>3. s = "activity"
    <3>1. h.kind = "result" /\ h.call = c
      BY <1>10 DEF Item
    <3> QED BY <1>4, <3>1, Owners DEF Fits, Sources
  <2>4. PICK i \in DOMAIN p[s] : p[s][i] = Item("start", c)
    BY <2>2, <2>3 DEF ToSet
  <2>5. i < 1
    BY <1>2, <1>10, <2>1, <2>3, <2>4 DEF Once
  <2> QED BY <1>2, <2>5
<1> QED BY <1>8, <1>9, <1>10 DEF h

(***************************************************************************)
(* The gate                                                                *)
(***************************************************************************)
Gates == [running : SUBSET Calls, queued : Seq(Calls)]

GateTyped(g) == g \in Gates /\ IsFiniteSet(g.running) /\ Cardinality(g.running) <= Slots

\* A call out of a queue: the rest keep their order.
LEMMA WithoutIs ==
    ASSUME NEW q \in Seq(Calls), NEW c
    PROVE  /\ Without(q, c) \in Seq(Calls)
           /\ IsInjective(q) =>
                 /\ ToSet(Without(q, c)) = ToSet(q) \ {c} /\ IsInjective(Without(q, c))
                 /\ \A i, j \in DOMAIN Without(q, c) : i < j =>
                       \E m, n \in DOMAIN q :
                          m < n /\ Without(q, c)[i] = q[m] /\ Without(q, c)[j] = q[n]
<1>1. CASE c \notin ToSet(q)
  BY <1>1 DEF Without
<1>2. CASE c \in ToSet(q)
  <2> DEFINE k == CHOOSE i \in DOMAIN q : q[i] = c
  <2>1. k \in DOMAIN q /\ q[k] = c
    BY <1>2 DEF ToSet
  <2>2. Without(q, c) = RemoveAt(q, k)
    BY <1>2 DEF Without
  <2> HIDE DEF k
  <2>3. RemoveAt(q, k) \in Seq(Calls)
    <3>1. /\ SubSeq(q, 1, k - 1) \in Seq(Calls) /\ SubSeq(q, k + 1, Len(q)) \in Seq(Calls)
      BY <2>1, Pieces
    <3> DEFINE a == SubSeq(q, 1, k - 1)
               b == SubSeq(q, k + 1, Len(q))
    <3> HIDE DEF a, b
    <3>2. a \in Seq(Calls) /\ b \in Seq(Calls)
      BY <3>1 DEF a, b
    <3>3. a \o b \in Seq(Calls)
      BY <3>2
    <3> QED BY <3>3 DEF a, b, RemoveAt
  <2> QED BY <2>1, <2>2, <2>3, LeavesOnce
<1> QED BY <1>1, <1>2

LEMMA GateStarts ==
    ASSUME NEW c \in Calls, GateTyped(gate[Owner(c)])
    PROVE  LET g == gate[Owner(c)]
               h == GateStart(c)
           IN /\ GateTyped(h)
              /\ \/ /\ Cardinality(g.running) < Slots
                    /\ h.running = g.running \cup {c} /\ h.queued = g.queued
                 \/ /\ Cardinality(g.running) = Slots
                    /\ h.running = g.running /\ h.queued = Append(g.queued, c)
<1> DEFINE g == gate[Owner(c)]
<1>1. /\ g \in Gates /\ g.running \in SUBSET Calls /\ g.queued \in Seq(Calls)
      /\ IsFiniteSet(g.running) /\ Cardinality(g.running) <= Slots
      /\ Cardinality(g.running) \in Nat /\ Slots \in Nat
  BY FS_CardinalityType, ToolBatchAssumption DEF GateTyped, Gates
<1>2. GateStart(c) = IF Cardinality(g.running) < Slots THEN [g EXCEPT !.running = @ \cup {c}]
                     ELSE [g EXCEPT !.queued = Append(@, c)]
  BY DEF GateStart
<1> HIDE DEF g
<1>3. CASE Cardinality(g.running) < Slots
  <2> DEFINE s == g.running \cup {c}
             h == [g EXCEPT !.running = s]
  <2>1. GateStart(c) = h
    BY <1>2, <1>3
  <2>2. s \in SUBSET Calls
    BY <1>1
  <2>3. IsFiniteSet(s) /\ Cardinality(s) <= Slots
    <3>1. IsFiniteSet(s) /\ Cardinality(s) = IF c \in g.running THEN Cardinality(g.running)
                                             ELSE Cardinality(g.running) + 1
      BY <1>1, FS_AddElement
    <3> HIDE DEF s
    <3> QED BY <1>1, <1>3, <3>1
  <2> HIDE DEF s
  <2>4. h \in Gates /\ h.running = s /\ h.queued = g.queued
    BY <1>1, <2>2 DEF Gates
  <2> HIDE DEF h
  <2> QED BY <1>3, <2>1, <2>3, <2>4 DEF GateTyped, g, s
<1>4. CASE ~(Cardinality(g.running) < Slots)
  <2> DEFINE q == Append(g.queued, c)
             h == [g EXCEPT !.queued = q]
  <2>1. GateStart(c) = h
    BY <1>2, <1>4
  <2>2. q \in Seq(Calls) /\ Cardinality(g.running) = Slots
    BY <1>1, <1>4
  <2> HIDE DEF q
  <2>3. h \in Gates /\ h.running = g.running /\ h.queued = q
    BY <1>1, <2>2 DEF Gates
  <2> HIDE DEF h
  <2> QED BY <1>1, <2>1, <2>2, <2>3 DEF GateTyped, g, q
<1> QED BY <1>3, <1>4

LEMMA GateSettles ==
    ASSUME NEW c \in Calls, GateTyped(gate[Owner(c)])
    PROVE  LET g == gate[Owner(c)]
               h == GateSettle(c)
               r == g.running \ {c}
               q == Without(g.queued, c)
           IN /\ GateTyped(h) /\ q \in Seq(Calls)
              /\ \/ /\ q = <<>> \/ Cardinality(r) >= Slots
                    /\ h.running = r /\ h.queued = q
                 \/ /\ q # <<>> /\ Cardinality(r) < Slots
                    /\ h.running = r \cup {Head(q)} /\ h.queued = Tail(q)
<1> DEFINE g == gate[Owner(c)]
           r == g.running \ {c}
           q == Without(g.queued, c)
<1>1. /\ g.running \in SUBSET Calls /\ g.queued \in Seq(Calls)
      /\ IsFiniteSet(g.running) /\ Cardinality(g.running) <= Slots
      /\ Cardinality(g.running) \in Nat /\ Slots \in Nat
  BY FS_CardinalityType, ToolBatchAssumption DEF GateTyped, Gates
<1>2. r \in SUBSET Calls /\ q \in Seq(Calls)
  BY <1>1, WithoutIs
<1>3. IsFiniteSet(r) /\ Cardinality(r) \in Nat /\ Cardinality(r) <= Slots
  <2>1. IsFiniteSet(r) /\ Cardinality(r) <= Cardinality(g.running)
    BY <1>1, FS_Subset
  <2>2. Cardinality(r) \in Nat
    BY <2>1, FS_CardinalityType
  <2> HIDE DEF r, g
  <2> QED BY <1>1, <2>1, <2>2
<1>4. GateSettle(c) = IF q = <<>> \/ Cardinality(r) >= Slots THEN [running |-> r, queued |-> q]
                      ELSE [running |-> r \cup {Head(q)}, queued |-> Tail(q)]
  BY DEF GateSettle
<1> HIDE DEF r, q
<1>5. CASE q = <<>> \/ Cardinality(r) >= Slots
  <2> DEFINE h == [running |-> r, queued |-> q]
  <2>1. h \in Gates /\ h.running = r /\ h.queued = q
    BY <1>2 DEF Gates
  <2>2. GateSettle(c) = h
    BY <1>4, <1>5
  <2> HIDE DEF h
  <2> QED BY <1>2, <1>3, <1>5, <2>1, <2>2 DEF GateTyped, g, r, q
<1>6. CASE q # <<>> /\ ~(Cardinality(r) >= Slots)
  <2> DEFINE s == r \cup {Head(q)}
             h == [running |-> s, queued |-> Tail(q)]
  <2>1. Head(q) \in Calls /\ Tail(q) \in Seq(Calls)
    BY <1>2, <1>6
  <2>2. s \in SUBSET Calls
    BY <1>2, <2>1
  <2>3. IsFiniteSet(s) /\ Cardinality(s) <= Slots /\ Cardinality(r) < Slots
    <3>1. IsFiniteSet(s) /\ Cardinality(s) = IF Head(q) \in r THEN Cardinality(r) ELSE Cardinality(r) + 1
      BY <1>3, FS_AddElement
    <3> HIDE DEF s
    <3> QED BY <1>1, <1>3, <1>6, <3>1
  <2>4. h \in Gates /\ h.running = s /\ h.queued = Tail(q)
    BY <2>1, <2>2 DEF Gates
  <2>5. GateSettle(c) = h
    BY <1>4, <1>6
  <2> HIDE DEF h
  <2> QED BY <1>2, <1>6, <2>3, <2>4, <2>5 DEF GateTyped, g, r, q
<1> QED BY <1>5, <1>6

LEMMA GatesTyped ==
    ASSUME TypeOK
    PROVE  /\ gate \in [Workers \cup {Hidden} -> Gates]
           /\ \A o \in Workers \cup {Hidden} : GateTyped(gate[o])
           /\ \A c \in Calls : Owner(c) \in Workers \cup {Hidden} /\ GateTyped(gate[Owner(c)])
<1>1. /\ gate \in [Workers \cup {Hidden} -> Gates]
      /\ \A o \in Workers \cup {Hidden} : GateTyped(gate[o])
  BY DEF TypeOK, Gates, GateTyped
<1> QED BY <1>1, Owners

(***************************************************************************)
(* What a report, a request and a worker put on the stream                 *)
(***************************************************************************)
LEMMA ReportPuts ==
    ASSUME Types, NEW c \in Calls, Report("result", c)
    PROVE  /\ Typed(pipes') /\ pipes'["main"] = pipes["main"]
           /\ \A k, d : Due(pipes', k, d) <=> Due(pipes, k, d) \/ (k = "result" /\ d = c)
           /\ \A t \in Sources : ToSet(pipes[t]) \subseteq ToSet(pipes'[t])
           /\ Once(pipes) /\ ~Due(pipes, "result", c) => Once(pipes')
<1> DEFINE src == IF c \in Manager THEN "early" ELSE "activity"
           e == Item("result", c)
<1>1. src \in Sources /\ src # "main" /\ pipes' = [pipes EXCEPT ![src] = Append(@, e)]
  BY DEF Report, Sources
<1>2. e \in Items /\ e.kind = "result" /\ e.call = c
  BY ItemIs DEF Kinds
<1>3. Fits(src, e)
  BY <1>2, Owners DEF Fits
<1>4. \A k, d : Item(k, d) = e <=> k = "result" /\ d = c
  BY ItemIs
<1>5. Typed(pipes) /\ "main" \in Sources
  BY DEF Types, Sources
<1> DEFINE r == pipes'
           p == pipes
<1>6. Put(p, src, e, r) /\ Typed(p)
  BY <1>1, <1>5 DEF Put
<1> HIDE DEF src, e, r, p
<1>9. Typed(r)
  BY <1>1, <1>2, <1>3, <1>6, Puts
<1>7. /\ Typed(r) /\ \A t \in Sources \ {src} : r[t] = p[t]
      /\ \A k, d : Due(r, k, d) <=> Due(p, k, d) \/ Item(k, d) = e
      /\ \A t \in Sources : ToSet(p[t]) \subseteq ToSet(r[t])
  BY <1>1, <1>2, <1>3, <1>6, <1>9, Puts
<1>8. Once(p) /\ ~Due(p, "result", e.call) => Once(r)
  BY <1>1, <1>2, <1>6, <1>9, PutsOnce
<1>10. \A k, d : Due(r, k, d) <=> Due(p, k, d) \/ (k = "result" /\ d = c)
  BY <1>4, <1>7
<1>11. r["main"] = p["main"]
  BY <1>1, <1>5, <1>7
<1>12. Once(p) /\ ~Due(p, "result", c) => Once(r)
  BY <1>2, <1>8
<1> QED BY <1>7, <1>10, <1>11, <1>12 DEF r, p

LEMMA RequestTyped ==
    ASSUME Types, Request \/ Halt
    PROVE  /\ Typed(pipes')
           /\ pipes'["early"] = pipes["early"] /\ pipes'["activity"] = pipes["activity"]
           /\ \A i \in DOMAIN pipes'["main"] :
                 pipes'["main"][i].kind = "start" => \E n \in DOMAIN Batch :
                     pipes'["main"][i].call = Batch[n]
<1> DEFINE m == pipes'["main"]
<1>1. pipes' = [pipes EXCEPT !["main"] = m] /\ Typed(pipes)
  <2>1. \/ pipes' = [pipes EXCEPT !["main"] = <<Item("stop", Hidden)>>]
        \/ pipes' = [pipes EXCEPT !["main"] = [i \in DOMAIN Batch |-> Item("start", Batch[i])]]
        \/ \E last \in {"done", "fail"} : pipes' = [pipes EXCEPT !["main"] =
                   <<Item("text", Hidden), Item(last, Hidden)>>]
    BY DEF Request, Halt
  <2> QED BY <2>1 DEF Types, Typed, Sources
<1>2. \/ m = <<Item("stop", Hidden)>>
      \/ m = [i \in DOMAIN Batch |-> Item("start", Batch[i])]
      \/ \E last \in {"done", "fail"} : m = <<Item("text", Hidden), Item(last, Hidden)>>
  <2>1. "main" \in Sources /\ pipes \in [Sources -> Seq(Items)]
    BY DEF Types, Typed, Sources
  <2> QED BY <2>1 DEF Request, Halt
<1>3. /\ m \in Seq(Items)
      /\ \A i \in DOMAIN m : Fits("main", m[i]) /\
             (m[i].kind = "start" => \E n \in DOMAIN Batch : m[i].call = Batch[n])
  <2>1. CASE m = <<Item("stop", Hidden)>>
    <3> DEFINE e == Item("stop", Hidden)
    <3>1. e \in Items /\ e.kind = "stop"
      BY ItemIs DEF Kinds
    <3> HIDE DEF e
    <3>2. m = <<e>>
      BY <2>1 DEF e
    <3> QED BY <3>1, <3>2 DEF Fits
  <2>2. CASE m = [i \in DOMAIN Batch |-> Item("start", Batch[i])]
    <3>1. Batch \in Seq(Manager) /\ \A i \in DOMAIN Batch : Batch[i] \in Manager
      BY ToolBatchAssumption
    <3>2. \A i \in DOMAIN Batch :
             /\ Item("start", Batch[i]) \in Items
             /\ Item("start", Batch[i]).kind = "start" /\ Item("start", Batch[i]).call = Batch[i]
      BY <3>1, ItemIs, Owners DEF Kinds
    <3> QED BY <2>2, <3>1, <3>2 DEF Fits
  <2>3. CASE \E last \in {"done", "fail"} : m = <<Item("text", Hidden), Item(last, Hidden)>>
    <3>1. PICK last \in {"done", "fail"} : m = <<Item("text", Hidden), Item(last, Hidden)>>
      BY <2>3
    <3> DEFINE e == Item("text", Hidden)
               f == Item(last, Hidden)
    <3>2. e \in Items /\ e.kind = "text" /\ f \in Items /\ f.kind \in {"done", "fail"}
      BY ItemIs DEF Kinds
    <3>3. m = <<e, f>>
      BY <3>1
    <3> HIDE DEF e, f
    <3> QED BY <3>2, <3>3 DEF Fits
  <2> QED BY <1>2, <2>1, <2>2, <2>3
<1> HIDE DEF m
<1>4. pipes'["main"] = m /\ \A t \in Sources \ {"main"} : pipes'[t] = pipes[t]
  BY <1>1 DEF Typed, m
<1>5. Typed(pipes')
  <2>1. pipes' \in [Sources -> Seq(Items)]
    BY <1>1, <1>3 DEF Typed
  <2>2. \A t \in Sources : \A i \in DOMAIN pipes'[t] : Fits(t, pipes'[t][i])
    BY <1>1, <1>3, <1>4 DEF Typed
  <2> QED BY <2>1, <2>2 DEF Typed
<1> QED BY <1>3, <1>4, <1>5 DEF Sources

\* A worker announces its calls.
LEMMA AnnouncePuts ==
    ASSUME Types, NEW w \in Workers, WorkerTurn(w)
    PROVE  /\ Typed(pipes') /\ pipes'["main"] = pipes["main"]
           /\ \A d \in Calls : /\ Due(pipes', "result", d) <=> Due(pipes, "result", d)
                               /\ Due(pipes', "start", d) <=> Due(pipes, "start", d) \/ Owner(d) = w
           /\ \A t \in Sources : ToSet(pipes[t]) \subseteq ToSet(pipes'[t])
           /\ /\ Once(pipes)
              /\ \A d \in Calls : Owner(d) = w => ~Due(pipes, "start", d) /\ ~Due(pipes, "result", d)
              => Once(pipes')
<1> DEFINE q == Inside[w]
           a == [i \in DOMAIN q |-> Item("start", q[i])]
           p == pipes["activity"]
           r == pipes'["activity"]
           n == Len(p)
<1>1. q \in Seq(Inner) /\ \A i \in DOMAIN q : q[i] \in Inner /\ Owner(q[i]) = w
  BY ToolBatchAssumption, Owners
<1>2. /\ \A i \in DOMAIN q : /\ Item("start", q[i]) \in Items /\ Item("start", q[i]).kind = "start"
                             /\ Item("start", q[i]).call = q[i] /\ Fits("activity", Item("start", q[i]))
  <2>1. \A i \in DOMAIN q : /\ Item("start", q[i]) \in Items /\ Item("start", q[i]).kind = "start"
                            /\ Item("start", q[i]).call = q[i]
    BY <1>1, ItemIs, Owners DEF Kinds
  <2> QED BY <1>1, <2>1 DEF Fits
<1>3. a \in Seq(Items) /\ DOMAIN a = DOMAIN q /\ \A i \in DOMAIN q : a[i] = Item("start", q[i])
  <2>1. DOMAIN q = 1..Len(q) /\ Len(q) \in Nat
    BY <1>1
  <2> QED BY <1>2, <2>1
<1>4. /\ Typed(pipes) /\ p \in Seq(Items) /\ pipes \in [Sources -> Seq(Items)]
      /\ "activity" \in Sources /\ "main" \in Sources
  BY DEF Types, Typed, Sources
<1>5. pipes' = [pipes EXCEPT !["activity"] = p \o a]
  BY DEF WorkerTurn
<1>6. r = p \o a /\ \A t \in Sources \ {"activity"} : pipes'[t] = pipes[t]
  BY <1>4, <1>5
<1> HIDE DEF a, q
<1>7. /\ r \in Seq(Items) /\ n \in Nat /\ DOMAIN p = 1..n
      /\ \A i \in DOMAIN p : i \in DOMAIN r /\ r[i] = p[i]
      /\ \A i \in DOMAIN q : n + i \in DOMAIN r /\ r[n + i] = Item("start", q[i])
      /\ \A i \in DOMAIN r : i \in DOMAIN p \/ i - n \in DOMAIN q
      /\ DOMAIN r \subseteq Nat /\ DOMAIN q \subseteq Nat \ {0}
  <2>1. DOMAIN q = 1..Len(q) /\ Len(q) \in Nat
    BY <1>1
  <2>2. /\ p \o a \in Seq(Items) /\ n \in Nat /\ DOMAIN p = 1..n
        /\ \A i \in DOMAIN p : i \in DOMAIN (p \o a) /\ (p \o a)[i] = p[i]
        /\ \A i \in DOMAIN a : n + i \in DOMAIN (p \o a) /\ (p \o a)[n + i] = a[i]
        /\ \A i \in DOMAIN (p \o a) : i \in DOMAIN p \/ i - n \in DOMAIN a
    BY <1>3, <1>4, Follows
  <2>3. r \in Seq(Items)
    BY <1>6, <2>2
  <2>4. DOMAIN r \subseteq Nat
    BY <2>3
  <2> HIDE DEF p, r, n
  <2> QED BY <1>3, <1>6, <2>1, <2>2, <2>3, <2>4
<1> DEFINE Said(i) == q[i - n]
<1>8. \A i \in DOMAIN r : \/ i \in DOMAIN p /\ r[i] = p[i]
                          \/ i \notin DOMAIN p /\ i - n \in DOMAIN q /\ r[i] = Item("start", Said(i))
  <2> SUFFICES ASSUME NEW i \in DOMAIN r, i \notin DOMAIN p
               PROVE  i - n \in DOMAIN q /\ r[i] = Item("start", Said(i))
    BY <1>7
  <2>1. i - n \in DOMAIN q /\ n + (i - n) = i
    BY <1>7
  <2> QED BY <1>7, <2>1
<1> HIDE DEF p, r, n
<1>9. Typed(pipes')
  <2>1. pipes' \in [Sources -> Seq(Items)]
    BY <1>4, <1>5, <1>6, <1>7
  <2>2. \A i \in DOMAIN r : Fits("activity", r[i])
    BY <1>2, <1>4, <1>8 DEF Typed, p
  <2>3. \A t \in Sources : \A i \in DOMAIN pipes'[t] : Fits(t, pipes'[t][i])
    BY <1>4, <1>6, <2>2 DEF Typed, r
  <2> QED BY <2>1, <2>3 DEF Typed
<1>10. ToSet(p) \subseteq ToSet(r)
  BY <1>7 DEF ToSet
<1>11. \A t \in Sources : ToSet(pipes[t]) \subseteq ToSet(pipes'[t])
  BY <1>6, <1>10 DEF p, r
<1>12. \A x : x \in ToSet(r) => x \in ToSet(p) \/ \E i \in DOMAIN q : x = Item("start", q[i])
  <2> SUFFICES ASSUME NEW i \in DOMAIN r
               PROVE  r[i] \in ToSet(p) \/ \E j \in DOMAIN q : r[i] = Item("start", q[j])
    BY DEF ToSet
  <2> QED BY <1>8 DEF ToSet
<1>13. \A z, k, d : Due(z, k, d) <=> \E t \in Sources : Item(k, d) \in ToSet(z[t])
  BY DEF Due, ToSet
<1>14. ASSUME NEW d \in Calls
       PROVE  /\ Due(pipes', "result", d) <=> Due(pipes, "result", d)
              /\ Due(pipes', "start", d) <=> Due(pipes, "start", d) \/ Owner(d) = w
  <2>1. \A k : Due(pipes, k, d) => Due(pipes', k, d)
    BY <1>11, <1>13
  <2>2. \A k : Due(pipes', k, d) => \/ Due(pipes, k, d)
                                    \/ k = "start" /\ \E i \in DOMAIN q : d = q[i]
    <3> SUFFICES ASSUME NEW k, NEW t \in Sources, Item(k, d) \in ToSet(pipes'[t])
                 PROVE  Due(pipes, k, d) \/ (k = "start" /\ \E i \in DOMAIN q : d = q[i])
      BY <1>13
    <3>1. CASE t # "activity"
      BY <1>6, <1>13, <3>1
    <3>2. CASE t = "activity"
      <4>1. Item(k, d) \in ToSet(p) \/ \E i \in DOMAIN q : Item(k, d) = Item("start", q[i])
        BY <1>12, <3>2 DEF r
      <4>2. Item(k, d) \in ToSet(p) => Due(pipes, k, d)
        BY <1>4, <1>13 DEF p
      <4> QED BY <4>1, <4>2, ItemIs
    <3> QED BY <3>1, <3>2
  <2>3. Owner(d) = w => Due(pipes', "start", d)
    <3> SUFFICES ASSUME Owner(d) = w PROVE Due(pipes', "start", d)
      OBVIOUS
    <3>1. \E i \in DOMAIN Inside[w] : Inside[w][i] = d
      BY Owners
    <3>2. PICK i \in DOMAIN q : q[i] = d
      BY <3>1 DEF q
    <3>3. n + i \in DOMAIN r /\ r[n + i] = Item("start", d)
      BY <1>7, <3>2
    <3> QED BY <1>4, <3>3 DEF Due, r
  <2> QED BY <1>1, <2>1, <2>2, <2>3
<1>15. ASSUME Once(pipes),
              \A d \in Calls : Owner(d) = w => ~Due(pipes, "start", d) /\ ~Due(pipes, "result", d)
       PROVE  Once(pipes')
  <2>1. \A i \in DOMAIN q : \A j \in DOMAIN p :
           p[j] # Item("start", q[i]) /\ p[j] # Item("result", q[i])
    <3>1. \A i \in DOMAIN q : q[i] \in Calls /\ Owner(q[i]) = w
      BY <1>1, Owners
    <3> QED BY <1>4, <1>15, <3>1 DEF Due, p
  <2>2. \A i, j \in DOMAIN q : q[i] = q[j] => i = j
    BY ToolBatchAssumption DEF q
  <2>3. ASSUME NEW i \in DOMAIN r, NEW j \in DOMAIN r, r[i] = r[j], r[i].kind \in {"start", "result"}
        PROVE  i = j
    <3>1. CASE i \in DOMAIN p /\ j \in DOMAIN p
      BY <1>4, <1>7, <1>15, <2>3, <3>1 DEF Once, p
    <3>2. CASE i \in DOMAIN p /\ j \notin DOMAIN p
      BY <1>7, <1>8, <2>1, <2>3, <3>2
    <3>3. CASE i \notin DOMAIN p /\ j \in DOMAIN p
      BY <1>7, <1>8, <2>1, <2>3, <3>3
    <3>4. CASE i \notin DOMAIN p /\ j \notin DOMAIN p
      <4>1. i - n \in DOMAIN q /\ j - n \in DOMAIN q /\ q[i - n] = q[j - n]
        BY <1>8, <2>3, <3>4, ItemIs
      <4>2. i - n = j - n /\ i \in Nat /\ j \in Nat
        BY <1>7, <2>2, <4>1
      <4> QED BY <1>7, <4>2
    <3> QED BY <3>1, <3>2, <3>3, <3>4
  <2>4. ASSUME NEW i \in DOMAIN r, NEW j \in DOMAIN r, NEW c \in Calls,
               r[i] = Item("start", c), r[j] = Item("result", c)
        PROVE  i < j
    <3>1. j \in DOMAIN p
      BY <1>8, <2>4, ItemIs
    <3>2. CASE i \in DOMAIN p
      BY <1>4, <1>7, <1>15, <2>4, <3>1, <3>2 DEF Once, p
    <3>3. CASE i \notin DOMAIN p
      <4>1. i - n \in DOMAIN q /\ c = q[i - n]
        BY <1>8, <2>4, <3>3, ItemIs
      <4> QED BY <1>7, <2>1, <2>4, <3>1, <4>1
    <3> QED BY <3>2, <3>3
  <2>5. \A t \in Sources : \A i, j \in DOMAIN pipes'[t] :
          pipes'[t][i] = pipes'[t][j] /\ pipes'[t][i].kind \in {"start", "result"} => i = j
    BY <1>6, <1>15, <2>3 DEF Once, r
  <2> QED BY <2>4, <2>5 DEF Once, r
<1> QED BY <1>4, <1>6, <1>9, <1>11, <1>14, <1>15

\* A worker's run fails.
LEMMA FailPuts ==
    ASSUME Types, NEW w \in Workers, WorkerFails(w)
    PROVE  /\ Typed(pipes') /\ pipes'["main"] = pipes["main"] /\ Failing'
           /\ \A k, d : d \in Calls =>
                 (Due(pipes', k, d) <=> Due(pipes, k, d) \/ (k = "result" /\ d = w))
           /\ Once(pipes) /\ ~Due(pipes, "result", w) => Once(pipes')
<1> DEFINE e == Item("fail", Hidden)
           f == Item("result", w)
           p == [pipes EXCEPT !["activity"] = Append(@, e)]
<1>1. w \in Manager /\ w \in Calls /\ Hidden \notin Calls
  BY Owners
<1>2. /\ e \in Items /\ e.kind = "fail" /\ Fits("activity", e)
      /\ f \in Items /\ f.kind = "result" /\ f.call = w /\ Fits("early", f)
      /\ \A k, d : Item(k, d) = e => d = Hidden
      /\ \A k, d : Item(k, d) = f <=> k = "result" /\ d = w
  <2>1. /\ e \in Items /\ e.kind = "fail" /\ f \in Items /\ f.kind = "result" /\ f.call = w
    BY <1>1, ItemIs DEF Kinds
  <2>2. /\ \A k, d : Item(k, d) = e => d = Hidden
        /\ \A k, d : Item(k, d) = f <=> k = "result" /\ d = w
    BY ItemIs
  <2> QED BY <1>1, <2>1, <2>2 DEF Fits
<1>3. Typed(pipes) /\ {"activity", "early", "main"} \subseteq Sources
  BY DEF Types, Sources
<1>4. Put(p, "early", f, pipes')
  BY <1>3 DEF WorkerFails, Typed, Put
<1> HIDE DEF e, f, p
<1>5. /\ Typed(p) /\ p["main"] = pipes["main"]
      /\ p["activity"] = Append(pipes["activity"], e)
      /\ \A k, d : Due(p, k, d) <=> Due(pipes, k, d) \/ Item(k, d) = e
      /\ Once(pipes) => Once(p)
  <2>1. Put(pipes, "activity", e, p)
    BY DEF p, Put
  <2>2. /\ Typed(p) /\ \A t \in Sources \ {"activity"} : p[t] = pipes[t]
        /\ p["activity"] = Append(pipes["activity"], e)
        /\ \A k, d : Due(p, k, d) <=> Due(pipes, k, d) \/ Item(k, d) = e
    <3>1. Typed(p)
      BY <1>2, <1>3, <2>1, Puts
    <3> QED BY <1>2, <1>3, <2>1, <3>1, Puts
  <2>3. Once(pipes) => Once(p)
    BY <1>2, <1>3, <2>1, PutsOnce
  <2> QED BY <1>3, <2>2, <2>3
<1>6. /\ Typed(pipes') /\ pipes'["main"] = p["main"] /\ pipes'["activity"] = p["activity"]
      /\ \A k, d : Due(pipes', k, d) <=> Due(p, k, d) \/ Item(k, d) = f
      /\ Once(p) /\ ~Due(p, "result", w) => Once(pipes')
  <2>1. /\ Typed(pipes') /\ \A t \in Sources \ {"early"} : pipes'[t] = p[t]
        /\ \A k, d : Due(pipes', k, d) <=> Due(p, k, d) \/ Item(k, d) = f
    <3>1. Typed(pipes')
      BY <1>2, <1>3, <1>4, <1>5, Puts
    <3> QED BY <1>2, <1>3, <1>4, <1>5, <3>1, Puts
  <2>2. Once(p) /\ ~Due(p, "result", f.call) => Once(pipes')
    BY <1>2, <1>3, <1>4, <1>5, PutsOnce
  <2> QED BY <1>2, <1>3, <2>1, <2>2
<1>7. Failing'
  <2>1. pipes["activity"] \in Seq(Items)
    BY <1>3 DEF Typed
  <2>2. /\ Len(pipes["activity"]) + 1 \in DOMAIN pipes'["activity"]
        /\ pipes'["activity"][Len(pipes["activity"]) + 1] = e
    BY <1>2, <1>5, <1>6, <2>1
  <2> QED BY <1>2, <2>2 DEF Failing
<1>8. \A k, d : d \in Calls => (Due(pipes', k, d) <=> Due(pipes, k, d) \/ (k = "result" /\ d = w))
  BY <1>1, <1>2, <1>5, <1>6
<1>9. ~Due(pipes, "result", w) => ~Due(p, "result", w)
  BY <1>1, <1>2, <1>5
<1> QED BY <1>5, <1>6, <1>7, <1>8, <1>9

\* What taking an item does to the merged stream.
LEMMA TakePipes ==
    ASSUME Types, NEW s \in Sources, Take(s)
    PROVE  LET e == Head(pipes[s]) IN
           /\ Polled /\ Taken(pipes, s, pipes') /\ Typed(pipes) /\ Typed(pipes')
           /\ pipes[s] # <<>> /\ e \in Items /\ Fits(s, e) /\ e = pipes[s][1] /\ 1 \in DOMAIN pipes[s]
           /\ e = Item(e.kind, e.call) /\ e.call \in Calls \cup {Hidden}
           /\ e.kind \in {"start", "result"} => e.call \in Calls
<1> DEFINE e == Head(pipes[s])
<1>1. Polled /\ pipes[s] # <<>> /\ Taken(pipes, s, pipes') /\ Typed(pipes)
  BY DEF Take, Types, Taken
<1>2. Typed(pipes')
  BY <1>1, Takes
<1>3. e \in Items /\ Fits(s, e) /\ e = pipes[s][1] /\ 1 \in DOMAIN pipes[s]
  BY <1>1, <1>2, Takes
<1> HIDE DEF e
<1>4. e.kind \in {"start", "result"} => e.call \in Calls
  BY <1>3, Owners DEF Fits, Sources
<1> QED BY <1>1, <1>2, <1>3, <1>4, ItemIs DEF e

\* What the gate makes of a call announced and of one that is back.
LEMMA StartedGate ==
    ASSUME TypeOK, NEW c \in Calls, Started(c)
    PROVE  LET o == Owner(c) IN
           /\ o \in Workers \cup {Hidden}
           /\ \A p \in (Workers \cup {Hidden}) \ {o} : gate'[p] = gate[p]
           /\ DOMAIN gate' = Workers \cup {Hidden} /\ gate' = [p \in Workers \cup {Hidden} |-> gate'[p]]
           /\ gate'[o] = GateStart(c)
           /\ \A p \in Workers \cup {Hidden} : GateTyped(gate'[p])
<1> DEFINE o == Owner(c)
           h == GateStart(c)
<1>1. gate' = [gate EXCEPT ![o] = h]
  BY DEF Started
<1>2. /\ gate \in [Workers \cup {Hidden} -> Gates] /\ o \in Workers \cup {Hidden}
      /\ \A p \in Workers \cup {Hidden} : GateTyped(gate[p])
  BY GatesTyped
<1>3. GateTyped(h)
  BY <1>2, GateStarts
<1> HIDE DEF o, h
<1>4. /\ \A p \in (Workers \cup {Hidden}) \ {o} : gate'[p] = gate[p]
      /\ DOMAIN gate' = Workers \cup {Hidden} /\ gate' = [p \in Workers \cup {Hidden} |-> gate'[p]]
      /\ gate'[o] = h
  BY <1>1, <1>2
<1>5. \A p \in Workers \cup {Hidden} : GateTyped(gate'[p])
  BY <1>2, <1>3, <1>4
<1> QED BY <1>2, <1>4, <1>5 DEF o, h

LEMMA LeaveGate ==
    ASSUME TypeOK, NEW c \in Calls, Leave(c)
    PROVE  LET o == Owner(c) IN
           /\ o \in Workers \cup {Hidden}
           /\ \A p \in (Workers \cup {Hidden}) \ {o} : gate'[p] = gate[p]
           /\ DOMAIN gate' = Workers \cup {Hidden} /\ gate' = [p \in Workers \cup {Hidden} |-> gate'[p]]
           /\ gate'[o] = GateSettle(c)
           /\ \A p \in Workers \cup {Hidden} : GateTyped(gate'[p])
<1> DEFINE o == Owner(c)
           h == GateSettle(c)
<1>1. gate' = [gate EXCEPT ![o] = h]
  BY DEF Leave
<1>2. /\ gate \in [Workers \cup {Hidden} -> Gates] /\ o \in Workers \cup {Hidden}
      /\ \A p \in Workers \cup {Hidden} : GateTyped(gate[p])
  BY GatesTyped
<1>3. GateTyped(h)
  BY <1>2, GateSettles
<1> HIDE DEF o, h
<1>4. /\ \A p \in (Workers \cup {Hidden}) \ {o} : gate'[p] = gate[p]
      /\ DOMAIN gate' = Workers \cup {Hidden} /\ gate' = [p \in Workers \cup {Hidden} |-> gate'[p]]
      /\ gate'[o] = h
  BY <1>1, <1>2
<1>5. \A p \in Workers \cup {Hidden} : GateTyped(gate'[p])
  BY <1>2, <1>3, <1>4
<1> QED BY <1>2, <1>4, <1>5 DEF o, h

(***************************************************************************)
(* Types                                                                   *)
(***************************************************************************)
Cores == {"poll", "check", "started", "written", "settled", "cut"}

LoopTyped ==
    /\ hand \in Calls \cup {Hidden}
    /\ gate \in [Workers \cup {Hidden} -> Gates]
    /\ \A o \in Workers \cup {Hidden} : GateTyped(gate[o])
    /\ open \subseteq Calls /\ rows \in [kept : Seq(Calls), killed : [Calls -> Nat]]
    /\ action \in {"fresh", "text", "tools", "between"} /\ done \in BOOLEAN
    /\ shown \in [Calls -> {"hidden", "waiting", "running", "finished"}]

LEMMA TypesSplit ==
    TypeOK <=>
        /\ stage \in {"request", "tools", "over"}
        /\ phase \in [Calls -> {"unsaid", "said", "runs", "asks", "freed", "refused", "back"}]
        /\ pipes \in [Sources -> Seq(Items)]
        /\ cancel \in BOOLEAN /\ armed \in BOOLEAN /\ deny \in BOOLEAN
        /\ core \in Cores /\ LoopTyped
        /\ end \in {"running", "finished", "preempted", "denied", "failed", "cancelled", "aborted"}
        /\ asks \in Seq(Asking) /\ pending \subseteq Asking /\ popup \in Asking \cup {Hidden}
        /\ refused \subseteq Calls
<1>1. gate \in [Workers \cup {Hidden} -> Gates] =>
         ((\A o \in DOMAIN gate : IsFiniteSet(gate[o].running) /\ Cardinality(gate[o].running) <= Slots)
          <=> \A o \in Workers \cup {Hidden} : GateTyped(gate[o]))
  BY DEF GateTyped
<1> QED BY <1>1 DEF TypeOK, LoopTyped, Items, Gates, Cores

LEMMA TypesNext ==
    ASSUME stage' \in {"request", "tools", "over"},
           phase' \in [Calls -> {"unsaid", "said", "runs", "asks", "freed", "refused", "back"}],
           pipes' \in [Sources -> Seq(Items)],
           cancel' \in BOOLEAN /\ armed' \in BOOLEAN /\ deny' \in BOOLEAN,
           core' \in Cores /\ LoopTyped',
           end' \in {"running", "finished", "preempted", "denied", "failed", "cancelled", "aborted"},
           asks' \in Seq(Asking) /\ pending' \subseteq Asking /\ popup' \in Asking \cup {Hidden},
           refused' \subseteq Calls
    PROVE  TypeOK'
<1>1. \A o \in DOMAIN gate' : IsFiniteSet(gate'[o].running) /\ Cardinality(gate'[o].running) <= Slots
  BY DEF GateTyped, LoopTyped
<1> QED BY <1>1 DEF TypeOK, LoopTyped, Items, Gates, Cores

LEMMA TypesInit == Init => Types
<1> SUFFICES ASSUME Init PROVE Types
  OBVIOUS
<1> DEFINE g == [running |-> {}, queued |-> <<>>]
<1>1. g \in Gates /\ g.running = {} /\ GateTyped(g)
  <2>1. g \in Gates /\ g.running = {}
    BY DEF Gates
  <2>2. IsFiniteSet({}) /\ Cardinality({}) = 0 /\ Slots \in Nat
    BY FS_EmptySet, ToolBatchAssumption
  <2> HIDE DEF g
  <2> QED BY <2>1, <2>2 DEF GateTyped
<1>2. gate = [o \in Workers \cup {Hidden} |-> g]
  BY DEF Init
<1> HIDE DEF g
<1>3. LoopTyped
  <2>1. gate \in [Workers \cup {Hidden} -> Gates] /\ \A o \in Workers \cup {Hidden} : GateTyped(gate[o])
    BY <1>1, <1>2
  <2>2. rows \in [kept : Seq(Calls), killed : [Calls -> Nat]]
    <3>1. [c \in Calls |-> 0] \in [Calls -> Nat]
      OBVIOUS
    <3> QED BY <3>1 DEF Init
  <2> QED BY <2>1, <2>2 DEF Init, LoopTyped
<1>4. pipes \in [Sources -> Seq(Items)] /\ \A s \in Sources : DOMAIN pipes[s] = {}
  BY DEF Init
<1>5. /\ stage \in {"request", "tools", "over"}
      /\ phase \in [Calls -> {"unsaid", "said", "runs", "asks", "freed", "refused", "back"}]
      /\ cancel \in BOOLEAN /\ armed \in BOOLEAN /\ deny \in BOOLEAN
      /\ core \in Cores
      /\ end \in {"running", "finished", "preempted", "denied", "failed", "cancelled", "aborted"}
      /\ asks \in Seq(Asking) /\ pending \subseteq Asking /\ popup \in Asking \cup {Hidden}
      /\ refused \subseteq Calls
  <2>1. phase \in [Calls -> {"unsaid", "said", "runs", "asks", "freed", "refused", "back"}]
    BY DEF Init
  <2>2. asks \in Seq(Asking) /\ popup \in Asking \cup {Hidden}
    BY DEF Init
  <2> QED BY <2>1, <2>2 DEF Init, Cores
<1>6. TypeOK
  BY <1>3, <1>4, <1>5, TypesSplit
<1>7. Typed(pipes)
  BY <1>4 DEF Typed
<1>8. HandHeld
  BY DEF Init, HandHeld, Handled
<1> QED BY <1>6, <1>7, <1>8 DEF Types

LEMMA KilledTyped ==
    ASSUME rows \in [kept : Seq(Calls), killed : [Calls -> Nat]], NEW calls
    PROVE  /\ [rows EXCEPT !.killed = Killed(calls)] \in [kept : Seq(Calls), killed : [Calls -> Nat]]
           /\ Killed(calls) \in [Calls -> Nat]
           /\ [rows EXCEPT !.killed = Killed(calls)].kept = rows.kept
           /\ [rows EXCEPT !.killed = Killed(calls)].killed = Killed(calls)
           /\ \A c \in Calls : Killed(calls)[c] = rows.killed[c] + IF c \in calls THEN 1 ELSE 0
<1>1. Killed(calls) \in [Calls -> Nat]
  <2>1. \A c \in Calls : rows.killed[c] + (IF c \in calls THEN 1 ELSE 0) \in Nat
    <3>1. rows.killed \in [Calls -> Nat]
      OBVIOUS
    <3> SUFFICES ASSUME NEW c \in Calls
                 PROVE  rows.killed[c] + (IF c \in calls THEN 1 ELSE 0) \in Nat
      OBVIOUS
    <3>2. rows.killed[c] \in Nat
      BY <3>1
    <3> QED BY <3>2
  <2> QED BY <2>1 DEF Killed
<1>2. \A c \in Calls : Killed(calls)[c] = rows.killed[c] + IF c \in calls THEN 1 ELSE 0
  BY DEF Killed
<1> DEFINE k == Killed(calls)
<1> HIDE DEF k
<1>3. k \in [Calls -> Nat]
  BY <1>1 DEF k
<1>4. /\ [rows EXCEPT !.killed = k] \in [kept : Seq(Calls), killed : [Calls -> Nat]]
      /\ [rows EXCEPT !.killed = k].kept = rows.kept
      /\ [rows EXCEPT !.killed = k].killed = k
  BY <1>3
<1> QED BY <1>1, <1>2, <1>4 DEF k

LEMMA ShapedStep ==
    ASSUME Types, [Next]_vars
    PROVE  TypeOK' /\ Typed(pipes')
<1> DEFINE Shaped == TypeOK /\ Typed(pipes)
<1> SUFFICES Shaped'
  OBVIOUS
<1> USE DEF Types
<1>0. /\ stage \in {"request", "tools", "over"}
      /\ phase \in [Calls -> {"unsaid", "said", "runs", "asks", "freed", "refused", "back"}]
      /\ pipes \in [Sources -> Seq(Items)]
      /\ cancel \in BOOLEAN /\ armed \in BOOLEAN /\ deny \in BOOLEAN
      /\ core \in Cores /\ LoopTyped
      /\ end \in {"running", "finished", "preempted", "denied", "failed", "cancelled", "aborted"}
      /\ asks \in Seq(Asking) /\ pending \subseteq Asking /\ popup \in Asking \cup {Hidden}
      /\ refused \subseteq Calls
  BY TypesSplit
<1>1. ASSUME Typed(pipes') PROVE pipes' \in [Sources -> Seq(Items)]
  BY <1>1 DEF Typed
<1>2. Workers \subseteq Calls /\ Asking \subseteq Calls /\ Manager \subseteq Calls
  BY Owners, ToolBatchAssumption
<1>3. ASSUME UNCHANGED <<hand, gate, open, rows, action, done, shown>> PROVE LoopTyped'
  BY <1>0, <1>3 DEF LoopTyped
<1>16. ASSUME NEW c \in Calls, Leave(c), rows' = rows, hand' \in Calls
      PROVE  LoopTyped'
  <2>1. /\ \A p \in Workers \cup {Hidden} : GateTyped(gate'[p])
        /\ gate' = [p \in Workers \cup {Hidden} |-> gate'[p]]
    BY <1>16, LeaveGate
  <2>2. gate' \in [Workers \cup {Hidden} -> Gates]
    BY <2>1 DEF GateTyped
  <2>3. open' = open \ {c} /\ UNCHANGED <<action, done, end, shown>>
    BY <1>16 DEF Leave, StillOpen
  <2> QED BY <1>0, <1>16, <2>1, <2>2, <2>3 DEF LoopTyped
<1>4. CASE Request \/ Halt
  <2>1. Typed(pipes')
    BY <1>4, RequestTyped
  <2>2. /\ UNCHANGED <<flags, loop, prompt, refused>>
        /\ stage' \in {"tools", "over"}
        /\ phase' \in {phase, [c \in Calls |-> IF c \in Manager THEN "said" ELSE phase[c]]}
    BY <1>4 DEF Request, Halt
  <2>3. phase' \in [Calls -> {"unsaid", "said", "runs", "asks", "freed", "refused", "back"}]
    BY <1>0, <2>2
  <2>4. TypeOK'
    BY <1>0, <1>1, <1>3, <2>1, <2>2, <2>3, TypesNext DEF flags, loop, prompt
  <2> QED BY <2>1, <2>4
<1>5. ASSUME NEW c \in Calls, Dispatch(c) \/ Ask(c) \/ Return(c)
      PROVE  Shaped'
  <2>1. Typed(pipes')
    BY <1>5, ReportPuts DEF Dispatch, Ask, Return
  <2>2. /\ UNCHANGED <<stage, cancel, armed, core, hand, gate, open, rows, action, done, end, shown, pending, popup>>
        /\ phase' \in [Calls -> {"unsaid", "said", "runs", "asks", "freed", "refused", "back"}]
        /\ asks' = asks \/ (c \in Asking /\ asks' = Append(asks, c))
        /\ deny' \in BOOLEAN /\ refused' \subseteq Calls
    <3>1. CASE Dispatch(c)
      BY <1>0, <3>1 DEF Dispatch, flags, loop, prompt
    <3>2. CASE Ask(c)
      BY <1>0, <3>2 DEF Ask, flags, loop
    <3>3. CASE Return(c)
      <4>1. phase' \in [Calls -> {"unsaid", "said", "runs", "asks", "freed", "refused", "back"}]
        BY <1>0, <3>3 DEF Return
      <4> QED BY <1>0, <3>3, <4>1 DEF Return, loop, prompt
    <3> QED BY <1>5, <3>1, <3>2, <3>3
  <2>3. asks' \in Seq(Asking)
    <3>1. asks \in Seq(Asking) /\ (asks' = asks \/ (c \in Asking /\ asks' = Append(asks, c)))
      BY <1>0, <2>2
    <3> QED BY <3>1
  <2>4. TypeOK'
    BY <1>0, <1>1, <1>3, <2>1, <2>2, <2>3, TypesNext
  <2> QED BY <2>1, <2>4
<1>6. ASSUME NEW w \in Workers, WorkerTurn(w) \/ WorkerFails(w)
      PROVE  Shaped'
  <2>1. Typed(pipes')
    BY <1>6, AnnouncePuts, FailPuts
  <2>2. /\ UNCHANGED <<stage, flags, loop, prompt, refused>>
        /\ phase' \in [Calls -> {"unsaid", "said", "runs", "asks", "freed", "refused", "back"}]
    BY <1>0, <1>6 DEF WorkerTurn, WorkerFails
  <2>3. TypeOK'
    BY <1>0, <1>1, <1>3, <2>1, <2>2, TypesNext DEF flags, loop, prompt
  <2> QED BY <2>1, <2>3
<1>7. ASSUME NEW s \in Sources, Take(s)
      PROVE  Shaped'
  <2> DEFINE e == Head(pipes[s])
  <2>1. Typed(pipes') /\ (e.kind \in {"start", "result"} => e.call \in Calls)
    BY <1>7, TakePipes
  <2>2. UNCHANGED <<stage, phase, cancel, armed, deny, asks, pending, refused>>
    BY <1>7 DEF Take, rig, flags
  <2>3. popup' \in Asking \cup {Hidden}
    BY <1>0, <1>7 DEF Take, PopupAfter
  <2>4. /\ core' \in Cores /\ LoopTyped'
        /\ end' \in {"running", "finished", "preempted", "denied", "failed", "cancelled", "aborted"}
    <3>1. CASE \E how \in {"preempted", "failed", "cancelled"} :
                  /\ End(how, open) /\ UNCHANGED <<hand, gate, open, action, done, shown>>
                  /\ core' \in {core, "check"}
      <4>1. rows' \in [kept : Seq(Calls), killed : [Calls -> Nat]]
        BY <1>0, <3>1, KilledTyped DEF End, LoopTyped
      <4> QED BY <1>0, <3>1, <4>1 DEF End, LoopTyped, Cores
    <3>2. CASE e.kind = "start" /\ Started(e.call)
      <4> DEFINE c == e.call
      <4>0. c \in Calls /\ Started(c)
        BY <2>1, <3>2
      <4> HIDE DEF e, c
      <4>1. /\ \A p \in Workers \cup {Hidden} : GateTyped(gate'[p])
            /\ gate' = [p \in Workers \cup {Hidden} |-> gate'[p]]
        BY <4>0, StartedGate
      <4>2. gate' \in [Workers \cup {Hidden} -> Gates]
        BY <4>1 DEF GateTyped
      <4>3. /\ open' = open \cup {c} /\ UNCHANGED <<rows, action, done, end, shown>>
            /\ core' = "started" /\ hand' = c
        BY <4>0 DEF Started
      <4> QED BY <1>0, <4>0, <4>1, <4>2, <4>3 DEF LoopTyped, Cores
    <3>3. CASE e.kind = "result" /\ Finished(e.call)
      <4> DEFINE c == e.call
      <4>0. c \in Calls /\ Finished(c)
        BY <2>1, <3>3
      <4> HIDE DEF e, c
      <4>1. CASE Leave(c) /\ hand' = c /\ UNCHANGED rows
        <5>1. core' = "settled" /\ UNCHANGED end
          BY <4>1 DEF Leave
        <5> QED BY <1>0, <1>16, <4>0, <4>1, <5>1 DEF Cores, LoopTyped
      <4>2. CASE /\ rows' = [rows EXCEPT !.kept = Append(@, c)] /\ hand' = c /\ core' = "written"
                 /\ UNCHANGED <<gate, open, action, done, end, shown>>
        <5> DEFINE r == [rows EXCEPT !.kept = Append(@, c)]
                   R == [kept : Seq(Calls), killed : [Calls -> Nat]]
        <5>1. rows \in R /\ rows.kept \in Seq(Calls)
          BY <1>0 DEF LoopTyped
        <5>2. Append(rows.kept, c) \in Seq(Calls)
          BY <4>0, <5>1
        <5>3. r \in R
          BY <5>1, <5>2
        <5>4. rows' = r
          BY <4>2
        <5> HIDE DEF r, R
        <5>5. rows' \in R
          BY <5>3, <5>4
        <5> QED BY <1>0, <4>0, <4>2, <5>5 DEF LoopTyped, Cores, R
      <4> QED BY <4>0, <4>1, <4>2 DEF Finished
    <3>4. CASE /\ UNCHANGED <<hand, gate, open, rows, end, shown>> /\ core' = "check"
               /\ action' \in {action, "text"} /\ done' \in {done, TRUE}
      BY <1>0, <3>4 DEF LoopTyped, Cores
    <3> QED BY <1>7, <3>1, <3>2, <3>3, <3>4 DEF Take
  <2>5. TypeOK'
    BY <1>0, <1>1, <2>1, <2>2, <2>3, <2>4, TypesNext
  <2> QED BY <2>1, <2>5
<1>8. ASSUME UNCHANGED <<pipes, stage, hand, gate, open, action, done, shown>>,
             phase' \in [Calls -> {"unsaid", "said", "runs", "asks", "freed", "refused", "back"}],
             cancel' \in BOOLEAN /\ armed' \in BOOLEAN /\ deny' \in BOOLEAN, core' \in Cores,
             rows' = rows \/ \E calls : rows' = [rows EXCEPT !.killed = Killed(calls)],
             end' \in {"running", "finished", "preempted", "denied", "failed", "cancelled", "aborted"},
             asks' \in Seq(Asking), pending' \subseteq Asking, popup' \in Asking \cup {Hidden},
             UNCHANGED refused
      PROVE  Shaped'
  <2>1. rows' \in [kept : Seq(Calls), killed : [Calls -> Nat]]
    BY <1>0, <1>8, KilledTyped DEF LoopTyped
  <2>2. LoopTyped'
    BY <1>0, <1>8, <2>1 DEF LoopTyped
  <2> QED BY <1>0, <1>8, <2>2, TypesNext DEF Typed
<1>9. CASE Check \/ Cut \/ CutEnd \/ Commit
  <2>1. /\ UNCHANGED <<pipes, stage, phase, hand, gate, open, action, done, shown, cancel, armed, asks, pending, refused>>
        /\ deny' \in BOOLEAN /\ core' \in {core, "poll", "cut"}
        /\ rows' = rows \/ \E calls : rows' = [rows EXCEPT !.killed = Killed(calls)]
        /\ end' \in {end, "preempted", "denied", "finished"} /\ popup' \in {popup, Hidden}
    BY <1>0, <1>9 DEF Check, Cut, CutEnd, Commit, rig, flags, prompt, End, PopupAfter
  <2> QED BY <1>0, <1>8, <2>1 DEF Cores
<1>18. CASE Tell
  <2>1. core \in {"started", "settled"} /\ hand \in Calls
    BY <1>18 DEF Tell, HandHeld, Handled
  <2>2. /\ UNCHANGED <<pipes, stage, phase, cancel, armed, deny, asks, pending, popup, refused,
                      gate, open, rows, done, end>>
        /\ core' = "check" /\ hand' = Hidden
    BY <1>18 DEF Tell, rig, flags, prompt
  <2>3. action' \in {"fresh", "text", "tools", "between"}
    BY <1>0, <1>18 DEF Tell, LoopTyped
  <2>4. shown' \in [Calls -> {"hidden", "waiting", "running", "finished"}]
    <3> DEFINE now == gate[Owner(hand)]
               V == {"hidden", "waiting", "running", "finished"}
    <3>1. shown \in [Calls -> V]
      BY <1>0 DEF LoopTyped
    <3>2. \A d \in Calls : Told(now, d) \in V
      BY <3>1 DEF Told
    <3>3. \/ shown' = [shown EXCEPT ![hand] = Told(now, hand)]
          \/ shown' = [d \in Calls |->
                   IF d = hand THEN "finished"
                   ELSE IF Owner(d) = Owner(hand) THEN Told(now, d) ELSE shown[d]]
      BY <1>18 DEF Tell
    <3> HIDE DEF now, V
    <3>4. "finished" \in V
      BY DEF V
    <3>5. shown' \in [Calls -> V]
      BY <2>1, <3>1, <3>2, <3>3, <3>4
    <3> QED BY <3>5 DEF V
  <2>5. LoopTyped'
    BY <1>0, <2>2, <2>3, <2>4 DEF LoopTyped
  <2>6. TypeOK'
    BY <1>0, <2>2, <2>5, TypesNext DEF Cores
  <2> QED BY <2>2, <2>6
<1>17. CASE Settle
  <2>1. Leave(hand) /\ hand \in Calls \cup {Hidden} /\ UNCHANGED <<rig, pipes, flags, prompt, refused, hand, rows>>
    BY <1>0, <1>17 DEF Settle, LoopTyped
  <2>2. core' = "settled" /\ UNCHANGED <<end, stage, phase, pipes, cancel, armed, deny, asks, pending, popup, refused>>
    BY <2>1 DEF Leave, rig, flags, prompt
  <2>3. hand \in Calls
    BY <1>17 DEF Settle, HandHeld, Handled
  <2>4. LoopTyped'
    BY <1>16, <2>1, <2>3
  <2>5. TypeOK'
    BY <1>0, <2>1, <2>2, <2>4, TypesNext DEF Cores
  <2> QED BY <2>2, <2>5
<1>10. CASE HearAsk
  <2>1. Head(asks) \in Asking /\ Tail(asks) \in Seq(Asking)
    BY <1>0, <1>10 DEF HearAsk
  <2> QED BY <1>0, <1>8, <1>10, <2>1 DEF HearAsk, rig, flags, loop
<1>11. CASE Answer
  BY <1>0, <1>8, <1>11 DEF Answer, flags, loop
<1>12. CASE Cancel
  <2>1. phase' \in [Calls -> {"unsaid", "said", "runs", "asks", "freed", "refused", "back"}]
    BY <1>0, <1>12 DEF Cancel
  <2> QED BY <1>0, <1>8, <1>12, <2>1 DEF Cancel, flags, loop
<1>13. CASE Steer
  BY <1>0, <1>8, <1>13 DEF Steer, rig, loop, prompt
<1>14. CASE Abort
  BY <1>0, <1>8, <1>14 DEF Abort, rig, flags, End, PopupAfter
<1>15. CASE UNCHANGED vars
  BY <1>0, <1>8, <1>15 DEF vars, rig, flags, loop, prompt
<1> QED BY <1>4, <1>5, <1>6, <1>7, <1>9, <1>10, <1>11, <1>12, <1>13, <1>14, <1>15, <1>17, <1>18
        DEF Next, Rig, Stream

LEMMA HandStep ==
    ASSUME Types, [Next]_vars
    PROVE  HandHeld'
<1>1. ASSUME NEW s \in Sources, Take(s) PROVE HandHeld'
  <2> DEFINE e == Head(pipes[s])
  <2>1. e.kind \in {"start", "result"} => e.call \in Calls
    BY <1>1, TakePipes
  <2>2. core = "poll"
    BY <1>1 DEF Take, Polled
  <2>3. \/ core' \in {"poll", "check"}
        \/ e.kind = "start" /\ Started(e.call)
        \/ e.kind = "result" /\ Finished(e.call)
    BY <1>1, <2>2 DEF Take
  <2> HIDE DEF e
  <2> QED BY <2>1, <2>3 DEF Started, Finished, HandHeld, Handled
<1>2. CASE Rig
  <2>1. UNCHANGED loop
    BY <1>2 DEF Rig, Request, Halt, Dispatch, Ask, Return, WorkerTurn, WorkerFails
  <2> QED BY <2>1 DEF loop, Types, HandHeld, Handled
<1>3. CASE Settle
  BY <1>3 DEF Settle, Types, HandHeld, Handled
<1>4. CASE Tell \/ Check \/ CutEnd
  <2>1. core' \in {"check", "cut", "poll"}
    BY <1>4 DEF Tell, Check, CutEnd
  <2> QED BY <2>1 DEF HandHeld, Handled
<1>5. CASE Cut \/ Commit \/ Abort
  BY <1>5 DEF Cut, Commit, Abort, Types, HandHeld, Handled
<1>6. CASE HearAsk \/ Answer \/ Cancel \/ Steer \/ UNCHANGED vars
  <2>1. UNCHANGED loop
    BY <1>6 DEF HearAsk, Answer, Cancel, Steer, vars
  <2> QED BY <2>1 DEF loop, Types, HandHeld, Handled
<1> QED BY <1>1, <1>2, <1>3, <1>4, <1>5, <1>6 DEF Next, Stream

LEMMA TypesStep ==
    ASSUME Types, [Next]_vars
    PROVE  Types'
BY ShapedStep, HandStep DEF Types

\* Every variable keeps its type; the gate gives no batch more slots than it has.
THEOREM TypeCorrect == Spec => []TypeOK
<1>1. Types => TypeOK
  BY DEF Types
<1> QED BY <1>1, TypesInit, TypesStep, PTL DEF Spec

(***************************************************************************)
(* Life: rig                                                               *)
(***************************************************************************)
Phases == {"unsaid", "said", "runs", "asks", "freed", "refused", "back"}

\* What the screen says, once it has heard.
LEMMA ViewIs ==
    ASSUME Types
    PROVE  /\ View \in [Calls -> {"hidden", "waiting", "running", "finished"}]
           /\ core = "started" =>
                 /\ View[hand] = Told(gate[Owner(hand)], hand)
                 /\ \A d \in Calls \ {hand} : View[d] = shown[d]
           /\ core = "settled" =>
                 /\ View[hand] = "finished"
                 /\ \A d \in Calls \ {hand} :
                       View[d] = IF Owner(d) = Owner(hand) THEN Told(gate[Owner(hand)], d) ELSE shown[d]
           /\ core \notin {"started", "settled"} => View = shown
<1> DEFINE V == {"hidden", "waiting", "running", "finished"}
           now == gate[Owner(hand)]
<1>1. shown \in [Calls -> V] /\ (core \in {"started", "settled"} => hand \in Calls)
  BY DEF Types, TypeOK, HandHeld, Handled
<1>2. \A d \in Calls : Told(now, d) \in V
  BY <1>1 DEF Told
<1>3. "finished" \in V
  OBVIOUS
<1>4. View = IF core = "started" THEN [shown EXCEPT ![hand] = Told(now, hand)]
             ELSE IF core = "settled" THEN [d \in Calls |->
                 IF d = hand THEN "finished"
                 ELSE IF Owner(d) = Owner(hand) THEN Told(now, d) ELSE shown[d]]
             ELSE shown
  BY DEF View
<1> HIDE DEF V, now
<1>5. View \in [Calls -> V]
  BY <1>1, <1>2, <1>3, <1>4
<1>6. /\ core = "started" => View[hand] = Told(now, hand) /\ \A d \in Calls \ {hand} : View[d] = shown[d]
      /\ core = "settled" =>
            /\ View[hand] = "finished"
            /\ \A d \in Calls \ {hand} :
                  View[d] = IF Owner(d) = Owner(hand) THEN Told(now, d) ELSE shown[d]
      /\ core \notin {"started", "settled"} => View = shown
  BY <1>1, <1>4
<1> QED BY <1>5, <1>6 DEF V, now

LEMMA Shapes ==
    ASSUME Types
    PROVE  /\ phase \in [Calls -> Phases] /\ Typed(pipes)
           /\ View \in [Calls -> {"hidden", "waiting", "running", "finished"}]
           /\ asks \in Seq(Asking) /\ pending \subseteq Asking /\ open \subseteq Calls
           /\ rows.kept \in Seq(Calls) /\ rows \in [kept : Seq(Calls), killed : [Calls -> Nat]]
           /\ rows.killed \in [Calls -> Nat]
           /\ "main" \in Sources /\ "early" \in Sources /\ "activity" \in Sources
           /\ pipes["main"] \in Seq(Items) /\ pipes["activity"] \in Seq(Items)
<1>1. Typed(pipes) /\ TypeOK
  BY DEF Types
<1>2. rows \in [kept : Seq(Calls), killed : [Calls -> Nat]]
  BY <1>1 DEF TypeOK
<1> QED BY <1>1, <1>2, ViewIs, TypesSplit DEF LoopTyped, Phases, Sources

\* A step beside the stream loop.
LEMMA LoopStays ==
    ASSUME UNCHANGED loop
    PROVE  UNCHANGED <<core, hand, gate, open, View, rows, action, done, end, shown>>
BY DEF loop, View, Told

\* What a request, or the flag, leaves on the main part.
LEMMA Requests ==
    ASSUME Types, Once(pipes), Request \/ Halt
    PROVE  /\ Failing' <=> Failing
           /\ Once(pipes') /\ Typed(pipes')
           /\ \A c \in Calls : Due(pipes', "result", c) <=> Due(pipes, "result", c)
           /\ \A c \in Calls : Due(pipes', "start", c) => Due(pipes, "start", c) \/ (c \in Manager /\ stage' = "tools")
           /\ \/ /\ stage' = "over" /\ phase' = phase
                 /\ \A i \in DOMAIN pipes'["main"] : pipes'["main"][i].kind # "start"
                 /\ (\E i \in DOMAIN pipes'["main"] : pipes'["main"][i].kind = "done") =>
                       \A c \in Manager : phase[c] = "back"
              \/ /\ stage = "request" /\ stage' = "tools"
                 /\ phase' = [c \in Calls |-> IF c \in Manager THEN "said" ELSE phase[c]]
                 /\ \A i \in DOMAIN pipes'["main"] : pipes'["main"][i].kind = "start"
<1> DEFINE m == pipes'["main"]
           a == pipes'["activity"]
<1>1. /\ Typed(pipes') /\ Typed(pipes) /\ pipes'["early"] = pipes["early"] /\ a = pipes["activity"]
      /\ pipes \in [Sources -> Seq(Items)] /\ "main" \in Sources /\ Sources = {"main", "early", "activity"}
  BY RequestTyped DEF Types, Typed, Sources
<1>2. \/ stage' = "over" /\ phase' = phase /\ m = <<Item("stop", Hidden)>>
      \/ /\ stage = "request" /\ stage' = "tools" /\ m = [i \in DOMAIN Batch |-> Item("start", Batch[i])]
         /\ phase' = [c \in Calls |-> IF c \in Manager THEN "said" ELSE phase[c]]
      \/ /\ stage' = "over" /\ phase' = phase /\ \A c \in Manager : phase[c] = "back"
         /\ \E last \in {"done", "fail"} : m = <<Item("text", Hidden), Item(last, Hidden)>>
  BY <1>1 DEF Request, Halt
<1>3. \/ /\ stage' = "over" /\ phase' = phase
         /\ \A i \in DOMAIN m : m[i].kind \notin {"start", "result"}
         /\ (\E i \in DOMAIN m : m[i].kind = "done") => \A c \in Manager : phase[c] = "back"
      \/ /\ stage = "request" /\ stage' = "tools"
         /\ phase' = [c \in Calls |-> IF c \in Manager THEN "said" ELSE phase[c]]
         /\ \A i \in DOMAIN m : m[i].kind = "start"
         /\ \A i, j \in DOMAIN m : m[i] = m[j] => i = j
  <2>1. CASE stage' = "over" /\ phase' = phase /\ m = <<Item("stop", Hidden)>>
    <3>1. DOMAIN m = {1} /\ m[1].kind = "stop"
      BY <2>1 DEF Item
    <3> HIDE DEF m
    <3> QED BY <2>1, <3>1
  <2>2. CASE /\ stage = "request" /\ stage' = "tools" /\ m = [i \in DOMAIN Batch |-> Item("start", Batch[i])]
             /\ phase' = [c \in Calls |-> IF c \in Manager THEN "said" ELSE phase[c]]
    <3>1. DOMAIN m = DOMAIN Batch /\ \A i \in DOMAIN m : m[i] = Item("start", Batch[i]) /\ m[i].kind = "start"
      BY <2>2 DEF Item
    <3> HIDE DEF m
    <3>2. ASSUME NEW i \in DOMAIN m, NEW j \in DOMAIN m, m[i] = m[j] PROVE i = j
      <4>1. Batch[i] = Batch[j]
        BY <3>1, <3>2, ItemIs
      <4> QED BY <3>1, <4>1, ToolBatchAssumption DEF IsInjective
    <3> QED BY <2>2, <3>1, <3>2
  <2>3. CASE /\ stage' = "over" /\ phase' = phase /\ \A c \in Manager : phase[c] = "back"
             /\ \E last \in {"done", "fail"} : m = <<Item("text", Hidden), Item(last, Hidden)>>
    <3>1. PICK last \in {"done", "fail"} : m = <<Item("text", Hidden), Item(last, Hidden)>>
      BY <2>3
    <3>2. DOMAIN m = {1, 2} /\ m[1].kind = "text" /\ m[2].kind = last
      BY <3>1 DEF Item
    <3> HIDE DEF m
    <3> QED BY <2>3, <3>2
  <2> QED BY <1>2, <2>1, <2>2, <2>3
<1>4. Failing' <=> Failing
  BY <1>1 DEF Failing
<1> HIDE DEF a
<1>5. ASSUME NEW c \in Calls, NEW k \in {"start", "result"}
      PROVE  /\ Due(pipes', "result", c) <=> Due(pipes, "result", c)
             /\ Due(pipes', "start", c) => Due(pipes, "start", c) \/ (c \in Manager /\ stage' = "tools")
  <2>1. c \in Manager \/ c \in Inner
    BY Owners
  <2>2. /\ \A l : Due(pipes', l, c) <=> \E s \in Sources : Item(l, c) \in ToSet(pipes'[s])
        /\ c \in Manager /\ Due(pipes', "start", c) => Item("start", c) \in ToSet(m)
        /\ c \in Manager /\ Due(pipes', "result", c) => Item("result", c) \in ToSet(pipes'["early"])
        /\ c \in Inner /\ Due(pipes', "start", c) => Item("start", c) \in ToSet(a)
        /\ c \in Inner /\ Due(pipes', "result", c) => Item("result", c) \in ToSet(a)
    BY <1>1, DueWhere DEF a
  <2>3. /\ \A l : Due(pipes, l, c) <=> \E s \in Sources : Item(l, c) \in ToSet(pipes[s])
        /\ c \in Manager /\ Due(pipes, "result", c) => Item("result", c) \in ToSet(pipes["early"])
        /\ c \in Inner /\ Due(pipes, "start", c) => Item("start", c) \in ToSet(pipes["activity"])
        /\ c \in Inner /\ Due(pipes, "result", c) => Item("result", c) \in ToSet(pipes["activity"])
    BY <1>1, DueWhere
  <2>4. Item("start", c) \in ToSet(m) => stage' = "tools"
    BY <1>3 DEF ToSet, Item
  <2> HIDE DEF m
  <2> QED BY <1>1, <2>1, <2>2, <2>3, <2>4 DEF a
<1>6. Once(pipes')
  <2>1. ASSUME NEW s \in Sources, NEW i \in DOMAIN pipes'[s], NEW j \in DOMAIN pipes'[s],
               pipes'[s][i] = pipes'[s][j], pipes'[s][i].kind \in {"start", "result"}
        PROVE  i = j
    <3>1. CASE s = "main"
      BY <1>3, <2>1, <3>1
    <3>2. CASE s # "main"
      <4>1. pipes'[s] = pipes[s]
        BY <1>1, <3>2 DEF a
      <4> QED BY <2>1, <4>1 DEF Once
    <3> QED BY <3>1, <3>2
  <2> QED BY <1>1, <2>1 DEF Once, a
<1> QED BY <1>1, <1>3, <1>4, <1>5, <1>6

\* What a step beside the stream loop leaves alone.
LEMMA LoopStill ==
    ASSUME RowsInv, GateInv, HandInv, UNCHANGED loop, core = "poll" \/ UNCHANGED pipes
    PROVE  RowsInv' /\ GateInv' /\ HandInv'
<1>1. UNCHANGED <<core, hand, gate, open, View, rows, action, done, end, shown>>
  BY LoopStays
<1>2. RowsInv' /\ GateInv'
  BY <1>1 DEF RowsInv, KeptInv, KilledInv, GateInv
<1>3. HandInv'
  BY <1>1 DEF HandInv, Asked, Heard, Due
<1> QED BY <1>2, <1>3

LEMMA LifeRequest ==
    ASSUME Life, Request \/ Halt
    PROVE  Track'
<1>1. /\ Types /\ AskInv /\ WorkerInv /\ Once(pipes) /\ CallInv /\ DoneInv /\ RowsInv /\ GateInv /\ HandInv
  BY DEF Life, Track
<1>2. UNCHANGED <<loop, prompt>> /\ core = "poll"
  BY DEF Request, Halt, Polled
<1>3. UNCHANGED <<open, View, done, end, asks, pending>> /\ core = "poll" /\ core' = "poll"
  BY <1>2, LoopStays DEF prompt
<1>4. /\ Failing' <=> Failing
      /\ Once(pipes')
      /\ \A c \in Calls : Due(pipes', "result", c) <=> Due(pipes, "result", c)
      /\ \A c \in Calls : Due(pipes', "start", c) => Due(pipes, "start", c) \/ (c \in Manager /\ stage' = "tools")
  BY <1>1, Requests
<1>5. \/ /\ stage' = "over" /\ phase' = phase
         /\ (\E i \in DOMAIN pipes'["main"] : pipes'["main"][i].kind = "done") =>
                \A c \in Manager : phase[c] = "back"
      \/ /\ stage = "request" /\ stage' = "tools"
         /\ phase' = [c \in Calls |-> IF c \in Manager THEN "said" ELSE phase[c]]
         /\ \A i \in DOMAIN pipes'["main"] : pipes'["main"][i].kind = "start"
  BY <1>1, Requests
<1>6. RowsInv' /\ GateInv' /\ HandInv'
  BY <1>1, <1>2, LoopStill
<1>7. phase \in [Calls -> Phases] /\ pending \cup ToSet(asks) \subseteq Calls
  <2>1. asks \in Seq(Asking) /\ pending \subseteq Asking /\ Asking \subseteq Calls
    BY <1>1, Shapes, ToolBatchAssumption
  <2>2. ToSet(asks) \subseteq Asking
    BY <2>1 DEF ToSet
  <2> QED BY <1>1, <2>1, <2>2, Shapes
<1>8. CASE stage' = "over" /\ phase' = phase
  <2>1. AskInv' /\ WorkerInv' /\ CallInv'
    BY <1>1, <1>3, <1>4, <1>8 DEF AskInv, WorkerInv, CallInv, OnWay, InHand
  <2>2. DoneInv'
    BY <1>1, <1>3, <1>5, <1>8 DEF DoneInv
  <2> QED BY <1>4, <1>6, <2>1, <2>2 DEF Track
<1>9. CASE /\ stage = "request" /\ stage' = "tools"
           /\ phase' = [c \in Calls |-> IF c \in Manager THEN "said" ELSE phase[c]]
           /\ \A i \in DOMAIN pipes'["main"] : pipes'["main"][i].kind = "start"
  <2>1. \A c \in Manager : c \in Calls /\ phase[c] = "unsaid" /\ phase'[c] = "said"
    BY <1>1, <1>7, <1>9, Owners DEF DoneInv
  <2>2. \A x \in Inner : x \in Calls /\ phase'[x] = phase[x] /\ Owner(x) \in Manager /\ phase[x] = "unsaid"
    BY <1>1, <1>7, <1>9, <2>1, Owners DEF WorkerInv
  <2>3. \A c \in Calls : c \in Manager \/ c \in Inner
    BY Owners
  <2>4. AskInv'
    BY <1>1, <1>3, <1>7, <2>1, <2>2, <2>3 DEF AskInv
  <2>5. WorkerInv'
    BY <1>1, <2>1, <2>2 DEF WorkerInv, InHand
  <2>6. CallInv'
    BY <1>1, <1>3, <1>4, <2>1, <2>2, <2>3 DEF CallInv, OnWay
  <2>7. DoneInv'
    BY <1>1, <1>3, <1>9 DEF DoneInv
  <2> QED BY <1>4, <1>6, <2>4, <2>5, <2>6, <2>7 DEF Track
<1> QED BY <1>5, <1>8, <1>9

\* What a call waits in: the channel, or the asks heard.
LEMMA AskPlaces ==
    ASSUME Types
    PROVE  /\ Asking \subseteq Calls /\ Asking \cap Workers = {}
           /\ ToSet(asks) \subseteq Asking /\ pending \cup ToSet(asks) \subseteq Calls
<1>1. asks \in Seq(Asking) /\ pending \subseteq Asking
  BY Shapes
<1>2. ToSet(asks) \subseteq Asking
  BY <1>1 DEF ToSet
<1> QED BY <1>1, <1>2, ToolBatchAssumption

\* Calls in hand that stay in hand: nothing but the asks can tell.
LEMMA HandsMove ==
    ASSUME Types, WorkerInv, CallInv, DoneInv,
           phase' \in [Calls -> Phases], UNCHANGED <<pipes, stage, open, View, done, end, core, hand>>,
           \A c \in Calls : phase'[c] # phase[c] =>
               InHand(c) /\ phase'[c] \in {"asks", "freed", "refused"} /\ c \notin Workers
    PROVE  WorkerInv' /\ CallInv' /\ DoneInv'
<1>1. Manager \subseteq Calls /\ \A x \in Inner : x \in Calls /\ Owner(x) \in Workers /\ Owner(x) \in Calls
  BY Owners
<1>2. \A c \in Workers : c \in Calls /\ phase'[c] = phase[c]
  BY Owners
<1>3. \A c \in Calls : phase'[c] = phase[c] \/
          (/\ phase[c] \in {"runs", "asks", "freed", "refused"} /\ phase'[c] \in {"asks", "freed", "refused"})
  BY DEF InHand
<1>4. Failing' <=> Failing
  BY DEF Failing
<1>5. WorkerInv'
  BY <1>1, <1>2, <1>3, <1>4 DEF WorkerInv, InHand
<1>6. \A k, c : Due(pipes', k, c) <=> Due(pipes, k, c)
  BY DEF Due
<1>7. CallInv'
  BY <1>1, <1>3, <1>6 DEF CallInv, OnWay
<1>8. DoneInv'
  BY <1>1, <1>3 DEF DoneInv
<1> QED BY <1>5, <1>7, <1>8

LEMMA LifeDispatch ==
    ASSUME Life, NEW c \in Calls, Dispatch(c)
    PROVE  Track'
<1>1. /\ Types /\ AskInv /\ WorkerInv /\ Once(pipes) /\ CallInv /\ DoneInv /\ RowsInv /\ GateInv /\ HandInv
  BY DEF Life, Track
<1>2. /\ UNCHANGED <<stage, loop, prompt>> /\ phase[c] = "said" /\ core = "poll"
      /\ IF c \in Manager THEN pipes["main"] = <<>> ELSE phase[Owner(c)] = "runs"
      /\ \/ phase' = [phase EXCEPT ![c] = "back"] /\ c \in Manager /\ Report("result", c)
         \/ phase' = [phase EXCEPT ![c] = "runs"] /\ pipes' = pipes
  BY DEF Dispatch, Turn, Polled
<1>3. UNCHANGED <<open, View, done, end, asks, pending>> /\ core = "poll" /\ core' = "poll"
  BY <1>2, LoopStays DEF prompt
<1>4. phase \in [Calls -> Phases] /\ Typed(pipes)
  BY <1>1, Shapes
<1>5. RowsInv' /\ GateInv' /\ HandInv'
  BY <1>1, <1>2, LoopStill
<1>6. \E v \in {"back", "runs"} : phase'[c] = v /\ \A d \in Calls \ {c} : phase'[d] = phase[d]
  BY <1>2, <1>4
<1>7. c \in Manager => ~Due(pipes, "start", c)
  <2>1. c \in Manager /\ Due(pipes, "start", c) => Item("start", c) \in ToSet(pipes["main"])
    BY <1>4, DueWhere
  <2> QED BY <1>2, <2>1 DEF ToSet
<1>8. /\ pipes'["main"] = pipes["main"] /\ Once(pipes')
      /\ Failing => Failing'
      /\ \A k, d : Due(pipes', k, d) => Due(pipes, k, d) \/ (k = "result" /\ d = c /\ phase'[c] = "back")
      /\ \A k, d : Due(pipes, k, d) => Due(pipes', k, d)
      /\ phase'[c] = "back" => Due(pipes', "result", c) /\ c \in Manager
  <2>1. CASE phase' = [phase EXCEPT ![c] = "back"] /\ c \in Manager /\ Report("result", c)
    <3>1. phase'[c] = "back"
      BY <1>4, <2>1
    <3>2. ~Due(pipes, "result", c)
      BY <1>1, <1>2 DEF CallInv, OnWay
    <3>3. /\ pipes'["main"] = pipes["main"] /\ Once(pipes')
          /\ \A k, d : Due(pipes', k, d) <=> Due(pipes, k, d) \/ (k = "result" /\ d = c)
      BY <1>1, <2>1, <3>2, ReportPuts
    <3>4. pipes'["activity"] = pipes["activity"]
      BY <2>1, <1>4 DEF Report, Typed
    <3> QED BY <2>1, <3>1, <3>3, <3>4 DEF Failing
  <2>2. CASE phase' = [phase EXCEPT ![c] = "runs"] /\ pipes' = pipes
    <3>1. phase'[c] = "runs"
      BY <1>4, <2>2
    <3> QED BY <1>1, <2>2, <3>1 DEF Failing
  <2> QED BY <1>2, <2>1, <2>2
<1>9. AskInv'
  BY <1>1, <1>2, <1>3, <1>6, AskPlaces DEF AskInv
<1>10. WorkerInv'
  <2>1. \A x \in Inner : x \in Calls /\ Owner(x) \in Calls /\ Owner(x) # x /\ x \notin Manager /\ Owner(x) \in Manager
    BY Owners
  <2> SUFFICES ASSUME NEW x \in Inner
               PROVE  /\ InHand(x)' => phase'[Owner(x)] = "runs"
                      /\ phase'[x] # "unsaid" => phase'[Owner(x)] \in {"runs", "back"}
                      /\ phase'[Owner(x)] = "back" /\ end' = "running" => phase'[x] \in {"unsaid", "back"} \/ Failing'
    BY DEF WorkerInv
  <2>2. /\ InHand(x) => phase[Owner(x)] = "runs"
        /\ phase[x] # "unsaid" => phase[Owner(x)] \in {"runs", "back"}
        /\ phase[Owner(x)] = "back" /\ end = "running" => phase[x] \in {"unsaid", "back"} \/ Failing
    BY <1>1 DEF WorkerInv
  <2>3. CASE x = c
    BY <1>2, <1>6, <1>8, <2>1, <2>3
  <2>4. CASE Owner(x) = c
    BY <1>2, <1>6, <2>1, <2>2, <2>4 DEF InHand
  <2>5. CASE x # c /\ Owner(x) # c
    BY <1>3, <1>6, <1>8, <2>1, <2>2, <2>5 DEF InHand
  <2> QED BY <2>3, <2>4, <2>5
<1>11. CallInv'
  BY <1>1, <1>2, <1>3, <1>6, <1>7, <1>8 DEF CallInv, OnWay
<1>12. DoneInv'
  BY <1>1, <1>2, <1>3, <1>6, <1>8, Owners DEF DoneInv
<1> QED BY <1>5, <1>8, <1>9, <1>10, <1>11, <1>12 DEF Track

LEMMA LifeAsk ==
    ASSUME Life, NEW c \in Calls, Ask(c)
    PROVE  Track'
<1>1. /\ Types /\ AskInv /\ WorkerInv /\ Once(pipes) /\ CallInv /\ DoneInv /\ RowsInv /\ GateInv /\ HandInv
  BY DEF Life, Track
<1>2. /\ UNCHANGED <<stage, pipes, loop, pending>> /\ c \in Asking /\ phase[c] = "runs"
      /\ phase' = [phase EXCEPT ![c] = "asks"] /\ asks' = Append(asks, c) /\ core = "poll"
  BY DEF Ask, Polled
<1>3. UNCHANGED <<open, View, done, end, core, hand>>
  BY <1>2, LoopStays
<1>4. phase \in [Calls -> Phases] /\ asks \in Seq(Asking)
  BY <1>1, Shapes
<1>5. phase' \in [Calls -> Phases] /\ phase'[c] = "asks" /\ \A d \in Calls \ {c} : phase'[d] = phase[d]
  BY <1>2, <1>4 DEF Phases
<1>6. WorkerInv' /\ CallInv' /\ DoneInv'
  BY <1>1, <1>2, <1>3, <1>5, HandsMove, AskPlaces DEF InHand
<1>7. AskInv'
  <2>1. c \notin pending \cup ToSet(asks)
    BY <1>1, <1>2 DEF AskInv
  <2>2. ToSet(asks') = ToSet(asks) \cup {c} /\ IsInjective(asks')
    BY <1>1, <1>2, <1>4, <2>1, Joins, JoinsOnce DEF AskInv
  <2> QED BY <1>1, <1>2, <1>5, <2>1, <2>2, AskPlaces DEF AskInv
<1>8. RowsInv' /\ GateInv' /\ HandInv'
  BY <1>1, <1>2, LoopStill
<1> QED BY <1>1, <1>2, <1>6, <1>7, <1>8 DEF Track

LEMMA LifeReturn ==
    ASSUME Life, NEW c \in Calls, Return(c)
    PROVE  Track'
<1>1. /\ Types /\ AskInv /\ WorkerInv /\ Once(pipes) /\ CallInv /\ DoneInv /\ RowsInv /\ GateInv /\ HandInv
  BY DEF Life, Track
<1>2. /\ UNCHANGED <<stage, loop, prompt>>
      /\ \/ phase[c] \in {"freed", "refused"}
         \/ /\ phase[c] = "runs" /\ c \notin Asking
            /\ c \in Workers => \A i \in DOMAIN Inside[c] : phase[Inside[c][i]] = "back"
      /\ phase' = [phase EXCEPT ![c] = "back"] /\ Report("result", c) /\ core = "poll"
  BY DEF Return, Polled
<1>3. UNCHANGED <<open, View, done, end, asks, pending>> /\ core = "poll" /\ core' = "poll"
  BY <1>2, LoopStays DEF prompt
<1>4. phase \in [Calls -> Phases] /\ Typed(pipes)
  BY <1>1, Shapes
<1>5. phase'[c] = "back" /\ \A d \in Calls \ {c} : phase'[d] = phase[d]
  BY <1>2, <1>4
<1>6. ~Due(pipes, "result", c)
  BY <1>1, <1>2 DEF CallInv, OnWay
<1>7. /\ pipes'["main"] = pipes["main"] /\ Once(pipes')
      /\ \A k, d : Due(pipes', k, d) <=> Due(pipes, k, d) \/ (k = "result" /\ d = c)
      /\ \A t \in Sources : ToSet(pipes[t]) \subseteq ToSet(pipes'[t])
  BY <1>1, <1>2, <1>6, ReportPuts
<1>8. Failing => Failing'
  BY <1>7 DEF Failing, ToSet, Sources
<1>9. AskInv'
  BY <1>1, <1>2, <1>3, <1>5, AskPlaces DEF AskInv
<1>10. WorkerInv'
  <2>1. \A x \in Inner : /\ x \in Calls /\ Owner(x) \in Calls /\ Owner(x) # x
                         /\ x \notin Manager /\ Owner(x) \in Manager /\ Owner(x) \in Workers
                         /\ \E i \in DOMAIN Inside[Owner(x)] : Inside[Owner(x)][i] = x
    BY Owners
  <2> SUFFICES ASSUME NEW x \in Inner
               PROVE  /\ InHand(x)' => phase'[Owner(x)] = "runs"
                      /\ phase'[x] # "unsaid" => phase'[Owner(x)] \in {"runs", "back"}
                      /\ phase'[Owner(x)] = "back" /\ end' = "running" => phase'[x] \in {"unsaid", "back"} \/ Failing'
    BY DEF WorkerInv
  <2>2. /\ InHand(x) => phase[Owner(x)] = "runs"
        /\ phase[x] # "unsaid" => phase[Owner(x)] \in {"runs", "back"}
        /\ phase[Owner(x)] = "back" /\ end = "running" => phase[x] \in {"unsaid", "back"} \/ Failing
    BY <1>1 DEF WorkerInv
  <2>3. CASE x = c
    BY <1>2, <1>5, <2>1, <2>2, <2>3 DEF InHand
  <2>4. CASE Owner(x) = c
    <3>1. phase[c] = "runs" \/ c \in Asking
      BY <1>1, <1>2 DEF AskInv
    <3>2. phase[x] = "back"
      BY <1>1, <1>2, <2>1, <2>4, <3>1, AskPlaces DEF AskInv
    <3> QED BY <1>5, <2>1, <2>4, <3>2 DEF InHand
  <2>5. CASE x # c /\ Owner(x) # c
    BY <1>3, <1>5, <1>8, <2>1, <2>2, <2>5 DEF InHand
  <2> QED BY <2>3, <2>4, <2>5
<1>11. CallInv'
  BY <1>1, <1>2, <1>3, <1>5, <1>7 DEF CallInv, OnWay
<1>12. DoneInv'
  BY <1>1, <1>2, <1>3, <1>5, <1>7, Owners DEF DoneInv
<1>13. RowsInv' /\ GateInv' /\ HandInv'
  BY <1>1, <1>2, LoopStill
<1> QED BY <1>7, <1>9, <1>10, <1>11, <1>12, <1>13 DEF Track

LEMMA LifeWorkerTurn ==
    ASSUME Life, NEW w \in Workers, WorkerTurn(w)
    PROVE  Track'
<1>1. /\ Types /\ AskInv /\ WorkerInv /\ Once(pipes) /\ CallInv /\ DoneInv /\ RowsInv /\ GateInv /\ HandInv
  BY DEF Life, Track
<1>2. /\ UNCHANGED <<stage, loop, prompt>> /\ phase[w] = "runs"
      /\ \A i \in DOMAIN Inside[w] : phase[Inside[w][i]] = "unsaid"
      /\ phase' = [c \in Calls |-> IF Owner(c) = w THEN "said" ELSE phase[c]] /\ core = "poll"
  BY DEF WorkerTurn, Polled
<1>3. UNCHANGED <<open, View, done, end, asks, pending>> /\ core = "poll" /\ core' = "poll"
  BY <1>2, LoopStays DEF prompt
<1>4. /\ \A c \in Manager : c \in Calls /\ Owner(c) # w
      /\ \A x \in Inner : x \in Calls /\ Owner(x) \in Manager /\ x \notin Manager
      /\ \A c \in Calls : c \in Manager \/ c \in Inner
      /\ w \in Manager
  BY Owners
<1>5. \A c \in Calls : Owner(c) = w => phase[c] = "unsaid" /\ phase'[c] = "said"
  <2>1. \A c \in Calls : Owner(c) = w => \E i \in DOMAIN Inside[w] : Inside[w][i] = c
    BY <1>4, Owners
  <2> QED BY <1>2, <2>1
<1>6. \A c \in Calls : Owner(c) # w => phase'[c] = phase[c]
  BY <1>2
<1>7. \A c \in Calls : Owner(c) = w => ~Due(pipes, "start", c) /\ ~Due(pipes, "result", c)
  BY <1>1, <1>5 DEF CallInv, OnWay
<1>8. /\ pipes'["main"] = pipes["main"] /\ Once(pipes')
      /\ \A d \in Calls : /\ Due(pipes', "result", d) <=> Due(pipes, "result", d)
                          /\ Due(pipes', "start", d) <=> Due(pipes, "start", d) \/ Owner(d) = w
      /\ \A t \in Sources : ToSet(pipes[t]) \subseteq ToSet(pipes'[t])
  BY <1>1, <1>7, AnnouncePuts
<1>9. Failing => Failing'
  BY <1>8 DEF Failing, ToSet, Sources
<1>10. AskInv'
  BY <1>1, <1>3, <1>5, <1>6, AskPlaces DEF AskInv
<1>11. WorkerInv'
  BY <1>1, <1>2, <1>3, <1>4, <1>5, <1>6, <1>9 DEF WorkerInv, InHand
<1>12. CallInv'
  BY <1>1, <1>3, <1>4, <1>5, <1>6, <1>8 DEF CallInv, OnWay
<1>13. DoneInv'
  BY <1>1, <1>2, <1>3, <1>4, <1>6, <1>8 DEF DoneInv
<1>14. RowsInv' /\ GateInv' /\ HandInv'
  BY <1>1, <1>2, LoopStill
<1> QED BY <1>8, <1>10, <1>11, <1>12, <1>13, <1>14 DEF Track

LEMMA LifeWorkerFails ==
    ASSUME Life, NEW w \in Workers, WorkerFails(w)
    PROVE  Track'
<1>1. /\ Types /\ AskInv /\ WorkerInv /\ Once(pipes) /\ CallInv /\ DoneInv /\ RowsInv /\ GateInv /\ HandInv
  BY DEF Life, Track
<1>2. /\ UNCHANGED <<stage, loop, prompt>> /\ phase[w] = "runs"
      /\ \A i \in DOMAIN Inside[w] : ~InHand(Inside[w][i])
      /\ phase' = [phase EXCEPT ![w] = "back"] /\ core = "poll"
  BY DEF WorkerFails, Polled
<1>3. UNCHANGED <<open, View, done, end, asks, pending>> /\ core = "poll" /\ core' = "poll"
  BY <1>2, LoopStays DEF prompt
<1>4. phase \in [Calls -> Phases] /\ w \in Calls /\ w \in Manager
  BY <1>1, Shapes, Owners
<1>5. phase'[w] = "back" /\ \A d \in Calls \ {w} : phase'[d] = phase[d]
  BY <1>2, <1>4
<1>6. ~Due(pipes, "result", w)
  BY <1>1, <1>2, <1>4 DEF CallInv, OnWay
<1>7. /\ pipes'["main"] = pipes["main"] /\ Once(pipes') /\ Failing'
      /\ \A k, d : d \in Calls => (Due(pipes', k, d) <=> Due(pipes, k, d) \/ (k = "result" /\ d = w))
  BY <1>1, <1>6, FailPuts
<1>8. AskInv'
  BY <1>1, <1>2, <1>3, <1>4, <1>5, AskPlaces DEF AskInv
<1>9. WorkerInv'
  <2> SUFFICES ASSUME NEW x \in Inner
               PROVE  /\ InHand(x)' => phase'[Owner(x)] = "runs"
                      /\ phase'[x] # "unsaid" => phase'[Owner(x)] \in {"runs", "back"}
    BY <1>7 DEF WorkerInv
  <2>1. x \in Calls /\ x # w /\ Owner(x) \in Calls /\ \E i \in DOMAIN Inside[Owner(x)] : Inside[Owner(x)][i] = x
    BY <1>4, Owners
  <2>2. Owner(x) = w => ~InHand(x)
    BY <1>2, <2>1
  <2> QED BY <1>1, <1>5, <2>1, <2>2 DEF WorkerInv, InHand
<1>10. CallInv'
  BY <1>1, <1>2, <1>3, <1>4, <1>5, <1>7 DEF CallInv, OnWay
<1>11. DoneInv'
  BY <1>1, <1>2, <1>3, <1>4, <1>5, <1>7, Owners DEF DoneInv
<1>12. RowsInv' /\ GateInv' /\ HandInv'
  BY <1>1, <1>2, LoopStill
<1> QED BY <1>7, <1>8, <1>9, <1>10, <1>11, <1>12 DEF Track

(***************************************************************************)
(* Life: the stream loop                                                   *)
(***************************************************************************)
\* Outside the handlers of a call the screen has heard of everything.
LEMMA HandFree ==
    ASSUME ~Handled'
    PROVE  HandInv' /\ View' = shown'
BY DEF Handled, HandInv, View, Asked, Heard

\* Rows of calls that were killed.
LEMMA KilledRows ==
    ASSUME Types, NEW calls, rows' = [rows EXCEPT !.killed = Killed(calls)]
    PROVE  /\ rows'.kept = rows.kept
           /\ \A c \in Calls : /\ c \in calls => rows'.killed[c] = rows.killed[c] + 1
                               /\ c \notin calls => rows'.killed[c] = rows.killed[c]
<1>1. rows \in [kept : Seq(Calls), killed : [Calls -> Nat]] /\ rows.killed \in [Calls -> Nat]
  BY Shapes
<1> DEFINE k == Killed(calls)
<1>2. \A c \in Calls : /\ c \in calls => k[c] = rows.killed[c] + 1
                       /\ c \notin calls => k[c] = rows.killed[c]
  <2> SUFFICES ASSUME NEW c \in Calls
               PROVE  /\ c \in calls => k[c] = rows.killed[c] + 1
                      /\ c \notin calls => k[c] = rows.killed[c]
    OBVIOUS
  <2>1. k[c] = rows.killed[c] + (IF c \in calls THEN 1 ELSE 0) /\ rows.killed[c] \in Nat
    BY <1>1 DEF Killed
  <2> HIDE DEF k
  <2> QED BY <2>1
<1> HIDE DEF k
<1>3. rows' = [rows EXCEPT !.killed = k]
  BY DEF k
<1>4. rows'.kept = rows.kept /\ rows'.killed = k
  BY <1>1, <1>3
<1> QED BY <1>2, <1>4

\* A run that ends records what is open.
LEMMA RowsEnd ==
    ASSUME Types, RowsInv, end = "running", NEW how, how # "running", End(how, open),
           UNCHANGED <<open, View, hand>>,
           core' = "written" <=> core = "written", core' = "cut" <=> core = "cut"
    PROVE  RowsInv'
<1>1. /\ rows'.kept = rows.kept /\ end' # "running"
      /\ \A c \in Calls : /\ c \in open => rows'.killed[c] = rows.killed[c] + 1
                          /\ c \notin open => rows'.killed[c] = rows.killed[c]
  BY KilledRows DEF End
<1>2. KeptInv'
  BY <1>1 DEF RowsInv, KeptInv
<1>3. KilledInv'
  <2> SUFFICES ASSUME NEW c \in Calls
               PROVE  /\ c \notin open => rows'.killed[c] = 0
                      /\ c \in open => rows'.killed[c] = 1 \/ (core = "cut" /\ rows'.killed[c] = 2)
    BY <1>1 DEF KilledInv
  <2>1. /\ c \notin open => rows.killed[c] = 0
        /\ rows.killed[c] = 0 \/ (core = "cut" /\ rows.killed[c] = 1)
    BY DEF RowsInv, KilledInv
  <2>2. /\ c \in open => rows'.killed[c] = rows.killed[c] + 1
        /\ c \notin open => rows'.killed[c] = rows.killed[c]
    BY <1>1
  <2>3. rows.killed[c] = 0 => rows.killed[c] + 1 = 1
    OBVIOUS
  <2>4. rows.killed[c] = 1 => rows.killed[c] + 1 = 2
    OBVIOUS
  <2> QED BY <2>1, <2>2, <2>3, <2>4
<1> QED BY <1>2, <1>3 DEF RowsInv

\* A call announced takes a slot, or waits for one.
LEMMA LifeStarted ==
    ASSUME Types, CallInv, RowsInv, GateInv, Polled, NEW c \in Calls, Started(c),
           phase' = phase, Due(pipes, "start", c), ~Due(pipes', "start", c),
           \A k, d : Due(pipes, k, d) <=> Due(pipes', k, d) \/ (k = "start" /\ d = c)
    PROVE  CallInv' /\ RowsInv' /\ GateInv' /\ HandInv'
<1> DEFINE o == Owner(c)
           g == gate[o]
           h == GateStart(c)
<1>1. /\ o \in Workers \cup {Hidden} /\ GateTyped(g) /\ g.queued \in Seq(Calls)
      /\ \A p \in (Workers \cup {Hidden}) \ {o} : gate'[p] = gate[p]
      /\ gate'[o] = h
  <2>1. TypeOK
    BY DEF Types
  <2> QED BY <2>1, GatesTyped, StartedGate DEF GateTyped, Gates
<1>2. /\ open' = open \cup {c} /\ UNCHANGED <<rows, done, end, shown>>
      /\ core' = "started" /\ hand' = c /\ core = "poll" /\ end = "running" /\ View = shown
  BY DEF Started, Polled, View
<1>11. View' = [View EXCEPT ![c] = Told(gate'[o], c)]
  BY <1>2 DEF View, Told
<1>3. \/ h.running = g.running \cup {c} /\ h.queued = g.queued
      \/ h.running = g.running /\ h.queued = Append(g.queued, c)
  BY <1>1, GateStarts
<1>4. View[c] = "hidden" /\ c \notin g.running /\ c \notin ToSet(g.queued) /\ IsInjective(g.queued)
  BY <1>1 DEF CallInv, GateInv
<1>5. ToSet(Append(g.queued, c)) = ToSet(g.queued) \cup {c} /\ IsInjective(Append(g.queued, c))
  BY <1>1, <1>4, Joins, JoinsOnce
<1>6. /\ IsInjective(h.queued)
      /\ \/ c \in h.running /\ c \notin ToSet(h.queued)
         \/ c \notin h.running /\ c \in ToSet(h.queued)
      /\ \A d : d # c => /\ d \in h.running <=> d \in g.running
                         /\ d \in ToSet(h.queued) <=> d \in ToSet(g.queued)
  BY <1>3, <1>4, <1>5
<1>7. /\ \A d \in Calls \ {c} : View'[d] = View[d]
      /\ View'[c] \in {"running", "waiting"}
      /\ View'[c] = "running" <=> c \in h.running
      /\ View'[c] = "waiting" <=> c \in ToSet(h.queued)
  BY <1>1, <1>6, <1>11, Shapes DEF Told
<1> HIDE DEF g, h
<1>8. CallInv'
  BY <1>2, <1>4, <1>7 DEF CallInv, OnWay
<1>9. RowsInv'
  <2>1. \A d \in ToSet(rows.kept) : d \in Calls
    BY Shapes DEF ToSet
  <2>2. KeptInv'
    BY <1>2, <1>4, <1>7, <2>1 DEF RowsInv, KeptInv
  <2>3. KilledInv'
    BY <1>2 DEF RowsInv, KilledInv
  <2> QED BY <2>2, <2>3 DEF RowsInv
<1>10. GateInv'
  <2>1. \A p \in Workers \cup {Hidden} :
           /\ \A d \in gate[p].running : d \in Calls /\ Owner(d) = p /\ View[d] = "running"
           /\ \A d \in ToSet(gate[p].queued) : d \in Calls /\ Owner(d) = p /\ View[d] = "waiting"
           /\ IsInjective(gate[p].queued)
    <3>1. TypeOK
      BY DEF Types
    <3>2. \A p \in Workers \cup {Hidden} : gate[p].running \subseteq Calls /\ gate[p].queued \in Seq(Calls)
      BY <3>1, GatesTyped DEF Gates
    <3>3. \A p \in Workers \cup {Hidden} : ToSet(gate[p].queued) \subseteq Calls
      BY <3>2 DEF ToSet
    <3> QED BY <3>2, <3>3 DEF GateInv
  <2>2. ASSUME NEW p \in Workers \cup {Hidden}
        PROVE  /\ \A d \in gate'[p].running : Owner(d) = p /\ View'[d] = "running"
               /\ \A d \in ToSet(gate'[p].queued) : Owner(d) = p /\ View'[d] = "waiting"
               /\ IsInjective(gate'[p].queued)
    <3>1. CASE p = o
      <4>1. /\ \A d \in h.running : Owner(d) = p /\ View'[d] = "running"
            /\ \A d \in ToSet(h.queued) : Owner(d) = p /\ View'[d] = "waiting"
        BY <1>1, <1>6, <1>7, <2>1, <3>1 DEF g
      <4> QED BY <1>1, <1>6, <3>1, <4>1
    <3>2. CASE p # o
      <4>1. gate'[p] = gate[p] /\ \A d \in gate[p].running \cup ToSet(gate[p].queued) : d # c
        BY <1>1, <2>1, <3>2
      <4> QED BY <1>7, <2>1, <4>1
    <3> QED BY <3>1, <3>2
  <2>3. ASSUME NEW d \in Calls
        PROVE  /\ View'[d] = "running" => d \in gate'[Owner(d)].running
               /\ View'[d] = "waiting" => d \in ToSet(gate'[Owner(d)].queued)
    <3>1. CASE d = c
      BY <1>1, <1>7, <3>1
    <3>2. CASE d # c /\ Owner(d) = o
      BY <1>1, <1>6, <1>7, <3>2 DEF GateInv, g
    <3>3. CASE d # c /\ Owner(d) # o
      BY <1>1, <1>7, <3>3, Owners DEF GateInv
    <3> QED BY <3>1, <3>2, <3>3
  <2> QED BY <2>2, <2>3 DEF GateInv
<1>12. HandInv'
  <2>1. shown'[c] = "hidden" /\ View'[c] \notin {"hidden", "finished"}
    BY <1>2, <1>4, <1>7
  <2>2. \A d \in Calls \ {c} : View'[d] = shown'[d]
    BY <1>2, <1>7
  <2> QED BY <1>2, <2>1, <2>2 DEF HandInv, Asked, Heard
<1> QED BY <1>8, <1>9, <1>10, <1>12

\* A call back leaves its slot to the one that has waited longest.
LEMMA LifeLeave ==
    ASSUME Types, CallInv, RowsInv, GateInv, end = "running", NEW c \in Calls, Leave(c),
           hand' = c, UNCHANGED <<phase, rows>>,
           (core = "poll" /\ c \in Workers) \/ (core = "written" /\ hand = c /\ c \notin Workers),
           OnWay(c), ~Due(pipes', "result", c), ~Due(pipes, "start", c),
           \A k, d : Due(pipes', k, d) <=> Due(pipes, k, d) /\ ~(k = "result" /\ d = c)
    PROVE  CallInv' /\ RowsInv' /\ GateInv' /\ HandInv'
<1> DEFINE o == Owner(c)
           g == gate[o]
           h == GateSettle(c)
           q == Without(g.queued, c)
<1>1. /\ o \in Workers \cup {Hidden} /\ GateTyped(g) /\ g.queued \in Seq(Calls)
      /\ \A p \in (Workers \cup {Hidden}) \ {o} : gate'[p] = gate[p]
      /\ gate'[o] = h
  <2>1. TypeOK
    BY DEF Types
  <2> QED BY <2>1, GatesTyped, LeaveGate DEF GateTyped, Gates
<1>2. /\ open' = open \ {c} /\ UNCHANGED <<done, end, shown>>
      /\ core' = "settled" /\ View = shown
  BY DEF Leave, StillOpen, View
<1>14. View' = [d \in Calls |->
           IF d = c THEN "finished"
           ELSE IF Owner(d) = o THEN Told(gate'[o], d) ELSE View[d]]
  BY <1>2 DEF View, Told
<1>3. /\ q \in Seq(Calls)
      /\ \/ h.running = g.running \ {c} /\ h.queued = q
         \/ q # <<>> /\ h.running = (g.running \ {c}) \cup {Head(q)} /\ h.queued = Tail(q)
  BY <1>1, GateSettles
<1>4. \A p \in Workers \cup {Hidden} :
         /\ \A d \in gate[p].running : d \in Calls /\ Owner(d) = p /\ View[d] = "running"
         /\ \A d \in ToSet(gate[p].queued) : d \in Calls /\ Owner(d) = p /\ View[d] = "waiting"
         /\ IsInjective(gate[p].queued)
  <2>1. TypeOK
    BY DEF Types
  <2>2. \A p \in Workers \cup {Hidden} : gate[p].running \subseteq Calls /\ gate[p].queued \in Seq(Calls)
    BY <2>1, GatesTyped DEF Gates
  <2>3. \A p \in Workers \cup {Hidden} : ToSet(gate[p].queued) \subseteq Calls
    BY <2>2 DEF ToSet
  <2> QED BY <2>2, <2>3 DEF GateInv
<1>5. IsInjective(q) /\ ToSet(q) = ToSet(g.queued) \ {c}
  BY <1>1, <1>4, WithoutIs
<1>6. q # <<>> => /\ IsInjective(Tail(q)) /\ ToSet(Tail(q)) = ToSet(q) \ {Head(q)}
                  /\ ToSet(q) = ToSet(Tail(q)) \cup {Head(q)}
  BY <1>3, <1>5, Leads, LeadsOnce
<1> HIDE DEF g, q, h
<1>7. /\ IsInjective(h.queued)
      /\ c \notin h.running /\ c \notin ToSet(h.queued)
      /\ \A d : d \in h.running => d \notin ToSet(h.queued)
      /\ \A d : d # c => (d \in h.running \/ d \in ToSet(h.queued) <=> d \in g.running \/ d \in ToSet(g.queued))
      /\ \A d : d # c /\ d \in g.running => d \in h.running
  <2>1. \A d \in g.running : d \notin ToSet(g.queued)
    BY <1>1, <1>4 DEF g
  <2>2. CASE h.running = g.running \ {c} /\ h.queued = q
    BY <1>5, <2>1, <2>2
  <2>3. CASE q # <<>> /\ h.running = (g.running \ {c}) \cup {Head(q)} /\ h.queued = Tail(q)
    BY <1>5, <1>6, <2>1, <2>3
  <2> QED BY <1>3, <2>2, <2>3
<1>8. \A d \in Calls : Owner(d) = o => /\ View[d] = "running" <=> d \in g.running
                                       /\ View[d] = "waiting" <=> d \in ToSet(g.queued)
  BY <1>1, <1>4 DEF GateInv, g
<1>9. /\ View'[c] = "finished"
      /\ \A d \in Calls \ {c} : Owner(d) # o => View'[d] = View[d]
      /\ \A d \in Calls \ {c} : Owner(d) = o =>
            View'[d] = IF d \in h.running THEN "running" ELSE IF d \in ToSet(h.queued) THEN "waiting" ELSE View[d]
  <2>1. \A d : Told(gate'[o], d) =
           IF d \in h.running THEN "running" ELSE IF d \in ToSet(h.queued) THEN "waiting" ELSE View[d]
    BY <1>1, <1>2, <1>7 DEF Told
  <2> QED BY <1>14, <2>1
<1>10. \A d \in Calls \ {c} :
          \/ View'[d] = View[d]
          \/ View[d] \in {"waiting", "running"} /\ View'[d] \in {"waiting", "running"}
  BY <1>7, <1>8, <1>9
<1>11. CallInv'
  <2>1. phase[c] = "back" /\ View[c] # "finished" /\ ~OnWay(c)'
    BY <1>2 DEF CallInv, OnWay
  <2>2. \A d \in Calls \ {c} : OnWay(d)' <=> OnWay(d)
    BY <1>2 DEF OnWay
  <2> QED BY <1>2, <1>9, <1>10, <2>1, <2>2 DEF CallInv
<1>12. RowsInv'
  <2>1. \A d \in ToSet(rows.kept) : d \in Calls
    BY Shapes DEF ToSet
  <2>2. View[c] # "finished"
    BY DEF CallInv
  <2>3. KeptInv'
    BY <1>2, <1>9, <1>10, <2>1, <2>2 DEF RowsInv, KeptInv
  <2>4. KilledInv'
    BY <1>2 DEF RowsInv, KilledInv
  <2> QED BY <2>3, <2>4 DEF RowsInv
<1>13. GateInv'
  <2>1. ASSUME NEW p \in Workers \cup {Hidden}
        PROVE  /\ \A d \in gate'[p].running : Owner(d) = p /\ View'[d] = "running"
               /\ \A d \in ToSet(gate'[p].queued) : Owner(d) = p /\ View'[d] = "waiting"
               /\ IsInjective(gate'[p].queued)
    <3>1. CASE p = o
      <4>1. \A d : d \in h.running \/ d \in ToSet(h.queued) => d # c /\ d \in Calls /\ Owner(d) = o
        BY <1>1, <1>4, <1>7 DEF g
      <4>2. /\ \A d \in h.running : Owner(d) = p /\ View'[d] = "running"
            /\ \A d \in ToSet(h.queued) : Owner(d) = p /\ View'[d] = "waiting"
        BY <1>7, <1>9, <3>1, <4>1
      <4> QED BY <1>1, <1>7, <3>1, <4>2
    <3>2. CASE p # o
      <4>1. gate'[p] = gate[p]
        BY <1>1, <3>2
      <4>2. \A d \in gate[p].running \cup ToSet(gate[p].queued) : d \in Calls \ {c} /\ View'[d] = View[d]
        BY <1>4, <1>9, <3>2
      <4> QED BY <1>4, <4>1, <4>2
    <3> QED BY <3>1, <3>2
  <2>2. ASSUME NEW d \in Calls
        PROVE  /\ View'[d] = "running" => d \in gate'[Owner(d)].running
               /\ View'[d] = "waiting" => d \in ToSet(gate'[Owner(d)].queued)
    <3>1. CASE d = c
      BY <1>9, <3>1
    <3>2. CASE d # c /\ Owner(d) = o
      BY <1>1, <1>7, <1>8, <1>9, <3>2
    <3>3. CASE d # c /\ Owner(d) # o
      BY <1>1, <1>9, <3>3, Owners DEF GateInv
    <3> QED BY <3>1, <3>2, <3>3
  <2> QED BY <2>1, <2>2 DEF GateInv
<1>15. HandInv'
  <2>1. \A d \in Calls : d = c \/ (shown[d] = "running" => View'[d] = "running")
    BY <1>2, <1>7, <1>8, <1>9
  <2>2. \A d \in Calls \ {c} : /\ View'[d] = "hidden" <=> shown'[d] = "hidden"
                               /\ View'[d] = "finished" <=> shown'[d] = "finished"
    BY <1>2, <1>10
  <2> QED BY <1>2, <1>9, <2>1, <2>2 DEF HandInv, Asked, Heard
<1> QED BY <1>11, <1>12, <1>13, <1>15

\* The row of a result is written while its call is open.
LEMMA LifeWritten ==
    ASSUME Types, CallInv, RowsInv, GateInv, Polled, NEW c \in Calls, c \notin Workers,
           rows' = [rows EXCEPT !.kept = Append(@, c)], hand' = c, core' = "written",
           UNCHANGED <<gate, open, done, end, shown, phase>>,
           Due(pipes, "result", c), ~Due(pipes', "result", c), ~Due(pipes', "start", c),
           \A k, d : Due(pipes, k, d) <=> Due(pipes', k, d) \/ (k = "result" /\ d = c)
    PROVE  CallInv' /\ RowsInv' /\ GateInv' /\ HandInv'
<1>1. View' = View /\ View' = shown' /\ core = "poll"
  BY DEF View, Polled
<1>2. \A d : OnWay(d)' <=> OnWay(d)
  BY <1>1 DEF OnWay
<1>3. \A d : Due(pipes', "start", d) <=> Due(pipes, "start", d)
  OBVIOUS
<1>4. CallInv'
  BY <1>1, <1>2, <1>3 DEF CallInv
<1>5. /\ rows'.kept = Append(rows.kept, c) /\ rows'.killed = rows.killed
      /\ rows.kept \in Seq(Calls)
  BY Shapes
<1>6. c \notin ToSet(rows.kept) /\ IsInjective(rows.kept)
  BY <1>1 DEF RowsInv, KeptInv, CallInv, OnWay
<1>7. IsInjective(rows'.kept) /\ ToSet(rows'.kept) = ToSet(rows.kept) \cup {c}
  BY <1>5, <1>6, Joins, JoinsOnce
<1>8. KeptInv'
  BY <1>1, <1>7 DEF RowsInv, KeptInv
<1>9. KilledInv'
  BY <1>1, <1>5 DEF RowsInv, KilledInv
<1>10. GateInv'
  BY <1>1 DEF GateInv
<1>11. HandInv'
  BY <1>1 DEF HandInv, Asked, Heard
<1> QED BY <1>4, <1>8, <1>9, <1>10, <1>11 DEF RowsInv


LEMMA LifeTake ==
    ASSUME Life, NEW s \in Sources, Take(s)
    PROVE  Track'
<1>1. /\ Types /\ AskInv /\ WorkerInv /\ Once(pipes) /\ CallInv /\ DoneInv /\ RowsInv /\ GateInv /\ HandInv
  BY DEF Life, Track
<1> DEFINE e == Head(pipes[s])
<1>2. /\ Polled /\ Taken(pipes, s, pipes') /\ Typed(pipes) /\ Typed(pipes')
      /\ pipes[s] # <<>> /\ e \in Items /\ Fits(s, e) /\ e = pipes[s][1] /\ 1 \in DOMAIN pipes[s]
      /\ e = Item(e.kind, e.call)
  BY <1>1, TakePipes
<1>3. e.kind \in {"start", "result"} => e.call \in Calls
  BY <1>1, TakePipes
<1>4. /\ \A t \in Sources \ {s} : pipes'[t] = pipes[t]
      /\ pipes'[s] = Tail(pipes[s])
      /\ \A t \in Sources : ToSet(pipes'[t]) \subseteq ToSet(pipes[t])
      /\ \A k, c : Due(pipes, k, c) <=> Due(pipes', k, c) \/ Item(k, c) = e
  BY <1>2, Takes
<1>5. /\ Once(pipes')
      /\ \A k \in {"start", "result"} : \A c \in Calls : Item(k, c) = e => ~Due(pipes', k, c)
  BY <1>1, <1>2, TakesOnce
<1>6. /\ UNCHANGED <<stage, phase, asks, pending>> /\ end = "running" /\ core = "poll" /\ View = shown
      /\ \/ /\ \E how \in {"preempted", "failed", "cancelled"} : End(how, open)
            /\ e.kind # "result" /\ UNCHANGED <<hand, gate, open, done, shown>>
            /\ core' \in {"poll", "check"}
         \/ e.kind = "start" /\ Started(e.call)
         \/ e.kind = "result" /\ Finished(e.call)
         \/ /\ e.kind \in {"text", "done"} /\ UNCHANGED <<hand, gate, open, rows, end, shown>>
            /\ core' = "check" /\ done' = (done \/ e.kind = "done")
  <2>1. UNCHANGED <<stage, phase, asks, pending>> /\ end = "running" /\ core = "poll"
    BY DEF Take, rig, Polled
  <2>2. \/ Boundary(e) /\ End("preempted", open) /\ UNCHANGED <<core, hand, gate, open, done, shown>>
        \/ e.kind = "fail" /\ End("failed", open) /\ core' = "check" /\ UNCHANGED <<hand, gate, open, done, shown>>
        \/ e.kind = "stop" /\ End("cancelled", open) /\ core' = "check" /\ UNCHANGED <<hand, gate, open, done, shown>>
        \/ e.kind = "start" /\ Started(e.call)
        \/ e.kind = "result" /\ Finished(e.call)
        \/ e.kind = "text" /\ core' = "check" /\ UNCHANGED <<hand, gate, open, rows, done, end, shown>>
        \/ e.kind = "done" /\ done' = TRUE /\ core' = "check" /\ UNCHANGED <<hand, gate, open, rows, end, shown>>
    BY DEF Take
  <2>3. Boundary(e) => e.kind # "result"
    BY DEF Boundary
  <2>4. done \in BOOLEAN /\ View = shown
    BY <1>1, <2>1 DEF Types, TypeOK, View
  <2> HIDE DEF e
  <2> QED BY <2>1, <2>2, <2>3, <2>4
<1> HIDE DEF e
<1>7. AskInv'
  BY <1>1, <1>6 DEF AskInv
<1>8. done' => done \/ e.kind = "done"
  BY <1>6 DEF Started, Finished, Leave
<1>9. end' = "running" => e.kind # "fail"
  BY <1>6 DEF End
<1>10. WorkerInv'
  <2>1. end' = "running" /\ Failing => Failing'
    <3> SUFFICES ASSUME end' = "running", Failing PROVE Failing'
      OBVIOUS
    <3>1. PICK i \in DOMAIN pipes["activity"] : pipes["activity"][i].kind = "fail"
      BY DEF Failing
    <3>2. CASE s = "activity"
      <4>1. pipes[s] \in Seq(Items) /\ i # 1
        BY <1>2, <1>9, <3>1, <3>2 DEF Typed
      <4>2. i - 1 \in DOMAIN Tail(pipes[s]) /\ Tail(pipes[s])[i - 1] = pipes[s][i]
        BY <1>2, <3>1, <3>2, <4>1, Leads
      <4> QED BY <1>4, <3>1, <3>2, <4>2 DEF Failing
    <3>3. CASE s # "activity"
      BY <1>4, <3>1, <3>3 DEF Failing, Sources
    <3> QED BY <3>2, <3>3
  <2> QED BY <1>1, <1>6, <2>1 DEF WorkerInv, InHand
<1>11. DoneInv'
  <2>1. e.kind = "done" => \E i \in DOMAIN pipes["main"] : pipes["main"][i].kind = "done"
    BY <1>2 DEF Fits, Sources
  <2>2. (\E i \in DOMAIN pipes'["main"] : pipes'["main"][i].kind = "done")
           => \E i \in DOMAIN pipes["main"] : pipes["main"][i].kind = "done"
    BY <1>4 DEF ToSet, Sources
  <2> QED BY <1>1, <1>6, <1>8, <2>1, <2>2 DEF DoneInv
<1>12. CallInv' /\ RowsInv' /\ GateInv' /\ HandInv'
  <2>1. CASE /\ \E how \in {"preempted", "failed", "cancelled"} : End(how, open)
             /\ e.kind # "result" /\ UNCHANGED <<hand, gate, open, done, shown>>
             /\ core' \in {"poll", "check"}
    <3>5. HandInv' /\ View' = View
      BY <1>6, <2>1, HandFree DEF Handled
    <3>1. RowsInv'
      BY <1>1, <1>6, <2>1, <3>5, RowsEnd
    <3>2. GateInv'
      BY <1>1, <2>1, <3>5 DEF GateInv
    <3>3. \A c : Due(pipes, "result", c) <=> Due(pipes', "result", c)
      BY <1>4, <2>1 DEF Item
    <3>4. CallInv'
      BY <1>1, <1>4, <1>6, <2>1, <3>3, <3>5 DEF CallInv, OnWay
    <3> QED BY <3>1, <3>2, <3>4, <3>5
  <2>2. CASE e.kind = "start" /\ Started(e.call)
    <3> DEFINE c == e.call
    <3>1. c \in Calls /\ Started(c) /\ e = Item("start", c)
      BY <1>2, <1>3, <2>2
    <3> HIDE DEF c
    <3>2. /\ Due(pipes, "start", c) /\ ~Due(pipes', "start", c)
          /\ \A k, d : Due(pipes, k, d) <=> Due(pipes', k, d) \/ (k = "start" /\ d = c)
      BY <1>4, <1>5, <3>1, ItemIs
    <3> QED BY <1>1, <1>2, <1>6, <3>1, <3>2, LifeStarted
  <2>3. CASE e.kind = "result" /\ Finished(e.call)
    <3> DEFINE c == e.call
    <3>1. c \in Calls /\ Finished(c) /\ e = Item("result", c)
      BY <1>2, <1>3, <2>3
    <3> HIDE DEF c
    <3>2. /\ Due(pipes, "result", c) /\ ~Due(pipes', "result", c)
          /\ \A k, d : Due(pipes, k, d) <=> Due(pipes', k, d) \/ (k = "result" /\ d = c)
      BY <1>4, <1>5, <3>1, ItemIs
    <3>3. c \in Inner => ~Due(pipes, "start", c)
      BY <1>1, <1>2, <3>1, TakesOnce DEF e
    <3>4. ~Due(pipes, "start", c)
      BY <1>1, <3>1, <3>2, <3>3, Owners DEF CallInv, OnWay
    <3>5. CASE c \in Workers /\ Leave(c) /\ UNCHANGED rows
      <4>1. OnWay(c) /\ hand' = c
        BY <3>1, <3>2 DEF OnWay, Finished
      <4>2. \A k, d : Due(pipes', k, d) <=> Due(pipes, k, d) /\ ~(k = "result" /\ d = c)
        BY <3>2
      <4> QED BY <1>1, <1>6, <3>1, <3>2, <3>4, <3>5, <4>1, <4>2, LifeLeave
    <3>6. CASE /\ c \notin Workers /\ rows' = [rows EXCEPT !.kept = Append(@, c)]
               /\ core' = "written" /\ UNCHANGED <<gate, open, action, done, end, shown>>
      <4>1. hand' = c
        BY <3>1 DEF Finished
      <4>2. ~Due(pipes', "start", c)
        BY <3>2, <3>4
      <4> QED BY <1>1, <1>2, <1>6, <3>1, <3>2, <3>6, <4>1, <4>2, LifeWritten
    <3> QED BY <3>1, <3>5, <3>6 DEF Finished
  <2>4. CASE /\ e.kind \in {"text", "done"} /\ UNCHANGED <<hand, gate, open, rows, end, shown>>
             /\ core' = "check"
    <3>5. HandInv' /\ View' = View
      BY <1>6, <2>4, HandFree DEF Handled
    <3>1. \A k \in {"start", "result"} : \A c : Due(pipes, k, c) <=> Due(pipes', k, c)
      BY <1>4, <2>4 DEF Item
    <3>2. CallInv'
      BY <1>1, <1>6, <2>4, <3>1, <3>5 DEF CallInv, OnWay
    <3>3. RowsInv'
      BY <1>1, <1>6, <2>4, <3>5 DEF RowsInv, KeptInv, KilledInv
    <3> QED BY <1>1, <2>4, <3>2, <3>3, <3>5 DEF GateInv
  <2> QED BY <1>6, <2>1, <2>2, <2>3, <2>4
<1> QED BY <1>5, <1>7, <1>10, <1>11, <1>12 DEF Track

\* The lock behind the row of a result.
LEMMA LifeSettle ==
    ASSUME Life, Settle
    PROVE  Track'
<1>1. /\ Types /\ AskInv /\ WorkerInv /\ Once(pipes) /\ CallInv /\ DoneInv /\ RowsInv /\ GateInv /\ HandInv
  BY DEF Life, Track
<1>2. /\ UNCHANGED <<stage, phase, pipes, asks, pending, hand, rows, done, end>>
      /\ end = "running" /\ core = "written" /\ Leave(hand) /\ hand \in Calls
  BY <1>1 DEF Settle, Leave, rig, prompt, Types, HandHeld, Handled
<1>3. hand \notin Workers /\ ~Due(pipes, "start", hand) /\ ~Due(pipes, "result", hand) /\ OnWay(hand)
  BY <1>1, <1>2 DEF HandInv, OnWay
<1> DEFINE c == hand
<1>4. /\ c \in Calls /\ Leave(c) /\ hand' = c /\ ~Due(pipes', "result", c)
      /\ \A k, d : Due(pipes', k, d) <=> Due(pipes, k, d) /\ ~(k = "result" /\ d = c)
  BY <1>2, <1>3 DEF Due
<1>5. CallInv' /\ RowsInv' /\ GateInv' /\ HandInv'
  BY <1>1, <1>2, <1>3, <1>4, LifeLeave
<1>6. AskInv' /\ DoneInv' /\ Once(pipes')
  BY <1>1, <1>2 DEF AskInv, DoneInv
<1>7. WorkerInv'
  <2>1. Failing' <=> Failing
    BY <1>2 DEF Failing
  <2> QED BY <1>1, <1>2, <2>1 DEF WorkerInv, InHand
<1> QED BY <1>5, <1>6, <1>7 DEF Track

\* What the stream loop does beside the calls: the part of each step that is
\* none of the rows'.
LEMMA LifeBeside ==
    ASSUME Life, UNCHANGED <<stage, phase, pipes, gate, open, done, View, asks, pending>>,
           core # "written", core' # "written", HandInv', RowsInv', end' = "running" => end = "running"
    PROVE  Track'
<1>1. /\ Types /\ AskInv /\ WorkerInv /\ Once(pipes) /\ CallInv /\ DoneInv /\ RowsInv /\ GateInv
  BY DEF Life, Track
<1>2. AskInv' /\ DoneInv' /\ GateInv' /\ Once(pipes')
  BY <1>1 DEF AskInv, DoneInv, GateInv
<1>3. CallInv'
  BY <1>1 DEF CallInv, OnWay
<1>4. WorkerInv'
  <2>1. Failing' <=> Failing
    BY DEF Failing
  <2> QED BY <1>1, <2>1 DEF WorkerInv, InHand
<1> QED BY <1>2, <1>3, <1>4 DEF Track

LEMMA LifeTell ==
    ASSUME Life, Tell
    PROVE  Track'
<1>1. Types /\ RowsInv /\ hand \in Calls /\ core \in {"started", "settled"}
  BY DEF Life, Track, Tell, Types, HandHeld, Handled
<1>2. /\ UNCHANGED <<stage, phase, pipes, gate, open, rows, done, end, asks, pending>>
      /\ core' = "check" /\ hand' = Hidden
  BY DEF Tell, rig, prompt
<1>3. shown' = View
  BY <1>1 DEF Tell, View
<1>4. HandInv' /\ View' = View
  BY <1>2, <1>3, HandFree DEF Handled
<1>5. RowsInv'
  BY <1>1, <1>2, <1>4 DEF RowsInv, KeptInv, KilledInv
<1> QED BY <1>1, <1>2, <1>4, <1>5, LifeBeside

LEMMA LifeCheck ==
    ASSUME Life, Check
    PROVE  Track'
<1>1. Types /\ RowsInv
  BY DEF Life, Track
<1>2. /\ UNCHANGED <<stage, phase, pipes, hand, gate, open, done, shown, asks, pending>>
      /\ end = "running" /\ core = "check"
      /\ \/ End("preempted", open) /\ core' = "poll"
         \/ UNCHANGED <<rows, end>> /\ core' \in {"poll", "cut"}
  BY DEF Check, rig
<1>3. HandInv' /\ View' = View
  BY <1>2, HandFree DEF Handled, View
<1>4. RowsInv'
  <2>1. CASE End("preempted", open) /\ core' = "poll"
    BY <1>1, <1>2, <1>3, <2>1, RowsEnd
  <2>2. CASE UNCHANGED <<rows, end>> /\ core' \in {"poll", "cut"}
    BY <1>1, <1>2, <1>3, <2>2 DEF RowsInv, KeptInv, KilledInv
  <2> QED BY <1>2, <2>1, <2>2
<1>5. end' = "running" => end = "running"
  BY <1>2
<1> QED BY <1>2, <1>3, <1>4, <1>5, LifeBeside

\* The cut for a denial: a row for a call that is out and has none yet.
LEMMA LifeCut ==
    ASSUME Life, Cut \/ CutEnd
    PROVE  Track'
<1>1. Types /\ RowsInv
  BY DEF Life, Track
<1>2. /\ UNCHANGED <<stage, phase, pipes, hand, gate, open, done, shown, asks, pending>>
      /\ end = "running" /\ core = "cut" /\ core' \in {"cut", "poll"}
  BY DEF Cut, CutEnd, rig, prompt
<1>3. HandInv' /\ View' = View
  BY <1>2, HandFree DEF Handled, View
<1>4. RowsInv'
  <2>1. CASE Cut
    <3>1. PICK c \in open : rows.killed[c] = 0 /\ rows' = [rows EXCEPT !.killed = Killed({c})]
      BY <2>1 DEF Cut
    <3>2. core' = core /\ end' = end
      BY <2>1 DEF Cut
    <3>3. /\ rows'.kept = rows.kept
          /\ \A d \in Calls : /\ d \in {c} => rows'.killed[d] = rows.killed[d] + 1
                              /\ d \notin {c} => rows'.killed[d] = rows.killed[d]
      BY <1>1, <3>1, KilledRows
    <3>4. KeptInv'
      BY <1>1, <1>2, <1>3, <3>3 DEF RowsInv, KeptInv
    <3>5. KilledInv'
      <4> SUFFICES ASSUME NEW d \in Calls
                   PROVE  /\ d \notin open => rows'.killed[d] = 0
                          /\ rows'.killed[d] = 0 \/ rows'.killed[d] = 1
        BY <1>2, <3>2 DEF KilledInv
      <4>1. d = c => rows'.killed[d] = 1 /\ d \in open
        <5> SUFFICES ASSUME d = c PROVE rows'.killed[d] = 1 /\ d \in open
          OBVIOUS
        <5>1. rows'.killed[d] = rows.killed[d] + 1 /\ rows.killed[d] = 0 /\ d \in open
          BY <3>1, <3>3
        <5>2. rows.killed[d] = 0 => rows.killed[d] + 1 = 1
          OBVIOUS
        <5> QED BY <5>1, <5>2
      <4>2. d # c => rows'.killed[d] = rows.killed[d]
        BY <3>3
      <4>3. (d \notin open => rows.killed[d] = 0) /\ (rows.killed[d] = 0 \/ rows.killed[d] = 1)
        BY <1>1, <1>2 DEF RowsInv, KilledInv
      <4> QED BY <4>1, <4>2, <4>3
    <3> QED BY <3>4, <3>5 DEF RowsInv
  <2>2. CASE CutEnd
    <3>1. /\ rows' = rows /\ end' = "denied" /\ core' = "poll"
          /\ \A c \in open : rows.killed[c] # 0
      BY <2>2 DEF CutEnd
    <3>2. \A c \in Calls : /\ c \notin open => rows.killed[c] = 0
                           /\ c \in open => rows.killed[c] = 1
      BY <1>1, <1>2, <3>1 DEF RowsInv, KilledInv
    <3>3. KilledInv'
      BY <1>2, <3>1, <3>2 DEF KilledInv
    <3>4. KeptInv'
      BY <1>1, <1>2, <1>3, <3>1 DEF RowsInv, KeptInv
    <3> QED BY <3>3, <3>4 DEF RowsInv
  <2> QED BY <2>1, <2>2
<1>5. end' = "running" => end = "running"
  BY <1>2
<1> QED BY <1>2, <1>3, <1>4, <1>5, LifeBeside

\* When the reply is committed, no call is open: every one the stream spoke of
\* has returned, and its result was heard.
LEMMA LifeCommit ==
    ASSUME Life, Commit
    PROVE  Track'
<1>1. /\ Types /\ AskInv /\ WorkerInv /\ Once(pipes) /\ CallInv /\ DoneInv /\ RowsInv /\ GateInv
  BY DEF Life, Track
<1>2. /\ UNCHANGED <<stage, phase, pipes, core, hand, gate, open, rows, done, shown, asks, pending>>
      /\ core = "poll"
      /\ end = "running" /\ end' = "finished" /\ done /\ \A s \in Sources : pipes[s] = <<>>
      /\ \A c \in Calls : ~InHand(c)
  BY DEF Commit, rig, prompt, Polled
<1>3. HandInv' /\ View' = View
  BY <1>2, HandFree DEF Handled, View
<1>5. ~Failing /\ \A k, c : ~Due(pipes, k, c)
  BY <1>2 DEF Failing, Due, Sources
<1>6. \A c \in Manager : c \in Calls /\ phase[c] = "back"
  BY <1>1, <1>2, Owners DEF DoneInv
<1>7. \A x \in Inner : phase[x] \in {"unsaid", "back"}
  <2>1. \A x \in Inner : Owner(x) \in Manager
    BY Owners
  <2> QED BY <1>1, <1>2, <1>5, <1>6, <2>1 DEF WorkerInv
<1>8. open = {}
  <2>1. open \subseteq Calls
    BY <1>1, Shapes
  <2>2. \A c \in Calls : phase[c] \in {"unsaid", "back"}
    BY <1>6, <1>7, Owners
  <2>3. \A c \in Calls : c \notin open
    BY <1>1, <1>2, <1>5, <2>2 DEF CallInv, OnWay
  <2> QED BY <2>1, <2>3
<1>9. RowsInv'
  BY <1>1, <1>2, <1>3, <1>8 DEF RowsInv, KeptInv, KilledInv
<1> QED BY <1>2, <1>3, <1>9, LifeBeside

(***************************************************************************)
(* Life: the run loop and the user                                         *)
(***************************************************************************)
LEMMA LifeHearAsk ==
    ASSUME Life, HearAsk
    PROVE  Track'
<1>1. /\ Types /\ AskInv /\ WorkerInv /\ Once(pipes) /\ CallInv /\ DoneInv /\ RowsInv /\ GateInv /\ HandInv
  BY DEF Life, Track
<1>2. /\ UNCHANGED <<stage, phase, pipes, loop>> /\ asks # <<>> /\ asks' = Tail(asks)
      /\ pending' = pending \cup {Head(asks)}
  BY DEF HearAsk, rig
<1>3. UNCHANGED <<open, View, done, end, core, hand>>
  BY <1>2, LoopStays
<1>4. AskInv'
  <2>1. asks \in Seq(Asking) /\ IsInjective(asks)
    BY <1>1, Shapes DEF AskInv
  <2>2. /\ IsInjective(asks') /\ ToSet(asks') = ToSet(asks) \ {Head(asks)}
        /\ ToSet(asks) = ToSet(asks') \cup {Head(asks)}
    BY <1>2, <2>1, Leads, LeadsOnce
  <2> QED BY <1>1, <1>2, <2>2 DEF AskInv
<1>5. WorkerInv' /\ CallInv' /\ DoneInv'
  BY <1>1, <1>2, <1>3, HandsMove, Shapes
<1>6. RowsInv' /\ GateInv' /\ HandInv'
  BY <1>1, <1>2, LoopStill
<1> QED BY <1>1, <1>2, <1>4, <1>5, <1>6 DEF Track

\* Answers reach calls that wait for one.
LEMMA LifeFreed ==
    ASSUME Life, UNCHANGED <<stage, pipes, core, hand, gate, open, done, shown, asks>>,
           pending' \subseteq pending, phase' \in [Calls -> Phases],
           \A c \in Calls : phase'[c] # phase[c] => c \in pending \ pending' /\ phase'[c] \in {"freed", "refused"},
           \/ UNCHANGED <<rows, end>>
           \/ end = "running" /\ \E how \in {"aborted"} : End(how, open)
    PROVE  Track'
<1>1. /\ Types /\ AskInv /\ WorkerInv /\ Once(pipes) /\ CallInv /\ DoneInv /\ RowsInv /\ GateInv /\ HandInv
  BY DEF Life, Track
<1>2. \A c \in Calls : phase'[c] # phase[c] => phase[c] = "asks" /\ c \notin Workers /\ c \notin ToSet(asks)
  BY <1>1, AskPlaces DEF AskInv
<1>12. View' = View
  BY DEF View, Told
<1>3. AskInv'
  BY <1>1, <1>2, AskPlaces DEF AskInv
<1>4. Manager \subseteq Calls /\ \A x \in Inner : x \in Calls /\ Owner(x) \in Workers /\ Owner(x) \in Calls
  BY Owners
<1>5. \A c \in Workers : c \in Calls /\ phase'[c] = phase[c]
  BY <1>2, Owners
<1>6. \A c \in Calls : phase'[c] = phase[c] \/ (phase[c] = "asks" /\ phase'[c] \in {"freed", "refused"})
  BY <1>2
<1>7. WorkerInv'
  <2>1. (Failing' <=> Failing) /\ (end' = "running" => end = "running")
    BY DEF Failing, End
  <2> QED BY <1>1, <1>4, <1>5, <1>6, <2>1 DEF WorkerInv, InHand
<1>8. CallInv'
  <2>1. \A k, c : Due(pipes', k, c) <=> Due(pipes, k, c)
    BY DEF Due
  <2> QED BY <1>1, <1>6, <1>12, <2>1 DEF CallInv, OnWay
<1>9. DoneInv'
  BY <1>1, <1>4, <1>6 DEF DoneInv
<1>10. RowsInv'
  <2>1. CASE UNCHANGED <<rows, end>>
    BY <1>1, <1>12, <2>1 DEF RowsInv, KeptInv, KilledInv
  <2>2. CASE end = "running" /\ \E how \in {"aborted"} : End(how, open)
    BY <1>1, <1>12, <2>2, RowsEnd
  <2> QED BY <2>1, <2>2
<1>11. GateInv'
  BY <1>1, <1>12 DEF GateInv
<1>13. HandInv'
  BY <1>1, <1>12 DEF HandInv, Asked, Heard, Due
<1> QED BY <1>1, <1>3, <1>7, <1>8, <1>9, <1>10, <1>11, <1>13 DEF Track

LEMMA LifeInit == Init => Life
<1> SUFFICES ASSUME Init PROVE Life
  OBVIOUS
<1>1. /\ phase = [c \in Calls |-> "unsaid"] /\ pipes = [s \in Sources |-> <<>>] /\ asks = <<>>
      /\ pending = {} /\ shown = [c \in Calls |-> "hidden"] /\ open = {} /\ done = FALSE
      /\ end = "running" /\ rows.kept = <<>> /\ rows.killed = [c \in Calls |-> 0] /\ core = "poll"
      /\ \A o \in Workers \cup {Hidden} : gate[o].running = {} /\ gate[o].queued = <<>>
  BY DEF Init
<1>2. ToSet(<<>>) = {} /\ IsInjective(<<>>)
  BY DEF ToSet, IsInjective
<1>10. View = shown
  BY <1>1 DEF View
<1>3. /\ \A c \in Calls : phase[c] = "unsaid" /\ View[c] = "hidden" /\ rows.killed[c] = 0
      /\ \A s \in Sources : DOMAIN pipes[s] = {}
      /\ "activity" \in Sources /\ "main" \in Sources
  BY <1>1, <1>10 DEF Sources
<1>4. Inner \subseteq Calls /\ Manager \subseteq Calls
  BY Owners
<1>5. AskInv /\ WorkerInv
  BY <1>1, <1>2, <1>3, <1>4 DEF AskInv, WorkerInv, InHand
<1>6. Once(pipes) /\ \A k, c : ~Due(pipes, k, c)
  BY <1>3 DEF Once, Due
<1>7. CallInv /\ DoneInv
  BY <1>1, <1>3, <1>4, <1>6 DEF CallInv, DoneInv, OnWay
<1>8. RowsInv
  BY <1>1, <1>2, <1>3 DEF RowsInv, KeptInv, KilledInv
<1>11. HandInv
  BY <1>1, <1>3, <1>10 DEF HandInv, Asked, Heard
<1>9. GateInv
  BY <1>1, <1>2, <1>3 DEF GateInv
<1> QED BY <1>5, <1>6, <1>7, <1>8, <1>9, <1>11, TypesInit DEF Life, Track

LEMMA LifeStep ==
    ASSUME Life, [Next]_vars
    PROVE  Life'
<1>1. Types' /\ Types
  BY TypesStep DEF Life
<1>2. CASE Request \/ Halt
  BY <1>1, <1>2, LifeRequest DEF Life
<1>3. ASSUME NEW c \in Calls, Dispatch(c) \/ Ask(c) \/ Return(c) PROVE Life'
  BY <1>1, <1>3, LifeDispatch, LifeAsk, LifeReturn DEF Life
<1>4. ASSUME NEW w \in Workers, WorkerTurn(w) \/ WorkerFails(w) PROVE Life'
  BY <1>1, <1>4, LifeWorkerTurn, LifeWorkerFails DEF Life
<1>5. CASE Settle \/ Tell \/ Check \/ Cut \/ CutEnd \/ Commit
  BY <1>1, <1>5, LifeSettle, LifeTell, LifeCheck, LifeCut, LifeCommit DEF Life
<1>6. ASSUME NEW s \in Sources, Take(s) PROVE Life'
  BY <1>1, <1>6, LifeTake DEF Life
<1>7. CASE HearAsk
  BY <1>1, <1>7, LifeHearAsk DEF Life
<1>8. phase \in [Calls -> Phases] /\ phase' \in [Calls -> Phases]
  <2>1. phase \in [Calls -> Phases]
    BY <1>1, Shapes
  <2>2. phase' \in [Calls -> Phases]
    BY <1>1 DEF Types, TypeOK, Phases
  <2> QED BY <2>1, <2>2
<1>9. CASE Answer
  <2>1. /\ UNCHANGED <<stage, pipes, loop, asks>> /\ pending' = pending \ {popup}
        /\ \E how \in {"freed", "refused"} :
              phase' = IF popup \in pending THEN [phase EXCEPT ![popup] = how] ELSE phase
    BY <1>9 DEF Answer
  <2>2. UNCHANGED <<core, hand, gate, open, done, shown, rows, end>>
    BY <2>1 DEF loop
  <2>3. \A c \in Calls : phase'[c] # phase[c] => c \in pending \ pending' /\ phase'[c] \in {"freed", "refused"}
    BY <1>8, <2>1
  <2> QED BY <1>1, <1>8, <2>1, <2>2, <2>3, LifeFreed DEF Life
<1>10. CASE Cancel
  <2>1. UNCHANGED <<stage, pipes, loop, asks>> /\ pending' = {}
        /\ phase' = [c \in Calls |-> IF c \in pending THEN "freed" ELSE phase[c]]
    BY <1>10 DEF Cancel
  <2>2. UNCHANGED <<core, hand, gate, open, done, shown, rows, end>>
    BY <2>1 DEF loop
  <2> QED BY <1>1, <1>8, <2>1, <2>2, LifeFreed DEF Life
<1>11. CASE Steer
  BY <1>1, <1>8, <1>11, LifeFreed DEF Steer, rig, loop, prompt, Life
<1>12. CASE Abort
  BY <1>1, <1>8, <1>12, LifeFreed DEF Abort, rig, Life
<1>13. CASE UNCHANGED vars
  BY <1>1, <1>8, <1>13, LifeFreed DEF vars, rig, loop, prompt, Life
<1> QED BY <1>2, <1>3, <1>4, <1>5, <1>6, <1>7, <1>9, <1>10, <1>11, <1>12, <1>13 DEF Next, Rig, Stream

\* A kept row counts its call once.
LEMMA CountOnce ==
    ASSUME NEW S, NEW q \in Seq(S), IsInjective(q), NEW c
    PROVE  Cardinality({i \in DOMAIN q : q[i] = c}) = IF c \in ToSet(q) THEN 1 ELSE 0
<1>1. CASE c \in ToSet(q)
  <2>1. PICK k \in DOMAIN q : q[k] = c
    BY <1>1 DEF ToSet
  <2>2. {i \in DOMAIN q : q[i] = c} = {k}
    BY <2>1 DEF IsInjective
  <2> QED BY <1>1, <2>2, FS_Singleton
<1>2. CASE c \notin ToSet(q)
  <2>1. {i \in DOMAIN q : q[i] = c} = {}
    BY <1>2 DEF ToSet
  <2> QED BY <1>2, <2>1, FS_EmptySet
<1> QED BY <1>1, <1>2

\* Every call the stream loop has heard of is on the reply's row when the run
\* is over, whatever ended it: with its result exactly once if that was
\* written, as killed if it was not settled, and no other way.  Both rows, or
\* two as killed, are left only by an abort that tore the loop behind the row
\* of a result, or inside the cut for a denial.
THEOREM RecordedOnceSafe == Spec => []RecordedOnce
<1>1. Life => RecordedOnce
  <2> SUFFICES ASSUME Life, end # "running", NEW c \in Calls
               PROVE  /\ Kept(c) = IF c \notin Workers /\ Written(c) THEN 1 ELSE 0
                      /\ IF Asked(c) /\ ~Heard(c)
                         THEN rows.killed[c] \in 1..(IF core = "cut" THEN 2 ELSE 1)
                         ELSE rows.killed[c] = 0
    BY DEF RecordedOnce
  <2>1. Types /\ CallInv /\ KeptInv /\ KilledInv /\ HandInv
    BY DEF Life, Track, RowsInv
  <2>2. c \in open <=> Asked(c) /\ ~Heard(c)
    BY <2>1, Shapes DEF CallInv, HandInv
  <2>3. IF Asked(c) /\ ~Heard(c)
        THEN rows.killed[c] \in 1..(IF core = "cut" THEN 2 ELSE 1)
        ELSE rows.killed[c] = 0
    <3>1. /\ c \notin open => rows.killed[c] = 0
          /\ c \in open => rows.killed[c] = 1 \/ (core = "cut" /\ rows.killed[c] = 2)
      BY <2>1 DEF KilledInv
    <3> QED BY <2>2, <3>1
  <2>4. c \in ToSet(rows.kept) <=> c \notin Workers /\ Written(c)
    BY <2>1 DEF KeptInv, HandInv, Written
  <2>5. rows.kept \in Seq(Calls) /\ IsInjective(rows.kept)
    BY <2>1, Shapes DEF KeptInv
  <2>6. Kept(c) = IF c \in ToSet(rows.kept) THEN 1 ELSE 0
    BY <2>5, CountOnce DEF Kept
  <2> QED BY <2>3, <2>4, <2>6
<1> QED BY <1>1, LifeInit, LifeStep, PTL DEF Spec

(***************************************************************************)
(* A steered prompt kills no call of the manager's                         *)
(***************************************************************************)
\* A step that leaves the main part, and opens nothing.
LEMMA MainStill ==
    ASSUME MainInOrder, Between, SteerKillsNothing,
           pipes'["main"] = pipes["main"], UNCHANGED <<stage, action>>,
           UNCHANGED <<open, core, hand>> \/ (core # "started" /\ open' \subseteq open),
           UNCHANGED <<rows, end>> \/ end' # "preempted"
    PROVE  MainInOrder' /\ Between' /\ SteerKillsNothing'
BY DEF MainInOrder, Between, SteerKillsNothing

LEMMA RigBoundaries ==
    ASSUME Boundaries, Rig
    PROVE  MainInOrder' /\ Between' /\ SteerKillsNothing'
<1>1. Types /\ Once(pipes) /\ MainInOrder /\ Between /\ SteerKillsNothing
  BY DEF Boundaries, Life, Track
<1>2. ASSUME UNCHANGED loop PROVE UNCHANGED <<action, open, rows, end, core, hand>>
  BY <1>2 DEF loop
<1>3. CASE Request \/ Halt
  <2>1. UNCHANGED <<action, open, rows, end, core, hand>>
    BY <1>2, <1>3 DEF Request, Halt
  <2>2. \/ stage' = "over" /\ \A i \in DOMAIN pipes'["main"] : pipes'["main"][i].kind # "start"
        \/ /\ stage = "request" /\ stage' = "tools"
           /\ \A i \in DOMAIN pipes'["main"] : pipes'["main"][i].kind = "start"
    BY <1>1, <1>3, Requests
  <2> QED BY <1>1, <2>1, <2>2 DEF MainInOrder, Between, SteerKillsNothing
<1>4. ASSUME NEW c \in Calls, Dispatch(c) \/ Ask(c) \/ Return(c)
      PROVE  MainInOrder' /\ Between' /\ SteerKillsNothing'
  <2>1. UNCHANGED <<stage, loop>> /\ (UNCHANGED pipes \/ Report("result", c))
    BY <1>4 DEF Dispatch, Ask, Return
  <2>2. pipes'["main"] = pipes["main"]
    BY <1>1, <2>1, ReportPuts
  <2> QED BY <1>1, <1>2, <2>1, <2>2, MainStill
<1>5. ASSUME NEW w \in Workers, WorkerTurn(w) \/ WorkerFails(w)
      PROVE  MainInOrder' /\ Between' /\ SteerKillsNothing'
  <2>1. UNCHANGED <<stage, loop>>
    BY <1>5 DEF WorkerTurn, WorkerFails
  <2>2. pipes'["main"] = pipes["main"]
    BY <1>1, <1>5, AnnouncePuts, FailPuts
  <2> QED BY <1>1, <1>2, <2>1, <2>2, MainStill
<1> QED BY <1>3, <1>4, <1>5 DEF Rig

\* An item of any part.  Where it lets a steered prompt cut in, the main
\* stream was between actions: behind a text nothing starts a call.
LEMMA TakeBoundaries ==
    ASSUME Boundaries, NEW s \in Sources, Take(s)
    PROVE  MainInOrder' /\ Between' /\ SteerKillsNothing'
<1> DEFINE e == Head(pipes[s])
<1>1. /\ Types /\ MainInOrder /\ Between /\ SteerKillsNothing /\ end = "running" /\ core = "poll"
      /\ \A c \in Calls : rows.killed[c] = 0
  <2>1. end = "running" /\ core = "poll" /\ Types /\ KilledInv
    BY DEF Take, Polled, Boundaries, Life, Track, RowsInv
  <2> QED BY <2>1 DEF KilledInv, Boundaries
<1>2. /\ Taken(pipes, s, pipes') /\ Typed(pipes) /\ Typed(pipes') /\ pipes[s] # <<>>
      /\ e \in Items /\ Fits(s, e) /\ e = pipes[s][1] /\ 1 \in DOMAIN pipes[s]
  BY <1>1, TakePipes
<1>3. /\ \A t \in Sources : ToSet(pipes'[t]) \subseteq ToSet(pipes[t])
      /\ \A t \in Sources \ {s} : pipes'[t] = pipes[t]
  <2>1. \A t \in Sources : ToSet(pipes'[t]) \subseteq ToSet(pipes[t])
    BY <1>2, Takes
  <2>2. \A t \in Sources \ {s} : pipes'[t] = pipes[t]
    BY <1>2 DEF Taken, Typed
  <2> QED BY <2>1, <2>2
<1>4. /\ UNCHANGED stage
      /\ \/ Boundary(e) /\ End("preempted", open) /\ UNCHANGED <<open, action, core>>
         \/ e.kind = "start" /\ Started(e.call)
         \/ e.kind = "result" /\ Finished(e.call)
         \/ e.kind = "text" /\ action' = "text" /\ UNCHANGED <<open, rows, end>>
         \/ e.kind = "done" /\ UNCHANGED <<open, action, rows, end>>
         \/ \E how \in {"failed", "cancelled"} : End(how, open) /\ UNCHANGED <<open, action>>
  BY DEF Take, rig
<1> HIDE DEF e
<1>5. e.kind = "text" => s = "main"
  BY <1>2 DEF Fits, Sources
<1>6. ASSUME action' = "text" => action = "text" \/ e.kind = "text"
      PROVE  MainInOrder'
  <2>1. e.kind = "text" => stage = "over"
    BY <1>1, <1>2, <1>5 DEF MainInOrder, Types, TypeOK
  <2>2. \A i \in DOMAIN pipes'["main"] : \E j \in DOMAIN pipes["main"] : pipes'["main"][i] = pipes["main"][j]
    BY <1>3 DEF ToSet, Sources
  <2>3. stage = "request" => pipes'["main"] = <<>>
    BY <1>1, <1>2, <1>3 DEF MainInOrder, Sources
  <2> QED BY <1>1, <1>4, <1>6, <2>1, <2>2, <2>3 DEF MainInOrder
<1>7. CASE Boundary(e) /\ End("preempted", open) /\ UNCHANGED <<open, action, core>>
  <2>1. open \cap Manager = {}
    <3>1. e.kind = "start" /\ e.call \in Manager => s = "main"
      BY <1>2, Owners DEF Fits, Sources
    <3>2. ~(action = "text" /\ e.kind = "start" /\ e.call \in Manager)
      BY <1>1, <1>2, <3>1 DEF MainInOrder, Types, TypeOK
    <3> QED BY <1>1, <1>7, <3>2 DEF Boundary, Between
  <2>2. SteerKillsNothing'
    BY <1>1, <1>7, <2>1, KilledRows, Owners DEF End, SteerKillsNothing
  <2> QED BY <1>1, <1>6, <1>7, <2>1, <2>2 DEF Between
<1>8. CASE e.kind = "start" /\ Started(e.call)
  <2>1. /\ open' = open \cup {e.call} /\ UNCHANGED <<rows, end, action>>
        /\ core' = "started" /\ hand' = e.call
    BY <1>8 DEF Started
  <2> QED BY <1>1, <1>6, <2>1 DEF Between, SteerKillsNothing
<1>9. CASE e.kind = "result" /\ Finished(e.call)
  <2>1. open' \subseteq open /\ UNCHANGED <<end, action>>
    BY <1>9 DEF Finished, Leave, StillOpen
  <2> QED BY <1>1, <1>6, <2>1 DEF Between, SteerKillsNothing
<1>10. CASE e.kind \in {"text", "done"} /\ UNCHANGED <<open, rows, end>>
            /\ (action' = action \/ (action' = "text" /\ e.kind = "text"))
  BY <1>1, <1>6, <1>10 DEF Between, SteerKillsNothing
<1>11. CASE \E how \in {"failed", "cancelled"} : End(how, open) /\ UNCHANGED <<open, action>>
  BY <1>1, <1>6, <1>11 DEF End, Between, SteerKillsNothing
<1> QED BY <1>4, <1>7, <1>8, <1>9, <1>10, <1>11

LEMMA BoundariesStep ==
    ASSUME Boundaries, [Next]_vars
    PROVE  Boundaries'
<1>1. Life' /\ Life /\ MainInOrder /\ Between /\ SteerKillsNothing
  BY LifeStep DEF Boundaries
<1> SUFFICES MainInOrder' /\ Between' /\ SteerKillsNothing'
  BY <1>1 DEF Boundaries
<1>2. CASE Rig
  BY <1>2, RigBoundaries
<1>3. ASSUME NEW s \in Sources, Take(s)
      PROVE  MainInOrder' /\ Between' /\ SteerKillsNothing'
  BY <1>3, TakeBoundaries
<1>4. CASE Check
  <2>1. UNCHANGED <<stage, pipes, open, action>> /\ end = "running" /\ core = "check"
    BY <1>4 DEF Check, rig
  <2>2. (SteerDue /\ End("preempted", open)) \/ UNCHANGED <<rows, end>>
    BY <1>4 DEF Check
  <2>3. CASE SteerDue /\ End("preempted", open)
    <3>1. open \cap Manager = {} /\ \A c \in Calls : rows.killed[c] = 0
      BY <1>1, <2>1, <2>3 DEF SteerDue, Between, Life, Track, RowsInv, KilledInv
    <3>2. SteerKillsNothing'
      BY <1>1, <2>3, <3>1, KilledRows, Owners DEF End, SteerKillsNothing, Life
    <3> QED BY <1>1, <2>1, <3>1, <3>2 DEF MainInOrder, Between
  <2>4. CASE UNCHANGED <<rows, end>>
    BY <1>1, <2>1, <2>4, MainStill
  <2> QED BY <2>2, <2>3, <2>4
<1>5. CASE Commit \/ Abort \/ Cut \/ CutEnd
  <2>1. UNCHANGED <<stage, pipes, open, action>> /\ end' # "preempted"
        /\ (UNCHANGED <<open, core, hand>> \/ core # "started")
    BY <1>5 DEF Commit, Abort, Cut, CutEnd, End, rig
  <2> QED BY <1>1, <2>1, MainStill
<1>6. CASE HearAsk \/ Answer \/ Cancel \/ Steer \/ UNCHANGED vars
  <2>1. UNCHANGED <<stage, action, open, rows, end, pipes, core, hand>>
    BY <1>6 DEF HearAsk, Answer, Cancel, Steer, vars, rig, loop
  <2> QED BY <1>1, <2>1, MainStill
<1>7. CASE Settle
  <2>1. UNCHANGED <<stage, pipes, action, rows, end>> /\ core # "started" /\ open' \subseteq open
    BY <1>7 DEF Settle, Leave, StillOpen, rig
  <2> QED BY <1>1, <2>1, MainStill
<1>8. CASE Tell
  <2>1. /\ UNCHANGED <<stage, pipes, open, rows, end>> /\ core' = "check"
        /\ core \in {"started", "settled"}
        /\ action' = action \/ action' = "tools" \/ (action' = "between" /\ Settled(open))
        /\ core = "started" /\ hand \in Manager => action' = "tools"
    BY <1>8 DEF Tell, rig
  <2>2. action' # "text" \/ action' = action
    BY <2>1
  <2> QED BY <1>1, <2>1, <2>2 DEF MainInOrder, Between, Settled, SteerKillsNothing
<1> QED BY <1>2, <1>3, <1>4, <1>5, <1>6, <1>7, <1>8 DEF Next, Stream

\* A turn that ends because a steered prompt cut in has killed no call of the
\* manager's: the prompt is only let in behind a settled batch, or before the
\* first item of the next action.
THEOREM SteerKillsNothingSafe == Spec => []SteerKillsNothing
<1>1. Init => Boundaries
  BY LifeInit DEF Init, Boundaries, MainInOrder, Between, SteerKillsNothing, Sources
<1>2. Boundaries => SteerKillsNothing
  BY DEF Boundaries
<1> QED BY <1>1, <1>2, BoundariesStep, PTL DEF Spec

(***************************************************************************)
(* The order of the batch                                                  *)
(***************************************************************************)
\* What comes before a call of the manager's.
LEMMA Order ==
    /\ \A n \in DOMAIN Batch : Earlier(Batch[n]) = {Batch[i] : i \in 1..(n - 1)}
    /\ \A c \in Manager : Earlier(c) \subseteq Manager /\ IsFiniteSet(Earlier(c)) /\ c \notin Earlier(c)
    /\ \A c, d \in Manager : /\ c = d \/ c \in Earlier(d) \/ d \in Earlier(c)
                             /\ ~(c \in Earlier(d) /\ d \in Earlier(c))
<1>1. DOMAIN Batch = 1..Len(Batch) /\ Len(Batch) \in Nat
  BY ToolBatchAssumption
<1>2. \A c \in Manager : \E n \in DOMAIN Batch : c = Batch[n]
  BY DEF Manager
<1>3. ASSUME NEW n \in DOMAIN Batch
      PROVE  Earlier(Batch[n]) = {Batch[i] : i \in 1..(n - 1)}
  <2>1. Batch[n] \in Manager
    BY DEF Manager
  <2>2. Earlier(Batch[n]) = {Batch[i] : i \in {j \in DOMAIN Batch : \A k \in 1..j : Batch[k] # Batch[n]}}
    BY <2>1 DEF Earlier, Siblings
  <2>3. ASSUME NEW j \in DOMAIN Batch
        PROVE  (\A k \in 1..j : Batch[k] # Batch[n]) <=> j \in 1..(n - 1)
    <3>1. ASSUME j \in 1..(n - 1), NEW k \in 1..j PROVE Batch[k] # Batch[n]
      <4>1. k \in DOMAIN Batch /\ k # n
        BY <1>1, <3>1
      <4> QED BY <4>1, ToolBatchAssumption DEF IsInjective
    <3>2. ASSUME j \notin 1..(n - 1) PROVE \E k \in 1..j : Batch[k] = Batch[n]
      <4>1. n \in 1..j
        BY <1>1, <3>2
      <4> QED BY <4>1
    <3> QED BY <3>1, <3>2
  <2>4. {j \in DOMAIN Batch : \A k \in 1..j : Batch[k] # Batch[n]} = 1..(n - 1)
    <3>1. 1..(n - 1) \subseteq DOMAIN Batch
      BY <1>1
    <3> QED BY <2>3, <3>1
  <2> QED BY <2>2, <2>4
<1>4. ASSUME NEW n \in DOMAIN Batch
      PROVE  IsFiniteSet(Earlier(Batch[n]))
  <2>1. IsFiniteSet(ToSet(Batch))
    BY MembersFinite, ToolBatchAssumption
  <2>2. Earlier(Batch[n]) \subseteq ToSet(Batch)
    BY <1>1, <1>3 DEF ToSet
  <2> QED BY <2>1, <2>2, FS_Subset
<1>5. \A n \in DOMAIN Batch : \A m \in DOMAIN Batch : Batch[m] \in Earlier(Batch[n]) <=> m < n
  <2> SUFFICES ASSUME NEW n \in DOMAIN Batch, NEW m \in DOMAIN Batch
               PROVE  Batch[m] \in Earlier(Batch[n]) <=> m < n
    OBVIOUS
  <2>1. Batch[m] \in Earlier(Batch[n]) <=> \E i \in 1..(n - 1) : Batch[i] = Batch[m]
    BY <1>3
  <2>2. m \in 1..(n - 1) <=> m < n
    BY <1>1
  <2>3. \A i \in 1..(n - 1) : Batch[i] = Batch[m] => i = m
    BY <1>1, ToolBatchAssumption DEF IsInjective
  <2> QED BY <2>1, <2>2, <2>3
<1>6. \A n \in DOMAIN Batch : Earlier(Batch[n]) \subseteq Manager
  BY <1>1, <1>3 DEF Manager
<1>7. \A c \in Manager : Earlier(c) \subseteq Manager /\ IsFiniteSet(Earlier(c)) /\ c \notin Earlier(c)
  BY <1>1, <1>2, <1>4, <1>5, <1>6
<1>8. ASSUME NEW c \in Manager, NEW d \in Manager
      PROVE  /\ c = d \/ c \in Earlier(d) \/ d \in Earlier(c)
             /\ ~(c \in Earlier(d) /\ d \in Earlier(c))
  <2>1. PICK m \in DOMAIN Batch : c = Batch[m]
    BY <1>2
  <2>2. PICK n \in DOMAIN Batch : d = Batch[n]
    BY <1>2
  <2>3. m \in Int /\ n \in Int /\ (m = n \/ m < n \/ n < m) /\ ~(m < n /\ n < m)
    BY <1>1
  <2> QED BY <1>5, <2>1, <2>2, <2>3
<1> QED BY <1>3, <1>7, <1>8

(***************************************************************************)
(* Slots                                                                   *)
(***************************************************************************)
Slotted == HeardInv /\ OrderInv /\ SlotsInv /\ BehindInv

LEMMA HiddenGate ==
    ASSUME Life
    PROVE  /\ GateTyped(gate[Hidden]) /\ gate[Hidden].queued \in Seq(Calls)
           /\ gate[Hidden].running \subseteq Calls
           /\ \A d : d \in gate[Hidden].running => d \in Manager /\ View[d] = "running"
           /\ \A d : d \in ToSet(gate[Hidden].queued) => d \in Manager /\ View[d] = "waiting"
           /\ IsInjective(gate[Hidden].queued)
           /\ \A d \in Manager : /\ View[d] = "running" => d \in gate[Hidden].running
                                 /\ View[d] = "waiting" => d \in ToSet(gate[Hidden].queued)
<1>1. TypeOK /\ GateInv
  BY DEF Life, Types, Track
<1>2. GateTyped(gate[Hidden]) /\ gate[Hidden] \in Gates
  BY <1>1, GatesTyped
<1>3. gate[Hidden].running \subseteq Calls /\ gate[Hidden].queued \in Seq(Calls)
  BY <1>2 DEF Gates
<1>4. ToSet(gate[Hidden].queued) \subseteq Calls
  BY <1>3 DEF ToSet
<1>5. \A d \in Calls : Owner(d) = Hidden <=> d \in Manager
  BY Owners
<1> QED BY <1>1, <1>2, <1>3, <1>4, <1>5, Owners DEF GateInv

\* What the screen says of the manager's calls comes of how the gate has them.
LEMMA ShownInSlots ==
    ASSUME InSlots
    PROVE  ShownTrue
<1>1. /\ Types /\ CallInv /\ OrderInv /\ SlotsInv /\ HandInv /\ BehindInv
      /\ core \in {"started", "settled"} => hand \in Calls
  BY DEF InSlots, Life, Track, Types, HandHeld, Handled
<1> DEFINE g == gate[Hidden]
           run == g.running
<1>2. /\ IsFiniteSet(run) /\ Cardinality(run) <= Slots /\ Cardinality(run) \in Nat /\ Slots \in Nat
      /\ \A d : d \in run => d \in Manager /\ View[d] = "running"
      /\ \A d \in Manager : /\ View[d] = "running" => d \in run
                            /\ View[d] = "waiting" => d \in ToSet(g.queued)
  <2>1. GateTyped(g)
    BY HiddenGate DEF InSlots
  <2> QED BY <2>1, HiddenGate, FS_CardinalityType, ToolBatchAssumption DEF GateTyped, InSlots
<1>3. \A d : d \in ToSet(g.queued) => Cardinality(run) = Slots /\ run \subseteq Earlier(d)
  BY <1>1 DEF SlotsInv, ToSet
<1> HIDE DEF g, run
<1> SUFFICES ASSUME end = "running", NEW c \in Manager,
                    NEW out, out = {d \in Earlier(c) : phase[d] # "back"}
             PROVE  /\ shown[c] = "running" => phase[c] # "said" \/ Cardinality(out) < Slots
                    /\ shown[c] = "waiting" =>
                           Cardinality(out \cup {d \in Earlier(c) : Reported(d)}) >= Slots
  BY DEF ShownTrue
<1>4. IsFiniteSet(Earlier(c)) /\ Earlier(c) \subseteq Manager /\ Manager \subseteq Calls
  BY Order, Owners
<1>5. ASSUME View[c] = "running" PROVE Cardinality(out) < Slots
  <2>1. c \in run
    BY <1>2, <1>5
  <2>2. ASSUME NEW d \in out PROVE d \in run \ {c}
    <3>1. d \in Manager /\ d # c /\ phase[d] # "back" /\ d \in Earlier(c) /\ d \in Calls
      BY <1>4, Order
    <3>2. View[d] \in {"waiting", "running"}
      <4>1. View[d] # "hidden"
        BY <1>1, <1>5, <3>1 DEF OrderInv
      <4>2. View[d] # "finished"
        BY <1>1, <3>1 DEF CallInv
      <4> QED BY <1>1, <3>1, <4>1, <4>2, Shapes
    <3>3. View[d] # "waiting"
      <4> SUFFICES ASSUME View[d] = "waiting" PROVE FALSE
        OBVIOUS
      <4>1. c \in Earlier(d)
        BY <1>2, <1>3, <2>1, <3>1
      <4> QED BY <3>1, <4>1, Order
    <3> QED BY <1>2, <3>1, <3>2, <3>3
  <2> DEFINE rest == run \ {c}
  <2>3. IsFiniteSet(rest) /\ Cardinality(rest) = Cardinality(run) - 1
    BY <1>2, <2>1, FS_RemoveElement
  <2> HIDE DEF rest
  <2>4. out \subseteq rest
    BY <2>2 DEF rest
  <2>5. IsFiniteSet(out) /\ Cardinality(out) <= Cardinality(rest) /\ Cardinality(out) \in Nat
    BY <2>3, <2>4, FS_Subset, FS_CardinalityType
  <2> QED BY <1>2, <2>3, <2>5
<1>6. \A d \in Calls : /\ View[d] = "running" /\ phase[d] = "back" => Reported(d)
                       /\ core = "settled" /\ d = hand => Reported(d)
  <2>1. \A d \in Calls : OnWay(d) => Reported(d)
    BY DEF OnWay, Reported, Due
  <2> QED BY <1>1, <2>1 DEF CallInv, Reported
<1> DEFINE u == out \cup {d \in Earlier(c) : Reported(d)}
<1>7. IsFiniteSet(u) /\ Cardinality(u) \in Nat
  <2>1. u \subseteq Earlier(c)
    OBVIOUS
  <2> HIDE DEF u
  <2> QED BY <1>4, <2>1, FS_Subset, FS_CardinalityType
<1>8. ASSUME NEW b, b \subseteq Earlier(c), Cardinality(b) >= Slots,
             \A d \in b : View[d] = "running" \/ (core = "settled" /\ d = hand)
      PROVE  Cardinality(u) >= Slots
  <2>1. b \subseteq u
    <3> SUFFICES ASSUME NEW d \in b PROVE d \in u
      OBVIOUS
    <3>1. d \in Earlier(c) /\ d \in Calls /\ (View[d] = "running" \/ (core = "settled" /\ d = hand))
      BY <1>4, <1>8
    <3> QED BY <1>6, <3>1
  <2> HIDE DEF u
  <2>2. Cardinality(b) <= Cardinality(u) /\ Cardinality(b) \in Nat
    BY <1>7, <2>1, FS_Subset, FS_CardinalityType
  <2> QED BY <1>2, <1>7, <1>8, <2>2
<1> HIDE DEF u
<1>9. ASSUME shown[c] = "running" PROVE phase[c] # "said" \/ Cardinality(out) < Slots
  <2>1. View[c] = "running" \/ View[c] = "finished"
    <3>1. CASE core = "started"
      <4>1. c # hand
        BY <1>1, <1>9, <3>1 DEF HandInv
      <4> QED BY <1>1, <1>4, <1>9, <3>1, <4>1, ViewIs
    <3>2. CASE core = "settled"
      BY <1>1, <1>4, <1>9, <3>2, ViewIs DEF HandInv
    <3>3. CASE core \notin {"started", "settled"}
      BY <1>1, <1>9, <3>3, ViewIs
    <3> QED BY <3>1, <3>2, <3>3
  <2>2. View[c] = "finished" => phase[c] = "back"
    BY <1>1, <1>4 DEF CallInv
  <2> QED BY <1>5, <2>1, <2>2
<1>10. ASSUME shown[c] = "waiting" PROVE Cardinality(u) >= Slots
  <2>1. CASE core = "settled"
    <3> DEFINE b == {d \in Earlier(c) : View[d] = "running" \/ d = hand}
    <3>1. Cardinality(b) >= Slots
      BY <1>1, <1>10, <2>1 DEF BehindInv
    <3>2. b \subseteq Earlier(c) /\ \A d \in b : View[d] = "running" \/ (core = "settled" /\ d = hand)
      BY <2>1
    <3> HIDE DEF b
    <3> QED BY <1>8, <3>1, <3>2
  <2>2. CASE core # "settled"
    <3>1. View[c] = "waiting"
      <4>1. core = "started" => c # hand
        BY <1>1, <1>10 DEF HandInv
      <4> QED BY <1>1, <1>4, <1>10, <2>2, <4>1, ViewIs
    <3>2. Cardinality(run) >= Slots /\ run \subseteq Earlier(c)
      BY <1>2, <1>3, <3>1
    <3> QED BY <1>2, <1>8, <3>2
  <2> QED BY <2>1, <2>2
<1> QED BY <1>9, <1>10 DEF u

LEMMA SlottedStill ==
    ASSUME Slotted, UNCHANGED <<gate, View>>, pipes'["main"] = pipes["main"],
           core' # "settled" \/ UNCHANGED <<core, hand, shown>>,
           end' = end \/ end' # "running",
           \A c \in Manager : /\ Due(pipes, "start", c) => Due(pipes', "start", c)
                              /\ phase'[c] = phase[c] \/ phase[c] \notin {"unsaid", "said"} \/ View[c] # "hidden"
    PROVE  Slotted'
<1>1. OrderInv' /\ SlotsInv'
  BY DEF Slotted, OrderInv, SlotsInv
<1>2. HeardInv'
  BY DEF Slotted, HeardInv
<1>3. BehindInv'
  BY DEF Slotted, BehindInv
<1> QED BY <1>1, <1>2, <1>3 DEF Slotted

LEMMA SlottedRequest ==
    ASSUME InSlots, Request \/ Halt
    PROVE  Slotted'
<1> DEFINE m == pipes'["main"]
<1>1. Types /\ HeardInv /\ OrderInv /\ SlotsInv /\ Typed(pipes) /\ "main" \in Sources /\ Manager \subseteq Calls
  BY Shapes, Owners DEF InSlots, Life
<1>2. UNCHANGED <<gate, View, end>> /\ end = "running" /\ BehindInv'
  <2>1. UNCHANGED loop /\ end = "running" /\ core = "poll"
    BY DEF Request, Halt, Polled
  <2> QED BY <2>1, LoopStays DEF BehindInv
<1>3. \/ phase' = phase /\ m = <<Item("stop", Hidden)>>
      \/ /\ m = [i \in DOMAIN Batch |-> Item("start", Batch[i])]
         /\ phase' = [c \in Calls |-> IF c \in Manager THEN "said" ELSE phase[c]]
      \/ /\ phase' = phase /\ pipes["main"] = <<>>
         /\ \E last \in {"done", "fail"} : m = <<Item("text", Hidden), Item(last, Hidden)>>
  BY <1>1 DEF Request, Halt, Typed
<1>4. SlotsInv'
  BY <1>1, <1>2 DEF SlotsInv
<1>5. \A c \in Manager : View[c] # "hidden" => \A d \in Earlier(c) : View[d] # "hidden"
  BY <1>1 DEF OrderInv
<1>6. CASE phase' = phase /\ m = <<Item("stop", Hidden)>>
  <2>1. DOMAIN m = {1} /\ m[1].kind = "stop"
    BY <1>6 DEF Item
  <2> HIDE DEF m
  <2>2. OrderInv' /\ HeardInv'
    BY <1>1, <1>2, <1>5, <1>6, <2>1 DEF OrderInv, HeardInv, m
  <2> QED BY <1>2, <1>4, <2>2 DEF Slotted
<1>7. CASE /\ m = [i \in DOMAIN Batch |-> Item("start", Batch[i])]
           /\ phase' = [c \in Calls |-> IF c \in Manager THEN "said" ELSE phase[c]]
  <2>1. DOMAIN m = DOMAIN Batch /\ \A i \in DOMAIN m : m[i] = Item("start", Batch[i]) /\ m[i].call = Batch[i]
    BY <1>7 DEF Item
  <2>2. DOMAIN Batch = 1..Len(Batch) /\ Len(Batch) \in Nat
    BY ToolBatchAssumption
  <2> HIDE DEF m
  <2>3. ASSUME NEW i \in DOMAIN m, NEW d \in Earlier(m[i].call)
        PROVE  \E k \in 1..(i - 1) : m[k] = Item("start", d)
    <3>1. PICK k \in 1..(i - 1) : d = Batch[k]
      BY <2>1, <2>3, Order
    <3>2. k \in DOMAIN m
      BY <2>1, <2>2
    <3> QED BY <2>1, <3>1, <3>2
  <2>4. OrderInv'
    BY <1>2, <1>5, <2>3 DEF OrderInv, m
  <2>5. ASSUME NEW c \in Manager
        PROVE  phase'[c] = "said" /\ Due(pipes', "start", c)
    <3>1. \E i \in DOMAIN m : m[i] = Item("start", c)
      BY <2>1 DEF Manager
    <3> QED BY <1>1, <1>7, <3>1 DEF Due, m
  <2>6. HeardInv'
    BY <2>5 DEF HeardInv
  <2> QED BY <1>2, <1>4, <2>4, <2>6 DEF Slotted
<1>8. CASE /\ phase' = phase /\ pipes["main"] = <<>>
           /\ \E last \in {"done", "fail"} : m = <<Item("text", Hidden), Item(last, Hidden)>>
  <2>1. PICK last \in {"done", "fail"} : m = <<Item("text", Hidden), Item(last, Hidden)>>
    BY <1>8
  <2>2. DOMAIN m = {1, 2} /\ m[1].kind = "text" /\ m[2].kind = last
    BY <2>1 DEF Item
  <2> HIDE DEF m
  <2>3. \A c \in Manager : ~Due(pipes, "start", c)
    <3>1. \A c \in Manager : Due(pipes, "start", c) => Item("start", c) \in ToSet(pipes["main"])
      BY <1>1, DueWhere
    <3> QED BY <1>8, <3>1 DEF ToSet
  <2>4. HeardInv'
    BY <1>1, <1>2, <1>8, <2>3 DEF HeardInv
  <2>5. OrderInv'
    BY <1>2, <1>5, <2>2 DEF OrderInv, m
  <2> QED BY <1>2, <1>4, <2>4, <2>5 DEF Slotted
<1> QED BY <1>3, <1>6, <1>7, <1>8

\* A call that is announced comes behind the ones that are in the gate.
LEMMA SlotsStarted ==
    ASSUME InSlots, Polled, NEW c \in Calls, Started(c), View[c] = "hidden",
           c \in Manager => \A d \in Earlier(c) : View[d] # "hidden"
    PROVE  /\ SlotsInv' /\ View'[c] # "hidden" /\ \A d \in Calls \ {c} : View'[d] = View[d]
<1> DEFINE g == gate[Hidden]
           h == gate'[Hidden]
<1>1. Types /\ TypeOK /\ OrderInv /\ SlotsInv /\ Life
  BY DEF InSlots, Life, Types
<1>2. /\ \A p \in (Workers \cup {Hidden}) \ {Owner(c)} : gate'[p] = gate[p]
      /\ gate'[Owner(c)] = GateStart(c) /\ Owner(c) \in Workers \cup {Hidden}
      /\ GateTyped(gate[Owner(c)])
  BY <1>1, StartedGate, GatesTyped
<1>3. View' = [View EXCEPT ![c] = Told(gate'[Owner(c)], c)]
  BY DEF Started, Polled, View, Told
<1>4. View'[c] # "hidden" /\ \A d \in Calls \ {c} : View'[d] = View[d]
  <2>1. gate[Owner(c)].queued \in Seq(Calls)
    BY <1>2 DEF GateTyped, Gates
  <2>2. c \in ToSet(Append(gate[Owner(c)].queued, c))
    BY <2>1, Joins
  <2>3. c \in GateStart(c).running \/ c \in ToSet(GateStart(c).queued)
    BY <1>2, <2>2, GateStarts
  <2>4. Told(gate'[Owner(c)], c) \in {"running", "waiting"}
    BY <1>2, <2>3 DEF Told
  <2> QED BY <1>1, <1>3, <2>4, Shapes
<1>5. CASE c \notin Manager
  <2>1. Owner(c) # Hidden
    BY <1>5, Owners
  <2>2. h = g
    BY <1>2, <2>1
  <2> QED BY <1>1, <1>4, <2>2 DEF SlotsInv
<1>6. CASE c \in Manager
  <2>1. Owner(c) = Hidden
    BY <1>6, Owners
  <2>2. /\ GateTyped(g) /\ g.queued \in Seq(Calls) /\ IsInjective(g.queued)
        /\ \A d : d \in g.running => d \in Manager /\ View[d] = "running"
        /\ \A d : d \in ToSet(g.queued) => d \in Manager /\ View[d] = "waiting"
    BY <1>1, HiddenGate
  <2>3. \/ Cardinality(g.running) < Slots /\ h.running = g.running \cup {c} /\ h.queued = g.queued
        \/ Cardinality(g.running) = Slots /\ h.running = g.running /\ h.queued = Append(g.queued, c)
    BY <1>2, <2>1, GateStarts
  <2>4. \A d : d \in g.running \/ d \in ToSet(g.queued) => d \in Earlier(c)
    <3> SUFFICES ASSUME NEW d, d \in Manager, View[d] # "hidden" PROVE d \in Earlier(c)
      BY <2>2
    <3>1. d # c /\ c \notin Earlier(d)
      BY <1>1 DEF OrderInv
    <3> QED BY <1>6, <3>1, Order
  <2>5. g.queued # <<>> => Cardinality(g.running) = Slots
    BY <1>1 DEF SlotsInv
  <2>6. \A i \in DOMAIN g.queued : /\ g.running \subseteq Earlier(g.queued[i])
                                   /\ \A j \in 1..(i - 1) : g.queued[j] \in Earlier(g.queued[i])
    BY <1>1 DEF SlotsInv
  <2>7. Cardinality(g.running) \in Nat /\ Slots \in Nat
    BY <2>2, FS_CardinalityType, ToolBatchAssumption DEF GateTyped
  <2> HIDE DEF g, h
  <2>8. CASE Cardinality(g.running) < Slots /\ h.running = g.running \cup {c} /\ h.queued = g.queued
    <3>1. g.queued = <<>>
      BY <2>5, <2>7, <2>8
    <3> QED BY <1>4, <2>8, <3>1 DEF SlotsInv, h
  <2>9. CASE Cardinality(g.running) = Slots /\ h.running = g.running /\ h.queued = Append(g.queued, c)
    <3> DEFINE n == Len(g.queued) + 1
    <3>1. /\ DOMAIN h.queued = 1..n /\ DOMAIN g.queued = 1..Len(g.queued) /\ Len(g.queued) \in Nat
          /\ h.queued[n] = c /\ \A i \in DOMAIN g.queued : h.queued[i] = g.queued[i]
      BY <2>2, <2>9, Joins
    <3>2. ASSUME NEW i \in DOMAIN h.queued
          PROVE  /\ h.running \subseteq Earlier(h.queued[i])
                 /\ \A j \in 1..(i - 1) : h.queued[j] \in Earlier(h.queued[i])
      <4>1. CASE i \in DOMAIN g.queued
        <5>1. \A j \in 1..(i - 1) : j \in DOMAIN g.queued
          BY <3>1, <4>1
        <5> QED BY <2>6, <2>9, <3>1, <4>1, <5>1
      <4>2. CASE i = n
        <5>1. \A j \in 1..(i - 1) : j \in DOMAIN g.queued
          BY <3>1, <4>2
        <5>2. \A j \in 1..(i - 1) : h.queued[j] \in ToSet(g.queued)
          BY <3>1, <5>1 DEF ToSet
        <5>3. h.queued[i] = c
          BY <3>1, <4>2
        <5> QED BY <2>4, <2>9, <5>2, <5>3
      <4>3. i \in DOMAIN g.queued \/ i = n
        BY <3>1
      <4> QED BY <4>1, <4>2, <4>3
    <3>3. Cardinality(h.running) = Slots
      BY <2>9
    <3>4. SlotsInv'
      BY <3>2, <3>3 DEF SlotsInv, h
    <3> QED BY <1>4, <3>4
  <2> QED BY <2>3, <2>8, <2>9
<1> QED BY <1>5, <1>6

\* A call that is back lets the first that waits in: the rest stay behind it.
LEMMA SlotsLeave ==
    ASSUME InSlots, NEW c \in Calls, Leave(c), hand' = c, core \in {"poll", "written"}, GateInv'
    PROVE  /\ SlotsInv' /\ BehindInv' /\ View'[c] = "finished"
           /\ \A d \in Calls \ {c} : View'[d] = "hidden" <=> View[d] = "hidden"
<1> DEFINE o == Owner(c)
           g == gate[Hidden]
           h == gate'[Hidden]
           r == g.running \ {c}
           q == Without(g.queued, c)
<1>1. Types /\ TypeOK /\ SlotsInv /\ Life /\ GateInv
  BY DEF InSlots, Life, Track, Types
<1>2. /\ \A p \in (Workers \cup {Hidden}) \ {o} : gate'[p] = gate[p]
      /\ gate'[o] = GateSettle(c) /\ o \in Workers \cup {Hidden}
      /\ GateTyped(gate[o]) /\ gate[o].queued \in Seq(Calls)
  <2>1. GateTyped(gate[o])
    BY <1>1, GatesTyped
  <2> QED BY <1>1, <2>1, LeaveGate DEF GateTyped, Gates
<1>3. View' = [d \in Calls |->
             IF d = c THEN "finished"
             ELSE IF Owner(d) = o THEN Told(gate'[o], d) ELSE View[d]]
  BY DEF Leave, View, Told
<1>4. View'[c] = "finished" /\ \A d \in Calls \ {c} : View'[d] = "hidden" <=> View[d] = "hidden"
  <2> DEFINE f == gate[o]
             k == GateSettle(c)
             t == Without(f.queued, c)
  <2>1. /\ t \in Seq(Calls)
        /\ \/ k.running = f.running \ {c} /\ k.queued = t
           \/ t # <<>> /\ k.running = (f.running \ {c}) \cup {Head(t)} /\ k.queued = Tail(t)
    BY <1>2, GateSettles
  <2>2. IsInjective(f.queued) /\ \A d \in f.running \cup ToSet(f.queued) : View[d] # "hidden"
    BY <1>1, <1>2 DEF GateInv
  <2>3. ToSet(t) = ToSet(f.queued) \ {c}
    BY <1>2, <2>2, WithoutIs
  <2>4. t # <<>> => ToSet(t) = ToSet(Tail(t)) \cup {Head(t)}
    BY <2>1, Leads
  <2> HIDE DEF f, k, t
  <2>5. \A d : d \in k.running \/ d \in ToSet(k.queued) => View[d] # "hidden"
    BY <2>1, <2>2, <2>3, <2>4
  <2>6. \A d \in Calls : Told(k, d) = "hidden" <=> View[d] = "hidden"
    <3>1. View = shown
      BY DEF View
    <3> QED BY <2>5, <3>1 DEF Told
  <2> QED BY <1>2, <1>3, <2>6 DEF k
<1>7. BehindInv'
  <2> SUFFICES ASSUME NEW d \in Manager, shown'[d] = "waiting"
               PROVE  Cardinality({x \in Earlier(d) : View'[x] = "running" \/ x = c}) >= Slots
    BY DEF BehindInv
  <2> DEFINE b == {x \in Earlier(d) : View'[x] = "running" \/ x = c}
  <2>1. shown' = shown /\ View = shown
    BY DEF Leave, View
  <2>2. d \in ToSet(g.queued)
    BY <1>1, <2>1, HiddenGate
  <2>3. Cardinality(g.running) = Slots /\ g.running \subseteq Earlier(d)
    BY <1>1, <2>2 DEF SlotsInv, ToSet
  <2>4. \A x \in g.running : x \in Manager /\ x \in Calls /\ View[x] = "running"
    BY <1>1, HiddenGate, Owners
  <2>5. ASSUME NEW x \in g.running, x # c PROVE View'[x] = "running"
    <3>1. x \in gate'[Hidden].running
      <4>1. CASE o = Hidden
        <5>1. \/ GateSettle(c).running = gate[o].running \ {c}
              \/ \E f : GateSettle(c).running = (gate[o].running \ {c}) \cup {f}
          BY <1>2, GateSettles
        <5>2. x \in gate[o].running \ {c} /\ gate'[o].running = GateSettle(c).running
          BY <1>2, <2>5, <4>1
        <5> HIDE DEF o
        <5> QED BY <4>1, <5>1, <5>2
      <4>2. CASE o # Hidden
        BY <1>2, <4>2
      <4> QED BY <4>1, <4>2
    <3> QED BY <3>1 DEF GateInv
  <2>6. g.running \subseteq b
    BY <2>3, <2>5
  <2>7. IsFiniteSet(b)
    <3>1. b \subseteq Earlier(d) /\ IsFiniteSet(Earlier(d))
      BY Order
    <3> HIDE DEF b
    <3> QED BY <3>1, FS_Subset
  <2> HIDE DEF b
  <2>8. Cardinality(g.running) <= Cardinality(b) /\ Cardinality(b) \in Nat /\ Slots \in Nat
    BY <2>6, <2>7, FS_Subset, FS_CardinalityType, ToolBatchAssumption
  <2>9. Cardinality(b) >= Slots
    BY <2>3, <2>8
  <2> QED BY <2>9 DEF b
<1>5. CASE c \notin Manager
  <2>1. o # Hidden
    BY <1>5, Owners
  <2>2. h = g
    BY <1>2, <2>1
  <2> QED BY <1>1, <1>4, <1>7, <2>2 DEF SlotsInv
<1>6. CASE c \in Manager
  <2>1. o = Hidden
    BY <1>6, Owners
  <2>2. /\ GateTyped(g) /\ g.queued \in Seq(Calls) /\ IsInjective(g.queued)
        /\ \A d : d \in g.running => View[d] = "running"
        /\ \A d : d \in ToSet(g.queued) => View[d] = "waiting"
    BY <1>1, HiddenGate
  <2>3. /\ q \in Seq(Calls) /\ GateTyped(h)
        /\ \/ (q = <<>> \/ Cardinality(r) >= Slots) /\ h.running = r /\ h.queued = q
           \/ q # <<>> /\ Cardinality(r) < Slots /\ h.running = r \cup {Head(q)} /\ h.queued = Tail(q)
    BY <1>2, <2>1, GateSettles
  <2>4. /\ ToSet(q) = ToSet(g.queued) \ {c} /\ IsInjective(q)
        /\ \A i, j \in DOMAIN q : i < j =>
              \E m, n \in DOMAIN g.queued : m < n /\ q[i] = g.queued[m] /\ q[j] = g.queued[n]
    <3> DEFINE f == g.queued
    <3>1. f \in Seq(Calls) /\ IsInjective(f) /\ q = Without(f, c)
      BY <2>2
    <3> HIDE DEF f, q
    <3>2. /\ ToSet(q) = ToSet(f) \ {c} /\ IsInjective(q)
          /\ \A i, j \in DOMAIN q : i < j => \E m, n \in DOMAIN f : m < n /\ q[i] = f[m] /\ q[j] = f[n]
      BY <3>1, WithoutIs
    <3> QED BY <3>2 DEF f
  <2>5. /\ g.queued # <<>> => Cardinality(g.running) = Slots
        /\ \A i \in DOMAIN g.queued : /\ g.running \subseteq Earlier(g.queued[i])
                                      /\ \A j \in 1..(i - 1) : g.queued[j] \in Earlier(g.queued[i])
    BY <1>1 DEF SlotsInv
  <2>6. /\ IsFiniteSet(g.running) /\ Cardinality(g.running) \in Nat /\ Slots \in Nat
        /\ Cardinality(r) \in Nat /\ IsFiniteSet(r) /\ Cardinality(r) <= Cardinality(g.running)
        /\ c \notin g.running => r = g.running
        /\ c \in g.running => Cardinality(r) = Cardinality(g.running) - 1
        /\ Cardinality(h.running) <= Slots /\ Cardinality(g.running) <= Slots
    <3>1. IsFiniteSet(g.running) /\ Cardinality(g.running) <= Slots /\ Cardinality(h.running) <= Slots
      BY <2>2, <2>3 DEF GateTyped
    <3>2. IsFiniteSet(r) /\ Cardinality(r) <= Cardinality(g.running)
      BY <3>1, FS_Subset
    <3>3. c \in g.running => Cardinality(r) = Cardinality(g.running) - 1
      BY <3>1, FS_RemoveElement
    <3> QED BY <3>1, <3>2, <3>3, FS_CardinalityType, ToolBatchAssumption
  <2>7. \A d \in ToSet(q) : g.running \subseteq Earlier(d) /\ d \notin g.running
    BY <2>2, <2>4, <2>5 DEF ToSet
  <2>8. q \in Seq(Calls) /\ DOMAIN q = 1..Len(q) /\ Len(q) \in Nat
    BY <2>3
  <2>9. g.queued \in Seq(Calls) /\ DOMAIN g.queued = 1..Len(g.queued) /\ Len(g.queued) \in Nat
    BY <2>2
  <2>10. q # <<>> => Cardinality(g.running) = Slots
    <3>1. q # <<>> => 1 \in DOMAIN q
      BY <2>8
    <3>2. q # <<>> => g.queued # <<>>
      <4> SUFFICES ASSUME q # <<>>, g.queued = <<>> PROVE FALSE
        OBVIOUS
      <4>1. q[1] \in ToSet(q)
        BY <3>1 DEF ToSet
      <4>2. q[1] \in ToSet(g.queued)
        BY <2>4, <4>1
      <4>3. ToSet(<<>>) = {}
        BY DEF ToSet
      <4> QED BY <4>2, <4>3
    <3> QED BY <2>5, <3>2
  <2>11. \A i, j \in DOMAIN q : i < j => q[i] \in Earlier(q[j])
    <3> SUFFICES ASSUME NEW i \in DOMAIN q, NEW j \in DOMAIN q, i < j PROVE q[i] \in Earlier(q[j])
      OBVIOUS
    <3>1. PICK m \in DOMAIN g.queued : \E n \in DOMAIN g.queued :
             m < n /\ q[i] = g.queued[m] /\ q[j] = g.queued[n]
      BY <2>4
    <3>2. PICK n \in DOMAIN g.queued : m < n /\ q[i] = g.queued[m] /\ q[j] = g.queued[n]
      BY <3>1
    <3>3. m \in 1..(n - 1)
      BY <2>9, <3>2
    <3> QED BY <2>5, <3>2, <3>3
  <2> HIDE DEF g, h, r, q
  <2>12. r \subseteq g.running
    BY DEF r
  <2>13. CASE (q = <<>> \/ Cardinality(r) >= Slots) /\ h.running = r /\ h.queued = q
    <3>1. q # <<>> => Cardinality(r) = Slots
      BY <2>6, <2>13
    <3>2. ASSUME NEW i \in DOMAIN q
          PROVE  r \subseteq Earlier(q[i]) /\ \A j \in 1..(i - 1) : q[j] \in Earlier(q[i])
      <4>1. q[i] \in ToSet(q)
        BY DEF ToSet
      <4>2. \A j \in 1..(i - 1) : j \in DOMAIN q /\ j < i
        BY <2>8
      <4> QED BY <2>7, <2>11, <2>12, <4>1, <4>2
    <3>3. SlotsInv'
      BY <2>13, <3>1, <3>2 DEF SlotsInv, h
    <3> QED BY <1>4, <1>7, <3>3
  <2>14. CASE q # <<>> /\ Cardinality(r) < Slots /\ h.running = r \cup {Head(q)} /\ h.queued = Tail(q)
    <3>1. /\ Head(q) = q[1] /\ 1 \in DOMAIN q /\ DOMAIN Tail(q) = 1..(Len(q) - 1)
          /\ \A i \in DOMAIN Tail(q) : i + 1 \in DOMAIN q /\ Tail(q)[i] = q[i + 1]
      BY <2>3, <2>14, Leads
    <3>2. Head(q) \in ToSet(q)
      BY <3>1 DEF ToSet
    <3>3. Cardinality(h.running) = Slots
      <4>1. Head(q) \notin r
        BY <2>7, <2>12, <3>2
      <4>2. Cardinality(h.running) = Cardinality(r) + 1
        BY <2>6, <2>14, <4>1, FS_AddElement
      <4>3. Cardinality(r) = Slots - 1
        BY <2>6, <2>10, <2>14
      <4> QED BY <2>6, <4>2, <4>3
    <3>4. ASSUME NEW i \in DOMAIN Tail(q)
          PROVE  /\ h.running \subseteq Earlier(Tail(q)[i])
                 /\ \A j \in 1..(i - 1) : Tail(q)[j] \in Earlier(Tail(q)[i])
      <4>1. i \in Int /\ 1 < i + 1 /\ i + 1 \in DOMAIN q /\ Tail(q)[i] = q[i + 1]
        BY <2>8, <3>1
      <4>2. q[i + 1] \in ToSet(q) /\ q[1] \in Earlier(q[i + 1])
        BY <2>11, <3>1, <4>1 DEF ToSet
      <4>3. \A j \in 1..(i - 1) : j \in DOMAIN Tail(q) /\ j + 1 \in DOMAIN q /\ j + 1 < i + 1
        BY <2>8, <3>1
      <4>4. \A j \in 1..(i - 1) : Tail(q)[j] \in Earlier(Tail(q)[i])
        BY <2>11, <3>1, <4>1, <4>3
      <4> QED BY <2>7, <2>12, <2>14, <3>1, <4>1, <4>2, <4>4
    <3>5. SlotsInv'
      BY <2>14, <3>3, <3>4 DEF SlotsInv, h
    <3> QED BY <1>4, <1>7, <3>5
  <2> QED BY <2>3, <2>13, <2>14
<1> QED BY <1>5, <1>6

\* A result of the batch is one of a call the stream loop has heard of.
LEMMA OnWayHeard ==
    ASSUME InSlots, NEW c \in Manager, OnWay(c)
    PROVE  View[c] # "hidden"
BY Owners DEF InSlots, Life, Track, CallInv, HeardInv

\* Behind the row of a result: the call leaves its slot.
LEMMA SlottedSettle ==
    ASSUME InSlots, Settle
    PROVE  Slotted'
<1>1. /\ Types /\ HeardInv /\ OrderInv /\ Manager \subseteq Calls
      /\ hand \in Calls /\ Leave(hand) /\ hand' = hand /\ core = "written"
      /\ UNCHANGED <<phase, pipes, end>> /\ GateInv'
  BY LifeSettle, Owners DEF InSlots, Life, Types, HandHeld, Handled, Settle, Leave, rig, Track
<1>2. hand \in Manager => View[hand] # "hidden"
  BY <1>1, OnWayHeard DEF OnWay
<1> DEFINE c == hand
<1>3. c \in Calls /\ Leave(c) /\ hand' = c /\ core \in {"poll", "written"}
  BY <1>1
<1> HIDE DEF c
<1>4. /\ SlotsInv' /\ BehindInv' /\ View'[c] = "finished"
      /\ \A d \in Calls \ {c} : View'[d] = "hidden" <=> View[d] = "hidden"
  BY <1>1, <1>3, SlotsLeave
<1>5. \A d \in Manager : View'[d] = "hidden" <=> View[d] = "hidden"
  BY <1>1, <1>2, <1>4 DEF c
<1>6. HeardInv'
  BY <1>1, <1>5 DEF HeardInv, Due
<1>7. OrderInv'
  <2>1. \A i \in DOMAIN pipes["main"] : pipes["main"][i].kind = "start" => pipes["main"][i].call \in Manager
    BY <1>1, Shapes DEF Typed, Fits
  <2>2. \A d \in Manager : Earlier(d) \subseteq Manager
    BY Order
  <2> QED BY <1>1, <1>5, <2>1, <2>2 DEF OrderInv
<1> QED BY <1>4, <1>6, <1>7 DEF Slotted

LEMMA SlottedTake ==
    ASSUME InSlots, NEW s \in Sources, Take(s)
    PROVE  Slotted'
<1>1. /\ Types /\ Life /\ HeardInv /\ OrderInv /\ SlotsInv /\ GateInv /\ CallInv
      /\ phase \in [Calls -> Phases] /\ Manager \subseteq Calls /\ GateInv'
  BY LifeTake, Shapes, Owners DEF InSlots, Life, Track
<1> DEFINE e == Head(pipes[s])
<1>2. /\ Polled /\ Taken(pipes, s, pipes') /\ Typed(pipes) /\ Typed(pipes')
      /\ pipes[s] # <<>> /\ e \in Items /\ Fits(s, e) /\ e = pipes[s][1] /\ 1 \in DOMAIN pipes[s]
      /\ e = Item(e.kind, e.call)
  BY <1>1, TakePipes
<1>3. e.kind \in {"start", "result"} => e.call \in Calls
  BY <1>1, TakePipes
<1>4. \A k, c : Due(pipes, k, c) <=> Due(pipes', k, c) \/ Item(k, c) = e
  BY <1>2, Takes
<1>5. /\ \A t \in Sources \ {s} : pipes'[t] = pipes[t]
      /\ pipes'[s] = Tail(pipes[s]) /\ pipes[s] \in Seq(Items)
  BY <1>2 DEF Taken, Typed
<1>6. /\ UNCHANGED phase /\ end = "running"
      /\ \/ /\ \E how \in {"preempted", "failed", "cancelled"} : End(how, open)
            /\ UNCHANGED <<gate, View>>
         \/ e.kind = "start" /\ Started(e.call) /\ UNCHANGED end
         \/ e.kind = "result" /\ Leave(e.call) /\ hand' = e.call /\ UNCHANGED end
         \/ e.kind = "result" /\ core' = "written" /\ UNCHANGED <<gate, View, end>>
         \/ e.kind \in {"text", "done"} /\ UNCHANGED <<gate, View, end>>
  <2>1. /\ UNCHANGED phase /\ end = "running" /\ core = "poll"
        /\ \/ /\ \E how \in {"preempted", "failed", "cancelled"} : End(how, open)
              /\ core' \in {"poll", "check"} /\ UNCHANGED <<gate, shown>>
           \/ e.kind = "start" /\ Started(e.call) /\ UNCHANGED end
           \/ e.kind = "result" /\ Finished(e.call)
           \/ e.kind \in {"text", "done"} /\ core' = "check" /\ UNCHANGED <<gate, shown, end>>
    BY <1>2 DEF Take, rig, Polled, Started
  <2>2. core' \in {"poll", "check", "written"} /\ UNCHANGED shown => View' = View
    BY <2>1 DEF View
  <2> QED BY <2>1, <2>2 DEF Finished, Leave
<1>7. end' = "running" => e.kind # "stop" /\ e.kind # "fail"
  BY <1>6 DEF End
<1>8. /\ DOMAIN pipes[s] = 1..Len(pipes[s]) /\ Len(pipes[s]) \in Nat
      /\ DOMAIN pipes'[s] = 1..(Len(pipes[s]) - 1)
      /\ \A i \in DOMAIN pipes'[s] : i + 1 \in DOMAIN pipes[s] /\ pipes'[s][i] = pipes[s][i + 1]
      /\ \A i \in DOMAIN pipes[s] : i # 1 => i - 1 \in DOMAIN pipes'[s] /\ pipes'[s][i - 1] = pipes[s][i]
  BY <1>2, <1>5, Leads
<1> HIDE DEF e
<1>9. end' = "running" /\ (\E i \in DOMAIN pipes["main"] : pipes["main"][i].kind = "stop")
         => \E i \in DOMAIN pipes'["main"] : pipes'["main"][i].kind = "stop"
  <2> SUFFICES ASSUME end' = "running", NEW i \in DOMAIN pipes["main"], pipes["main"][i].kind = "stop"
               PROVE  \E j \in DOMAIN pipes'["main"] : pipes'["main"][j].kind = "stop"
    OBVIOUS
  <2>1. CASE s = "main"
    <3>1. i # 1
      BY <1>2, <1>7, <2>1
    <3>2. i - 1 \in DOMAIN pipes'["main"] /\ pipes'["main"][i - 1] = pipes["main"][i]
      BY <1>8, <2>1, <3>1
    <3> QED BY <3>2
  <2>2. CASE s # "main"
    BY <1>5, <2>2 DEF Sources
  <2> QED BY <2>1, <2>2
\* what the stream loop has heard of
<1>10. /\ SlotsInv'
       /\ \A d \in Manager : View'[d] = "hidden" <=>
             View[d] = "hidden" /\ ~(end' = "running" /\ e.kind = "start" /\ d = e.call)
       /\ end' # "running" => UNCHANGED View
  <2>1. CASE e.kind = "start" /\ Started(e.call) /\ UNCHANGED end
    <3> DEFINE c == e.call
    <3>1. c \in Calls /\ Started(c) /\ e = Item("start", c)
      BY <1>2, <1>3, <2>1
    <3>2. View[c] = "hidden"
      BY <1>1, <1>4, <3>1 DEF CallInv
    <3>3. c \in Manager => \A d \in Earlier(c) : View[d] # "hidden"
      <4> SUFFICES ASSUME c \in Manager, NEW d \in Earlier(c) PROVE View[d] # "hidden"
        OBVIOUS
      <4>1. s = "main"
        BY <1>2, <2>1, Owners DEF Fits, Sources
      <4>2. e.call = c /\ pipes["main"][1].kind = "start" /\ pipes["main"][1].call = c
        BY <1>2, <2>1, <4>1
      <4> HIDE DEF c
      <4>3. View[d] # "hidden" \/ \E k \in 1..(1 - 1) : pipes["main"][k] = Item("start", d)
        BY <1>1, <1>2, <1>6, <4>1, <4>2 DEF OrderInv
      <4> QED BY <4>3
    <3> HIDE DEF c
    <3>4. SlotsInv' /\ View'[c] # "hidden" /\ \A d \in Calls \ {c} : View'[d] = View[d]
      BY <1>2, <3>1, <3>2, <3>3, SlotsStarted
    <3> QED BY <1>1, <1>6, <2>1, <3>4 DEF c
  <2>2. CASE e.kind = "result" /\ Leave(e.call) /\ hand' = e.call /\ UNCHANGED end
    <3> DEFINE c == e.call
    <3>1. c \in Calls /\ Leave(c) /\ hand' = c /\ core = "poll"
      BY <1>2, <1>3, <2>2 DEF Polled
    <3>2. c \in Manager => View[c] # "hidden"
      <4>1. OnWay(c)
        BY <1>2, <1>4, <2>2 DEF OnWay
      <4> QED BY <4>1, OnWayHeard
    <3> HIDE DEF c
    <3>3. /\ SlotsInv' /\ View'[c] = "finished"
          /\ \A d \in Calls \ {c} : View'[d] = "hidden" <=> View[d] = "hidden"
      BY <1>1, <3>1, SlotsLeave
    <3> QED BY <1>1, <1>6, <2>2, <3>2, <3>3 DEF c
  <2>5. CASE e.kind = "result" /\ core' = "written" /\ UNCHANGED <<gate, View, end>>
    <3>1. SlotsInv'
      BY <1>1, <2>5 DEF SlotsInv
    <3> QED BY <2>5, <3>1
  <2>3. CASE /\ \E how \in {"preempted", "failed", "cancelled"} : End(how, open)
             /\ UNCHANGED <<gate, View>>
    <3>1. end' # "running" /\ SlotsInv'
      BY <1>1, <2>3 DEF SlotsInv, End
    <3> QED BY <2>3, <3>1
  <2>4. CASE e.kind \in {"text", "done"} /\ UNCHANGED <<gate, View, end>>
    <3>1. SlotsInv'
      BY <1>1, <2>4 DEF SlotsInv
    <3> QED BY <2>4, <3>1
  <2> QED BY <1>6, <2>1, <2>2, <2>3, <2>4, <2>5
<1>13. BehindInv'
  <2>1. CASE core' = "settled"
    <3>1. core = "poll"
      BY <1>2 DEF Polled
    <3>2. Leave(e.call) /\ hand' = e.call /\ e.kind = "result"
      BY <1>2, <2>1 DEF Take, Started, Finished, e, Polled
    <3> QED BY <1>1, <1>3, <3>1, <3>2, SlotsLeave
  <2>2. CASE core' # "settled"
    BY <2>2 DEF BehindInv
  <2> QED BY <2>1, <2>2
<1>11. HeardInv'
  <2> SUFFICES ASSUME NEW c \in Manager, View'[c] = "hidden"
               PROVE  /\ phase'[c] \in {"unsaid", "said"}
                      /\ phase'[c] = "said" => \/ Due(pipes', "start", c) \/ end' # "running"
                            \/ \E i \in DOMAIN pipes'["main"] : pipes'["main"][i].kind = "stop"
    BY DEF HeardInv
  <2>1. c \in Calls /\ View[c] = "hidden"
    BY <1>1, <1>10
  <2>2. /\ phase[c] \in {"unsaid", "said"}
        /\ phase[c] = "said" => \/ Due(pipes, "start", c) \/ end # "running"
                \/ \E i \in DOMAIN pipes["main"] : pipes["main"][i].kind = "stop"
    BY <1>1, <2>1 DEF HeardInv
  <2>3. Due(pipes, "start", c) /\ end' = "running" => Due(pipes', "start", c)
    BY <1>4, <1>10, <2>1, ItemIs DEF Item
  <2> QED BY <1>6, <1>9, <2>2, <2>3
<1>12. OrderInv'
  <2>1. ASSUME NEW c \in Manager, View'[c] # "hidden", NEW d \in Earlier(c)
        PROVE  View'[d] # "hidden"
    <3>1. c \in Calls /\ d \in Manager
      BY <1>1, Order
    <3>2. View[c] # "hidden" => View[d] # "hidden"
      BY <1>1 DEF OrderInv
    <3>3. CASE View[c] = "hidden"
      <4>1. end' = "running" /\ e.kind = "start" /\ e.call = c
        BY <1>10, <2>1, <3>1, <3>3
      <4>3. s = "main"
        BY <1>2, <4>1, Owners DEF Fits, Sources
      <4>4. View[d] # "hidden" \/ \E k \in 1..(1 - 1) : pipes["main"][k] = Item("start", d)
        BY <1>1, <1>2, <1>6, <2>1, <4>1, <4>3 DEF OrderInv
      <4> QED BY <1>10, <3>1, <4>4
    <3> QED BY <1>10, <3>1, <3>2, <3>3
  <2>2. ASSUME end' = "running",
               NEW i \in DOMAIN pipes'["main"], pipes'["main"][i].kind = "start",
               NEW d \in Earlier(pipes'["main"][i].call)
        PROVE  View'[d] # "hidden" \/ \E k \in 1..(i - 1) : pipes'["main"][k] = Item("start", d)
    <3>0. d \in Manager
      <4>1. pipes'["main"][i].call \in Manager
        BY <1>2, <2>2 DEF Typed, Fits, Sources
      <4> QED BY <1>1, <2>2, <4>1, Order
    <3>1. CASE s # "main"
      <4>1. pipes'["main"] = pipes["main"]
        BY <1>5, <3>1 DEF Sources
      <4>2. View[d] # "hidden" \/ \E k \in 1..(i - 1) : pipes["main"][k] = Item("start", d)
        BY <1>1, <1>6, <2>2, <4>1 DEF OrderInv
      <4> QED BY <1>10, <3>0, <4>1, <4>2
    <3>2. CASE s = "main"
      <4>1. i \in Int /\ i + 1 \in DOMAIN pipes["main"] /\ pipes'["main"][i] = pipes["main"][i + 1]
        BY <1>8, <2>2, <3>2
      <4>2. View[d] # "hidden" \/ \E k \in 1..((i + 1) - 1) : pipes["main"][k] = Item("start", d)
        BY <1>1, <1>6, <2>2, <4>1 DEF OrderInv
      <4>3. ASSUME NEW k \in 1..((i + 1) - 1), pipes["main"][k] = Item("start", d)
            PROVE  View'[d] # "hidden" \/ \E j \in 1..(i - 1) : pipes'["main"][j] = Item("start", d)
        <5>1. CASE k = 1
          <6>1. e = Item("start", d)
            BY <1>2, <3>2, <4>3, <5>1
          <6>2. e.kind = "start" /\ e.call = d
            BY <6>1 DEF Item
          <6> QED BY <1>10, <2>2, <3>0, <6>2
        <5>2. CASE k # 1
          <6>1. k \in DOMAIN pipes["main"] /\ k - 1 \in 1..(i - 1)
            <7>1. k \in Int /\ 1 <= k /\ k <= i
              BY <4>1, <4>3
            <7>2. i + 1 \in 1..Len(pipes["main"]) /\ DOMAIN pipes["main"] = 1..Len(pipes["main"])
              BY <1>8, <3>2, <4>1
            <7> QED BY <1>8, <3>2, <4>1, <5>2, <7>1, <7>2
          <6>2. pipes'["main"][k - 1] = pipes["main"][k]
            BY <1>8, <3>2, <5>2, <6>1
          <6> QED BY <4>3, <6>1, <6>2
        <5> QED BY <5>1, <5>2
      <4> QED BY <1>10, <3>0, <4>2, <4>3
    <3> QED BY <3>1, <3>2
  <2> QED BY <2>1, <2>2 DEF OrderInv
<1> QED BY <1>10, <1>11, <1>12, <1>13 DEF Slotted

LEMMA SlottedStep ==
    ASSUME InSlots, [Next]_vars
    PROVE  InSlots'
<1>1. /\ Types /\ Life /\ Slotted /\ HeardInv /\ AskInv /\ phase \in [Calls -> Phases]
      /\ Typed(pipes) /\ Manager \subseteq Calls /\ Workers \subseteq Manager
  BY Shapes, Owners DEF InSlots, Life, Track, Slotted
<1> SUFFICES Slotted'
  BY <1>1, LifeStep DEF InSlots, Slotted
<1>2. ASSUME UNCHANGED loop PROVE UNCHANGED <<gate, View, end, core, hand, shown>>
  BY <1>2, LoopStays
<1>3. CASE Request \/ Halt
  BY <1>3, SlottedRequest
<1>4. ASSUME NEW c \in Calls, Dispatch(c)
      PROVE  Slotted'
  <2>1. /\ UNCHANGED loop /\ phase[c] = "said" /\ end = "running"
        /\ c \in Manager => pipes["main"] = <<>>
        /\ UNCHANGED pipes \/ Report("result", c)
        /\ \A d \in Calls \ {c} : phase'[d] = phase[d]
    BY <1>1, <1>4 DEF Dispatch, Turn, Polled
  <2>2. c \in Manager => ~Due(pipes, "start", c)
    <3>1. c \in Manager /\ Due(pipes, "start", c) => Item("start", c) \in ToSet(pipes["main"])
      BY <1>1, DueWhere
    <3> QED BY <2>1, <3>1 DEF ToSet
  <2>3. c \in Manager => View[c] # "hidden"
    BY <1>1, <2>1, <2>2 DEF HeardInv
  <2>4. pipes'["main"] = pipes["main"] /\ \A d : Due(pipes, "start", d) => Due(pipes', "start", d)
    BY <1>1, <2>1, ReportPuts DEF Due
  <2> QED BY <1>1, <1>2, <2>1, <2>3, <2>4, SlottedStill
<1>5. ASSUME NEW c \in Calls, Ask(c) \/ Return(c)
      PROVE  Slotted'
  <2>1. /\ UNCHANGED loop /\ phase[c] \notin {"unsaid", "said"}
        /\ UNCHANGED pipes \/ Report("result", c)
        /\ \A d \in Calls \ {c} : phase'[d] = phase[d]
    BY <1>1, <1>5 DEF Ask, Return
  <2>2. pipes'["main"] = pipes["main"] /\ \A d : Due(pipes, "start", d) => Due(pipes', "start", d)
    BY <1>1, <2>1, ReportPuts DEF Due
  <2> QED BY <1>1, <1>2, <2>1, <2>2, SlottedStill
<1>6. ASSUME NEW w \in Workers, WorkerTurn(w) \/ WorkerFails(w)
      PROVE  Slotted'
  <2>1. UNCHANGED loop /\ \A d \in Manager : phase'[d] = phase[d] \/ phase[d] = "runs"
    <3>1. \A d \in Manager : Owner(d) = Hidden /\ Hidden \notin Workers
      BY <1>1, Owners
    <3> QED BY <1>1, <1>6, <3>1 DEF WorkerTurn, WorkerFails
  <2>2. /\ pipes'["main"] = pipes["main"]
        /\ \A d \in Calls : Due(pipes, "start", d) => Due(pipes', "start", d)
    BY <1>1, <1>6, AnnouncePuts, FailPuts
  <2> QED BY <1>1, <1>2, <2>1, <2>2, SlottedStill
<1>7. ASSUME NEW s \in Sources, Take(s) PROVE Slotted'
  BY <1>7, SlottedTake
<1>8. CASE Check \/ Cut \/ CutEnd
  <2>1. /\ UNCHANGED <<pipes, phase, gate, shown>> /\ (end' = end \/ end' # "running")
        /\ core \in {"check", "cut"} /\ core' \in {"poll", "cut"}
    BY <1>8 DEF Check, Cut, CutEnd, End, rig
  <2>2. View' = View
    BY <2>1 DEF View
  <2> QED BY <1>1, <2>1, <2>2, SlottedStill
<1>10. CASE Commit \/ HearAsk \/ Steer \/ Abort \/ UNCHANGED vars
  <2>1. UNCHANGED <<pipes, phase, gate, core, hand, shown>> /\ (end' = end \/ end' # "running")
    BY <1>10 DEF Commit, HearAsk, Steer, Abort, End, vars, rig, loop
  <2>2. View' = View
    BY <2>1 DEF View, Told
  <2> QED BY <1>1, <2>1, <2>2, SlottedStill
<1>11. CASE Tell
  <2>1. UNCHANGED <<pipes, phase, gate, end>> /\ core' = "check" /\ shown' = View
    BY <1>11 DEF Tell, rig, View
  <2>2. View' = View
    BY <2>1 DEF View
  <2> QED BY <1>1, <2>1, <2>2, SlottedStill
<1>12. CASE Settle
  BY <1>12, SlottedSettle
<1>9. CASE Answer \/ Cancel
  <2>1. UNCHANGED <<pipes, loop>> /\ \A c \in Calls : phase'[c] # phase[c] => c \in pending
    BY <1>1, <1>9 DEF Answer, Cancel
  <2>2. \A c \in Manager : phase'[c] # phase[c] => phase[c] = "asks"
    BY <1>1, <2>1 DEF AskInv
  <2> QED BY <1>1, <1>2, <2>1, <2>2, SlottedStill
<1> QED BY <1>3, <1>4, <1>5, <1>6, <1>7, <1>8, <1>9, <1>10, <1>11, <1>12 DEF Next, Rig, Stream

\* The screen tells the manager's running calls from its waiting ones as rig
\* does: what it shows running has been started or is next, what it shows
\* waiting is behind as many calls as there are slots.
THEOREM ShownTrueSafe == Spec => []ShownTrue
<1>1. Init => InSlots
  <2> SUFFICES ASSUME Init PROVE HeardInv /\ OrderInv /\ SlotsInv /\ BehindInv
    BY LifeInit DEF InSlots
  <2>1. /\ \A c \in Calls : View[c] = "hidden" /\ phase[c] = "unsaid"
        /\ Manager \subseteq Calls /\ core = "poll"
        /\ DOMAIN pipes["main"] = {} /\ gate[Hidden].queued = <<>>
    BY Owners DEF Init, Sources, View
  <2> QED BY <2>1 DEF HeardInv, OrderInv, SlotsInv, BehindInv
<1> QED BY <1>1, SlottedStep, ShownInSlots, PTL DEF Spec
=============================================================================
