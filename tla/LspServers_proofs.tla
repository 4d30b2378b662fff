--------------------------- MODULE LspServers_proofs ---------------------------
(* The language servers, for any languages, files, calls and bounds.        *)
(*                                                                          *)
(* The mutex is a line of actors: LineInv says who is in it and that only   *)
(* its head works.  HandsInv and ProcsInv then place every process, in the  *)
(* map or in the hands of the head, which gives NoOrphan.  EditsInv and     *)
(* DocsInv follow what an edit carries to the documents a server was        *)
(* opened, which gives InStep.                                              *)
EXTENDS LspServers, TLAPS

(***************************************************************************)
(* The line                                                                *)
(***************************************************************************)
\* x is in q.
Within(q, x) == \E i \in DOMAIN q : q[i] = x

\* Who joins is last in line.
LEMMA JoinLine ==
    ASSUME NEW S, NEW q \in Seq(S), NEW e \in S, IsInjective(q),
           \A i \in DOMAIN q : q[i] # e
    PROVE  /\ Append(q, e) \in Seq(S) /\ IsInjective(Append(q, e)) /\ Append(q, e) # <<>>
           /\ \A x : Within(Append(q, e), x)
                     <=> (x = e \/ Within(q, x))
           /\ q # <<>> => Head(Append(q, e)) = Head(q)
<1>1. /\ Append(q, e) \in Seq(S) /\ Append(q, e) # <<>>
      /\ Len(Append(q, e)) = Len(q) + 1 /\ Append(q, e)[Len(q) + 1] = e
      /\ \A i \in DOMAIN q : Append(q, e)[i] = q[i]
      /\ DOMAIN Append(q, e) = 1..(Len(q) + 1) /\ DOMAIN q = 1..Len(q) /\ Len(q) \in Nat
  OBVIOUS
<1> DEFINE r == Append(q, e)
<1> HIDE DEF r
<1>2. IsInjective(r)
  BY <1>1 DEF IsInjective, r
<1>3. \A x : Within(r, x) <=> (x = e \/ Within(q, x))
  <2> SUFFICES ASSUME NEW x
               PROVE  Within(r, x) <=> (x = e \/ Within(q, x))
    OBVIOUS
  <2>1. ASSUME NEW i \in DOMAIN r, r[i] = x PROVE x = e \/ \E j \in DOMAIN q : q[j] = x
    BY <1>1, <2>1 DEF r
  <2>2. ASSUME x = e \/ \E j \in DOMAIN q : q[j] = x PROVE \E i \in DOMAIN r : r[i] = x
    BY <1>1, <2>2 DEF r
  <2> QED BY <2>1, <2>2 DEF Within
<1>4. q # <<>> => Head(r) = Head(q)
  BY <1>1 DEF r
<1> QED BY <1>1, <1>2, <1>3, <1>4 DEF r

\* Whoever leaves, the head or another, the rest keep their places.
LEMMA LeaveLine ==
    ASSUME NEW S, NEW q \in Seq(S), IsInjective(q), NEW k \in DOMAIN q,
           NEW r, r = RemoveAt(q, k)
    PROVE  /\ r \in Seq(S) /\ IsInjective(r)
           /\ \A x : Within(r, x) <=> (x # q[k] /\ Within(q, x))
           /\ k # 1 => r # <<>> /\ Head(r) = Head(q)
<1>1. DOMAIN q = 1..Len(q) /\ Len(q) \in Nat /\ k \in 1..Len(q)
  OBVIOUS
<1>2. r = SubSeq(q, 1, k - 1) \o SubSeq(q, k + 1, Len(q))
  BY DEF RemoveAt
<1>3. /\ SubSeq(q, 1, k - 1) \in Seq(S) /\ Len(SubSeq(q, 1, k - 1)) = k - 1
      /\ \A i \in 1..(k - 1) : SubSeq(q, 1, k - 1)[i] = q[i]
  BY <1>1
<1>4. /\ SubSeq(q, k + 1, Len(q)) \in Seq(S) /\ Len(SubSeq(q, k + 1, Len(q))) = Len(q) - k
      /\ \A i \in 1..(Len(q) - k) : SubSeq(q, k + 1, Len(q))[i] = q[k + i]
  BY <1>1
<1>5. /\ r \in Seq(S) /\ Len(r) = Len(q) - 1 /\ DOMAIN r = 1..(Len(q) - 1)
      /\ \A i \in 1..(k - 1) : r[i] = q[i]
      /\ \A i \in k..(Len(q) - 1) : r[i] = q[i + 1]
  <2> DEFINE a == SubSeq(q, 1, k - 1)
             b == SubSeq(q, k + 1, Len(q))
  <2> HIDE DEF a, b
  <2>1. /\ a \in Seq(S) /\ b \in Seq(S) /\ Len(a) = k - 1 /\ Len(b) = Len(q) - k
        /\ r = a \o b
    BY <1>2, <1>3, <1>4 DEF a, b
  <2>2. r \in Seq(S) /\ Len(r) = Len(q) - 1 /\ DOMAIN r = 1..(Len(q) - 1)
    <3>1. r \in Seq(S)
      BY <2>1
    <3>2. Len(r) = Len(a) + Len(b)
      BY <2>1
    <3>3. Len(r) = Len(q) - 1
      BY <1>1, <2>1, <3>2
    <3> QED BY <3>1, <3>3
  <2>3. \A i \in 1..(k - 1) : r[i] = q[i]
    BY <1>1, <1>3, <2>1 DEF a
  <2>4. \A i \in k..(Len(q) - 1) : r[i] = q[i + 1]
    <3> SUFFICES ASSUME NEW i \in k..(Len(q) - 1) PROVE r[i] = q[i + 1]
      OBVIOUS
    <3>1. r[i] = b[i - (k - 1)]
      BY <1>1, <2>1
    <3>2. b[i - (k - 1)] = q[k + (i - (k - 1))]
      BY <1>1, <1>4 DEF b
    <3> QED BY <1>1, <3>1, <3>2
  <2> QED BY <2>2, <2>3, <2>4
<1>6. \A i \in DOMAIN r : \E j \in DOMAIN q : j # k /\ r[i] = q[j]
  <2> SUFFICES ASSUME NEW i \in DOMAIN r PROVE \E j \in DOMAIN q : j # k /\ r[i] = q[j]
    OBVIOUS
  <2>1. CASE i < k
    BY <1>1, <1>5, <2>1
  <2>2. CASE i >= k
    <3>1. i + 1 \in DOMAIN q /\ i + 1 # k /\ r[i] = q[i + 1]
      BY <1>1, <1>5, <2>2
    <3> QED BY <3>1
  <2> QED BY <1>1, <1>5, <2>1, <2>2
<1>7. \A j \in DOMAIN q : j # k => \E i \in DOMAIN r : r[i] = q[j]
  <2> SUFFICES ASSUME NEW j \in DOMAIN q, j # k PROVE \E i \in DOMAIN r : r[i] = q[j]
    OBVIOUS
  <2>1. CASE j < k
    <3>1. j \in 1..(k - 1) /\ j \in DOMAIN r
      BY <1>1, <1>5, <2>1
    <3> QED BY <1>5, <3>1
  <2>2. CASE j > k
    <3>1. j - 1 \in k..(Len(q) - 1) /\ j - 1 \in DOMAIN r /\ (j - 1) + 1 = j
      BY <1>1, <1>5, <2>2
    <3> QED BY <1>5, <3>1
  <2> QED BY <1>1, <2>1, <2>2
<1>8. IsInjective(r)
  <2> SUFFICES ASSUME NEW i \in DOMAIN r, NEW j \in DOMAIN r, r[i] = r[j] PROVE i = j
    BY DEF IsInjective
  <2> DEFINE Was(n) == IF n < k THEN n ELSE n + 1
  <2>1. \A n \in DOMAIN r : Was(n) \in DOMAIN q /\ r[n] = q[Was(n)]
    BY <1>1, <1>5
  <2>2. Was(i) = Was(j)
    BY <2>1 DEF IsInjective
  <2> QED BY <1>1, <1>5, <2>2
<1>9. \A x : Within(r, x) <=> (x # q[k] /\ Within(q, x))
  BY <1>6, <1>7 DEF IsInjective, Within
<1>10. k # 1 => r # <<>> /\ Head(r) = Head(q)
  BY <1>1, <1>5
<1> QED BY <1>5, <1>8, <1>9, <1>10

\* The head leaves.
LEMMA HeadLeaves ==
    ASSUME NEW S, NEW q \in Seq(S), IsInjective(q), q # <<>>
    PROVE  /\ Tail(q) \in Seq(S) /\ IsInjective(Tail(q))
           /\ \A x : Within(Tail(q), x)
                     <=> (x # Head(q) /\ Within(q, x))
<1>1. DOMAIN q = 1..Len(q) /\ Len(q) \in Nat \ {0} /\ Head(q) = q[1] /\ 1 \in DOMAIN q
  OBVIOUS
<1>2. /\ Tail(q) \in Seq(S) /\ DOMAIN Tail(q) = 1..(Len(q) - 1)
      /\ \A i \in DOMAIN Tail(q) : Tail(q)[i] = q[i + 1] /\ i + 1 \in DOMAIN q
  BY <1>1
<1>3. \A j \in DOMAIN q : j # 1 => (j - 1) \in DOMAIN Tail(q) /\ Tail(q)[j - 1] = q[j]
  BY <1>1, <1>2
<1>4. IsInjective(Tail(q))
  BY <1>1, <1>2 DEF IsInjective
<1>5. \A x : Within(Tail(q), x)
             <=> (x # Head(q) /\ Within(q, x))
  <2> SUFFICES ASSUME NEW x
               PROVE  Within(Tail(q), x)
                      <=> (x # Head(q) /\ Within(q, x))
    OBVIOUS
  <2>1. ASSUME NEW i \in DOMAIN Tail(q), Tail(q)[i] = x
        PROVE  x # Head(q) /\ \E j \in DOMAIN q : q[j] = x
    <3>1. i + 1 # 1 /\ q[i + 1] = x /\ i + 1 \in DOMAIN q
      BY <1>1, <1>2, <2>1
    <3> QED BY <1>1, <3>1 DEF IsInjective
  <2>2. ASSUME x # Head(q), NEW j \in DOMAIN q, q[j] = x
        PROVE  \E i \in DOMAIN Tail(q) : Tail(q)[i] = x
    BY <1>1, <1>3, <2>2
  <2> QED BY <2>1, <2>2 DEF Within
<1> QED BY <1>2, <1>4, <1>5

(***************************************************************************)
(* What an update of an actor, or of a process, leaves as it was           *)
(***************************************************************************)
Rest(a) == \A b \in Actors : b # a => actor'[b] = actor[b]

\* What a call was asked to do, and for what.
Errand(a) == UNCHANGED <<actor[a].op, actor[a].file, actor[a].lang>>

\* An actor with nothing to do.
LEMMA IdleType ==
    /\ Idle \in ActorStates /\ Idle.op = "none" /\ Idle.at = "idle" /\ Idle.proc = NoProc
    /\ Idle.file \in Files /\ Idle.lang \in Langs /\ Idle.version = 0 /\ Idle.got = 0
    /\ Loop \in Actors /\ Calls \subseteq Actors
<1>1. Files # {} /\ Langs # {}
  BY LspAssumption DEF Files
<1>2. (CHOOSE f \in Files : TRUE) \in Files /\ (CHOOSE l \in Langs : TRUE) \in Langs
  BY <1>1
<1> QED BY <1>2, LspAssumption
DEF Idle, ActorStates, Phases, FileOps, ServerOps, NoProc, Version, Actors

LEMMA NoProcApart == NoProc \notin Procs
BY LspAssumption DEF NoProc, Procs

LEMMA MovesStep ==
    ASSUME actor \in [Actors -> ActorStates], NEW a \in Actors, NEW x \in Phases, Moves(a, x)
    PROVE  /\ actor' \in [Actors -> ActorStates] /\ Rest(a) /\ Errand(a)
           /\ actor'[a].at = x
           /\ UNCHANGED <<actor[a].proc, actor[a].version, actor[a].got>>
<1> DEFINE r == [actor[a] EXCEPT !.at = x]
<1>1. /\ r \in ActorStates /\ r.at = x /\ r.op = actor[a].op /\ r.file = actor[a].file
      /\ r.lang = actor[a].lang /\ r.proc = actor[a].proc /\ r.version = actor[a].version
      /\ r.got = actor[a].got
  BY DEF ActorStates
<1>2. actor' = [actor EXCEPT ![a] = r]
  BY DEF Moves
<1> HIDE DEF r
<1> QED BY <1>1, <1>2 DEF Rest, Errand

LEMMA HandsStep ==
    ASSUME actor \in [Actors -> ActorStates], NEW a \in Actors, NEW x \in Phases,
           NEW p \in Procs \cup {NoProc}, actor' = [actor EXCEPT ![a].at = x, ![a].proc = p]
    PROVE  /\ actor' \in [Actors -> ActorStates] /\ Rest(a) /\ Errand(a)
           /\ actor'[a].at = x /\ actor'[a].proc = p
           /\ UNCHANGED actor[a].version
<1> DEFINE r == [actor[a] EXCEPT !.at = x, !.proc = p]
<1>1. /\ r \in ActorStates /\ r.at = x /\ r.op = actor[a].op /\ r.file = actor[a].file
      /\ r.lang = actor[a].lang /\ r.proc = p /\ r.version = actor[a].version
  BY DEF ActorStates
<1>2. actor' = [actor EXCEPT ![a] = r]
  OBVIOUS
<1> HIDE DEF r
<1> QED BY <1>1, <1>2 DEF Rest, Errand

LEMMA ShowsStep ==
    ASSUME actor \in [Actors -> ActorStates], NEW a \in Actors, NEW x \in Phases,
           NEW v \in Version,
           \/ actor' = [actor EXCEPT ![a].at = x, ![a].version = v]
           \/ actor' = [actor EXCEPT ![a].at = x, ![a].got = v]
    PROVE  /\ actor' \in [Actors -> ActorStates] /\ Rest(a) /\ Errand(a)
           /\ actor'[a].at = x /\ UNCHANGED actor[a].proc
<1> DEFINE r == [actor[a] EXCEPT !.at = x, !.version = v]
           s == [actor[a] EXCEPT !.at = x, !.got = v]
<1>1. /\ r \in ActorStates /\ r.at = x /\ r.op = actor[a].op /\ r.file = actor[a].file
      /\ r.lang = actor[a].lang /\ r.proc = actor[a].proc
  BY DEF ActorStates
<1>2. /\ s \in ActorStates /\ s.at = x /\ s.op = actor[a].op /\ s.file = actor[a].file
      /\ s.lang = actor[a].lang /\ s.proc = actor[a].proc
  BY DEF ActorStates
<1>3. actor' = [actor EXCEPT ![a] = r] \/ actor' = [actor EXCEPT ![a] = s]
  OBVIOUS
<1> HIDE DEF r, s
<1> QED BY <1>1, <1>2, <1>3 DEF Rest, Errand

LEMMA FinishStep ==
    ASSUME actor \in [Actors -> ActorStates], NEW a \in Actors, Finishes(a)
    PROVE  actor' \in [Actors -> ActorStates] /\ Rest(a) /\ actor'[a] = Idle
BY IdleType DEF Finishes, Rest

LEMMA BeginStep ==
    ASSUME actor \in [Actors -> ActorStates], NEW a \in Actors,
           NEW op \in FileOps \cup ServerOps, NEW f \in Files, NEW l \in Langs,
           NEW v \in Version, Begin(a, op, f, l, v)
    PROVE  /\ actor' \in [Actors -> ActorStates] /\ Rest(a)
           /\ actor[a].at = "idle" /\ actor'[a].at = "lock" /\ actor'[a].proc = NoProc
           /\ actor'[a].op = op /\ actor'[a].file = f /\ actor'[a].lang = l
           /\ actor'[a].version = v
           /\ queue' = Append(queue, a)
<1> DEFINE r == [Idle EXCEPT !.op = op, !.file = f, !.lang = l, !.at = "lock", !.version = v]
<1>1. /\ r \in ActorStates /\ r.at = "lock" /\ r.op = op /\ r.file = f /\ r.lang = l
      /\ r.proc = NoProc /\ r.version = v
  BY IdleType DEF ActorStates, Phases
<1>2. actor' = [actor EXCEPT ![a] = r] /\ actor[a].at = "idle" /\ queue' = Append(queue, a)
  BY DEF Begin, At, Waits
<1> HIDE DEF r
<1> QED BY <1>1, <1>2 DEF Rest

\* A process that changes its state keeps what it was told.
LEMMA AtStep ==
    ASSUME proc \in [Procs -> ProcStates], NEW p \in Procs,
           NEW x \in AliveAs \cup {"none", "crashed", "dead"}, proc' = [proc EXCEPT ![p].at = x]
    PROVE  /\ proc' \in [Procs -> ProcStates]
           /\ proc'[p].at = x
           /\ UNCHANGED <<proc[p].lang, proc[p].docs, proc[p].has>>
           /\ \A q \in Procs : q # p => proc'[q] = proc[q]
<1> DEFINE r == [proc[p] EXCEPT !.at = x]
<1>1. /\ r \in ProcStates /\ r.at = x /\ r.lang = proc[p].lang /\ r.docs = proc[p].docs
      /\ r.has = proc[p].has
  BY DEF ProcStates
<1>2. proc' = [proc EXCEPT ![p] = r]
  OBVIOUS
<1> HIDE DEF r
<1> QED BY <1>1, <1>2

\* Processes that are killed together.
LEMMA DeadStep ==
    ASSUME proc \in [Procs -> ProcStates], NEW D,
           proc' = [p \in Procs |-> IF p \in D THEN [proc[p] EXCEPT !.at = "dead"] ELSE proc[p]]
    PROVE  /\ proc' \in [Procs -> ProcStates]
           /\ \A p \in Procs : UNCHANGED <<proc[p].lang, proc[p].docs, proc[p].has>>
           /\ \A p \in Procs : proc'[p].at = IF p \in D THEN "dead" ELSE proc[p].at
<1> DEFINE r(p) == [proc[p] EXCEPT !.at = "dead"]
<1>1. \A p \in Procs : /\ r(p) \in ProcStates /\ r(p).at = "dead" /\ r(p).lang = proc[p].lang
                       /\ r(p).docs = proc[p].docs /\ r(p).has = proc[p].has
  BY DEF ProcStates
<1>2. proc' = [p \in Procs |-> IF p \in D THEN r(p) ELSE proc[p]]
  OBVIOUS
<1> HIDE DEF r
<1> QED BY <1>1, <1>2

(***************************************************************************)
(* What a step does to the line                                            *)
(***************************************************************************)
Working(a) == actor[a].at # "gone" /\ actor[a].op # "quit"

Joins(a) ==
    /\ Working(a) /\ Working(a)' /\ Rest(a)
    /\ actor[a].at \notin Waiting /\ actor'[a].at \in {"lock", "look"}
    /\ queue' = Append(queue, a)
Keeps(a) ==
    /\ Working(a) /\ Working(a)' /\ Rest(a)
    /\ Holds(a) /\ actor[a].at \in Waiting /\ actor'[a].at \in Waiting
    /\ UNCHANGED queue
Leaves(a) ==
    /\ Working(a) /\ Working(a)' /\ Rest(a)
    /\ Holds(a) /\ actor[a].at \in Waiting /\ actor'[a].at \notin Waiting
    /\ queue' = Tail(queue)
Stays(a) ==
    /\ Working(a) /\ Working(a)' /\ Rest(a)
    /\ actor[a].at \notin Waiting /\ actor'[a].at \notin Waiting
    /\ UNCHANGED queue

BaseInv == TypeOK /\ LineInv

\* Who is past the mutex holds it, and has not been told to quit.
LEMMA Holder ==
    ASSUME BaseInv, NEW a \in Actors, actor[a].at \in Inside \/ Holds(a)
    PROVE  /\ Holds(a) /\ actor[a].at \in Waiting /\ actor[a].at # "gone"
           /\ actor[a].at \in Inside => actor[a].op # "quit"
<1>1. Holds(a)
  BY DEF BaseInv, LineInv
<1>2. 1 \in DOMAIN queue /\ queue[1] = a
  BY <1>1 DEF Holds, BaseInv, TypeOK
<1>3. InLine(a)
  BY <1>2 DEF InLine
<1>4. actor[a].at \in Waiting
  BY <1>3 DEF BaseInv, LineInv
<1>5. actor[a].at \in Inside => actor[a].op # "quit"
  <2> SUFFICES ASSUME actor[a].at \in Inside PROVE actor[a].op # "quit"
    OBVIOUS
  <2>1. CASE a = Loop
    BY <2>1 DEF BaseInv, LineInv, Inside
  <2>2. CASE a # Loop
    BY <2>2, IdleType DEF BaseInv, LineInv, OnlyLoopQuits, Actors
  <2> QED BY <2>1, <2>2
<1> QED BY <1>1, <1>4, <1>5 DEF Waiting, Inside

(***************************************************************************)
(* What each operation does                                                *)
(***************************************************************************)
Frame == UNCHANGED <<servers, proc>>

\* A tool call begins: an edit with the content it wrote.
LEMMA EditDoes ==
    ASSUME BaseInv, NEW a \in Calls, Edit(a)
    PROVE  /\ Joins(a) /\ Frame /\ actor' \in [Actors -> ActorStates]
           /\ actor'[a].op = "edit" /\ actor'[a].proc = NoProc /\ actor'[a].at = "lock"
           /\ \E f \in Files : /\ \A b \in Calls : ~(actor[b].op = "edit" /\ actor[b].file = f)
                               /\ disk' = [disk EXCEPT ![f] = @ + 1] /\ disk'[f] \in 1..MaxVersion
                               /\ actor'[a].file = f /\ actor'[a].lang = LangOf[f]
                               /\ actor'[a].version = disk'[f]
<1>1. PICK f \in Files : /\ \A b \in Calls : ~(actor[b].op = "edit" /\ actor[b].file = f)
                         /\ disk[f] < MaxVersion /\ disk' = [disk EXCEPT ![f] = @ + 1]
                         /\ Begin(a, "edit", f, LangOf[f], disk'[f])
                         /\ Frame
  BY DEF Edit, Frame
<1>2. /\ disk'[f] \in 1..MaxVersion /\ disk'[f] \in Version /\ LangOf[f] \in Langs
      /\ "edit" \in FileOps \cup ServerOps
  BY <1>1, LspAssumption DEF BaseInv, TypeOK, Version, FileOps
<1>3. actor[a].at = "idle" /\ Working(a)
  BY <1>1, IdleType DEF Begin, At, Working, BaseInv, LineInv, OnlyLoopQuits, Actors
<1>4. /\ actor' \in [Actors -> ActorStates] /\ Rest(a)
      /\ actor'[a].at = "lock" /\ actor'[a].proc = NoProc
      /\ actor'[a].op = "edit" /\ actor'[a].file = f /\ actor'[a].lang = LangOf[f]
      /\ actor'[a].version = disk'[f]
      /\ queue' = Append(queue, a)
  BY <1>1, <1>2, BeginStep, IdleType DEF BaseInv, TypeOK
<1>5. Joins(a)
  BY <1>3, <1>4 DEF Joins, Working, Waiting, Inside
<1> QED BY <1>1, <1>2, <1>4, <1>5

\* ... an analyze, or a start, a stop or a restart of a server.
LEMMA BeginDoes ==
    ASSUME BaseInv, NEW a \in Actors, (a \in Calls /\ Analyze(a)) \/ Manage(a)
    PROVE  /\ Joins(a) /\ Frame /\ UNCHANGED disk /\ actor' \in [Actors -> ActorStates]
           /\ actor'[a].op \in {"analyze"} \cup ServerOps /\ actor'[a].proc = NoProc
           /\ actor'[a].at = "lock"
           /\ actor'[a].op = "analyze" => actor'[a].lang = LangOf[actor'[a].file]
<1>1. PICK op \in {"analyze"} \cup ServerOps, f \in Files, l \in Langs :
        Begin(a, op, f, l, 0) /\ (op = "analyze" => l = LangOf[f])
  <2>1. CASE a \in Calls /\ Analyze(a)
    BY <2>1, LspAssumption DEF Analyze
  <2>2. CASE Manage(a)
    BY <2>2, IdleType DEF Manage, ServerOps
  <2> QED BY <2>1, <2>2
<1>2. Frame /\ UNCHANGED disk
  BY DEF Analyze, Manage, Frame
<1>3. op \in FileOps \cup ServerOps /\ op \in {"analyze", "start", "stop", "restart"} /\ 0 \in Version
  BY LspAssumption DEF FileOps, ServerOps, Version
<1>4. /\ actor' \in [Actors -> ActorStates] /\ Rest(a)
      /\ actor[a].at = "idle" /\ actor'[a].at = "lock" /\ actor'[a].proc = NoProc
      /\ actor'[a].op = op /\ actor'[a].file = f /\ actor'[a].lang = l
      /\ queue' = Append(queue, a)
  BY <1>1, <1>3, BeginStep DEF BaseInv, TypeOK
<1>5. Working(a)
  BY <1>4, IdleType DEF Working, BaseInv, LineInv, OnlyLoopQuits, Actors
<1>6. Joins(a)
  BY <1>3, <1>4, <1>5 DEF Joins, Working, Waiting, Inside
<1> QED BY <1>1, <1>2, <1>4, <1>6

\* A server is there, or a process is spawned, or nothing comes of it.
LEMMA EnsureDoes ==
    ASSUME BaseInv, NEW a \in Actors, Ensure(a)
    PROVE  /\ Keeps(a) /\ Errand(a) /\ UNCHANGED <<servers, disk, actor[a].version>>
           /\ actor[a].at \in {"lock", "ensure"}
           /\ actor' \in [Actors -> ActorStates] /\ proc' \in [Procs -> ProcStates]
           /\ \/ /\ servers[Lang(a)] # NoProc /\ ~Ignored(a) /\ actor'[a].at = "ready"
                 /\ UNCHANGED <<proc, actor[a].proc>>
              \/ /\ actor'[a].at = "over" /\ (Ignored(a) \/ servers[Lang(a)] = NoProc)
                 /\ UNCHANGED <<proc, actor[a].proc>>
              \/ /\ servers[Lang(a)] = NoProc /\ actor'[a].at = "init"
                 /\ \E p \in Procs : /\ proc[p].at = "none" /\ actor'[a].proc = p
                                     /\ proc'[p].at \in {"starting", "deaf"}
                                     /\ proc'[p].lang = Lang(a)
                                     /\ proc'[p].docs = proc[p].docs
                                     /\ \A q \in Procs : q # p => proc'[q] = proc[q]
<1> USE DEF BaseInv, TypeOK
<1>1. /\ Holds(a) /\ actor[a].at \in {"lock", "ensure"} /\ UNCHANGED <<servers, disk, queue>>
      /\ actor[a].op # "quit"
  BY Holder DEF Ensure, At, FileOps, Inside
<1>2. CASE servers[Lang(a)] # NoProc /\ ~Ignored(a) /\ Moves(a, "ready") /\ UNCHANGED proc
  <2>1. /\ actor' \in [Actors -> ActorStates] /\ Rest(a) /\ Errand(a) /\ actor'[a].at = "ready"
        /\ UNCHANGED <<actor[a].proc, actor[a].version>>
    BY <1>2, MovesStep DEF Phases
  <2> QED BY <1>1, <1>2, <2>1 DEF Keeps, Working, Errand, Waiting, Inside
<1>3. CASE (Ignored(a) \/ servers[Lang(a)] = NoProc) /\ Moves(a, "over") /\ UNCHANGED proc
  <2>1. /\ actor' \in [Actors -> ActorStates] /\ Rest(a) /\ Errand(a) /\ actor'[a].at = "over"
        /\ UNCHANGED <<actor[a].proc, actor[a].version>>
    BY <1>3, MovesStep DEF Phases
  <2> QED BY <1>1, <1>3, <2>1 DEF Keeps, Working, Errand, Waiting, Inside
<1>4. ASSUME servers[Lang(a)] = NoProc, NEW p \in Procs, proc[p].at = "none",
             NEW at \in {"starting", "deaf"},
             proc' = [proc EXCEPT ![p].at = at, ![p].lang = Lang(a)],
             actor' = [actor EXCEPT ![a].at = "init", ![a].proc = p]
      PROVE  /\ Keeps(a) /\ Errand(a) /\ UNCHANGED actor[a].version
             /\ actor' \in [Actors -> ActorStates] /\ proc' \in [Procs -> ProcStates]
             /\ actor'[a].at = "init" /\ actor'[a].proc = p
             /\ proc'[p].at \in {"starting", "deaf"} /\ proc'[p].lang = Lang(a)
             /\ proc'[p].docs = proc[p].docs
             /\ \A q \in Procs : q # p => proc'[q] = proc[q]
  <2>1. /\ actor' \in [Actors -> ActorStates] /\ Rest(a) /\ Errand(a) /\ actor'[a].at = "init"
        /\ actor'[a].proc = p /\ UNCHANGED actor[a].version
    BY <1>4, HandsStep DEF Phases
  <2> DEFINE r == [proc[p] EXCEPT !.at = at, !.lang = Lang(a)]
  <2>2. Lang(a) \in Langs
    BY DEF Lang, ActorStates
  <2>3. r \in ProcStates /\ r.at = at /\ r.lang = Lang(a) /\ r.docs = proc[p].docs
    BY <2>2 DEF ProcStates, AliveAs
  <2>4. proc' = [proc EXCEPT ![p] = r]
    BY <1>4
  <2> HIDE DEF r
  <2>5. /\ proc' \in [Procs -> ProcStates] /\ proc'[p] = r
        /\ \A q \in Procs : q # p => proc'[q] = proc[q]
    BY <2>3, <2>4
  <2> QED BY <1>1, <2>1, <2>3, <2>5 DEF Keeps, Working, Errand, Waiting, Inside
<1>5. CASE /\ servers[Lang(a)] = NoProc /\ Free # {}
           /\ LET p == CHOOSE q \in Free : TRUE IN
              /\ \E at \in {"starting"} \cup (IF "deaf" \in Windows THEN {"deaf"} ELSE {}) :
                     proc' = [proc EXCEPT ![p].at = at, ![p].lang = Lang(a)]
              /\ actor' = [actor EXCEPT ![a].at = "init", ![a].proc = p]
  <2> DEFINE p == CHOOSE q \in Free : TRUE
  <2>1. p \in Procs /\ proc[p].at = "none"
    BY <1>5 DEF Free
  <2>2. PICK at \in {"starting", "deaf"} :
          /\ proc' = [proc EXCEPT ![p].at = at, ![p].lang = Lang(a)]
          /\ actor' = [actor EXCEPT ![a].at = "init", ![a].proc = p]
    BY <1>5
  <2> HIDE DEF p
  <2>3. /\ Keeps(a) /\ Errand(a) /\ UNCHANGED actor[a].version
        /\ actor' \in [Actors -> ActorStates] /\ proc' \in [Procs -> ProcStates]
        /\ actor'[a].at = "init" /\ actor'[a].proc = p
        /\ proc'[p].at \in {"starting", "deaf"} /\ proc'[p].lang = Lang(a)
        /\ proc'[p].docs = proc[p].docs
        /\ \A q \in Procs : q # p => proc'[q] = proc[q]
    BY <1>4, <1>5, <2>1, <2>2
  <2> QED BY <1>1, <1>5, <2>1, <2>3
<1> QED BY <1>2, <1>3, <1>5 DEF Ensure

\* The server answers initialize and enters the map, or it is dropped.
LEMMA InitDoes ==
    ASSUME BaseInv, NEW a \in Actors, actor[a].proc \in Procs,
           Initialized(a) \/ InitFails(a)
    PROVE  /\ Keeps(a) /\ Errand(a) /\ UNCHANGED <<disk, actor[a].version>>
           /\ actor[a].at = "init" /\ actor'[a].proc = NoProc
           /\ actor' \in [Actors -> ActorStates] /\ proc' \in [Procs -> ProcStates]
           /\ proc[actor[a].proc].at = "starting"
           /\ \A q \in Procs : q # actor[a].proc => proc'[q] = proc[q]
           /\ \A q \in Procs : UNCHANGED <<proc[q].lang, proc[q].docs, proc[q].has>>
           /\ LET p == actor[a].proc IN
              \/ /\ proc'[p].at = "up" /\ servers' = [servers EXCEPT ![Lang(a)] = p]
                 /\ actor'[a].at = "ready"
              \/ /\ proc'[p].at = "dead" /\ UNCHANGED servers
                 /\ actor'[a].at = "over"
<1> USE DEF BaseInv, TypeOK
<1>1. /\ Holds(a) /\ actor[a].at = "init" /\ UNCHANGED <<disk, queue>>
      /\ proc[actor[a].proc].at = "starting" /\ actor[a].op # "quit"
  BY Holder DEF Initialized, InitFails, At, Inside
<1>2. CASE Initialized(a)
  <2>1. /\ actor' \in [Actors -> ActorStates] /\ Rest(a) /\ Errand(a) /\ actor'[a].at = "ready"
        /\ actor'[a].proc = NoProc /\ UNCHANGED actor[a].version
    BY <1>2, HandsStep DEF Initialized, Phases
  <2>2. /\ proc' \in [Procs -> ProcStates] /\ proc'[actor[a].proc].at = "up"
        /\ \A q \in Procs : UNCHANGED <<proc[q].lang, proc[q].docs, proc[q].has>>
        /\ \A q \in Procs : q # actor[a].proc => proc'[q] = proc[q]
    <3>1. PICK p \in Procs : p = actor[a].proc /\ proc' = [proc EXCEPT ![p].at = "up"]
      BY <1>2 DEF Initialized
    <3>2. /\ proc' \in [Procs -> ProcStates] /\ proc'[p].at = "up"
          /\ UNCHANGED <<proc[p].lang, proc[p].docs, proc[p].has>>
          /\ \A q \in Procs : q # p => proc'[q] = proc[q]
      BY <3>1, AtStep DEF AliveAs
    <3> QED BY <3>1, <3>2
  <2> QED BY <1>1, <1>2, <2>1, <2>2 DEF Initialized, Keeps, Working, Errand, Waiting, Inside
<1>3. CASE InitFails(a)
  <2>1. /\ actor' \in [Actors -> ActorStates] /\ Rest(a) /\ Errand(a) /\ actor'[a].at = "over"
        /\ actor'[a].proc = NoProc /\ UNCHANGED actor[a].version
    BY <1>3, HandsStep DEF InitFails, Phases
  <2>2. /\ proc' \in [Procs -> ProcStates] /\ proc'[actor[a].proc].at = "dead"
        /\ \A q \in Procs : UNCHANGED <<proc[q].lang, proc[q].docs, proc[q].has>>
        /\ \A q \in Procs : q # actor[a].proc => proc'[q] = proc[q]
    <3>1. PICK p \in Procs : p = actor[a].proc /\ proc' = [proc EXCEPT ![p].at = "dead"]
      BY <1>3 DEF InitFails
    <3>2. /\ proc' \in [Procs -> ProcStates] /\ proc'[p].at = "dead"
          /\ UNCHANGED <<proc[p].lang, proc[p].docs, proc[p].has>>
          /\ \A q \in Procs : q # p => proc'[q] = proc[q]
      BY <3>1, AtStep DEF AliveAs
    <3> QED BY <3>1, <3>2
  <2> QED BY <1>1, <1>3, <2>1, <2>2 DEF InitFails, Keeps, Working, Errand, Waiting, Inside
<1> QED BY <1>2, <1>3

\* The edit tells the server of the file's language.
LEMMA NotifyEditDoes ==
    ASSUME BaseInv, NEW a \in Actors, NotifyEdit(a), servers[Lang(a)] \in Procs
    PROVE  /\ Leaves(a) /\ actor'[a] = Idle /\ UNCHANGED <<disk, servers>>
           /\ actor[a].op = "edit" /\ actor[a].at = "ready"
           /\ actor' \in [Actors -> ActorStates] /\ proc' \in [Procs -> ProcStates]
           /\ \A q \in Procs : q # servers[Lang(a)] => proc'[q] = proc[q]
           /\ \A q \in Procs : UNCHANGED <<proc[q].lang, proc[q].at, proc[q].docs>>
           /\ LET p == servers[Lang(a)] f == actor[a].file IN
              proc[p].at = "up" => \A g \in proc[p].docs :
                  proc'[p].has[g] = IF g = f THEN actor[a].version ELSE proc[p].has[g]
<1> USE DEF BaseInv, TypeOK
<1>1. /\ Holds(a) /\ actor[a].at = "ready" /\ actor[a].op = "edit" /\ UNCHANGED <<disk, servers>>
      /\ queue' = Tail(queue)
  BY Holder DEF NotifyEdit, At, Inside, Releases
<1>2. actor' \in [Actors -> ActorStates] /\ Rest(a) /\ actor'[a] = Idle
  BY FinishStep DEF NotifyEdit
<1>3. Leaves(a)
  BY <1>1, <1>2, IdleType DEF Leaves, Working, Waiting, Inside
<1> DEFINE p == servers[Lang(a)]
           f == actor[a].file
           r == [proc[p] EXCEPT !.has[f] = actor[a].version]
<1>4. /\ r \in ProcStates /\ r.at = proc[p].at /\ r.lang = proc[p].lang /\ r.docs = proc[p].docs
      /\ \A g \in Files : r.has[g] = IF g = f THEN actor[a].version ELSE proc[p].has[g]
  <2>1. actor[a].version \in Version /\ f \in Files /\ proc[p] \in ProcStates
    BY DEF ActorStates
  <2>2. [proc[p].has EXCEPT ![f] = actor[a].version] \in [Files -> Version]
    BY <2>1 DEF ProcStates
  <2> QED BY <2>1, <2>2 DEF ProcStates
<1>5. proc[p].docs \subseteq Files
  BY DEF ProcStates
<1>6. CASE proc[p].at = "up" /\ f \in proc[p].docs
  <2>1. proc' = [proc EXCEPT ![p] = r]
    BY <1>6 DEF NotifyEdit, Change
  <2> HIDE DEF r
  <2>2. proc' \in [Procs -> ProcStates] /\ proc'[p] = r /\ \A q \in Procs : q # p => proc'[q] = proc[q]
    BY <1>4, <2>1
  <2> QED BY <1>1, <1>2, <1>3, <1>4, <1>5, <2>2
<1>7. CASE ~(proc[p].at = "up" /\ f \in proc[p].docs)
  <2>1. proc' = proc
    BY <1>7 DEF NotifyEdit, Change
  <2> QED BY <1>1, <1>2, <1>3, <1>7, <2>1
<1> QED BY <1>6, <1>7

\* analyze shows the server what is on disk.
LEMMA OpensDoes ==
    ASSUME BaseInv, NEW a \in Actors, Opens(a), servers[Lang(a)] \in Procs
    PROVE  /\ Leaves(a) /\ Errand(a) /\ UNCHANGED <<disk, servers, actor[a].proc>>
           /\ actor[a].op = "analyze" /\ actor[a].at = "ready" /\ actor'[a].at = "poll"
           /\ actor' \in [Actors -> ActorStates] /\ proc' \in [Procs -> ProcStates]
           /\ \A q \in Procs : q # servers[Lang(a)] => proc'[q] = proc[q]
           /\ \A q \in Procs : UNCHANGED <<proc[q].lang, proc[q].at>>
           /\ LET p == servers[Lang(a)] f == actor[a].file IN
              /\ proc'[p].docs = proc[p].docs \cup {f}
              /\ proc[p].at = "up" => \A g \in proc'[p].docs :
                    proc'[p].has[g] = IF g = f THEN disk[f] ELSE proc[p].has[g]
<1> USE DEF BaseInv, TypeOK
<1> DEFINE p == servers[Lang(a)]
           f == actor[a].file
           r == [proc[p] EXCEPT !.docs = @ \cup {f}, !.has[f] = disk[f]]
           s == [proc[p] EXCEPT !.docs = @ \cup {f}]
<1>1. /\ Holds(a) /\ actor[a].at = "ready" /\ actor[a].op = "analyze" /\ UNCHANGED <<disk, servers>>
      /\ queue' = Tail(queue)
  BY Holder DEF Opens, At, Inside, Releases
<1>2. f \in Files /\ disk[f] \in Version /\ proc[p] \in ProcStates
  BY LspAssumption DEF ActorStates, Version
<1>3. /\ actor' \in [Actors -> ActorStates] /\ Rest(a) /\ Errand(a) /\ actor'[a].at = "poll"
      /\ UNCHANGED actor[a].proc
  <2>1. actor' = [actor EXCEPT ![a].at = "poll", ![a].version = disk[f]]
    BY DEF Opens
  <2> QED BY <1>2, <2>1, ShowsStep DEF Phases
<1>4. Leaves(a)
  BY <1>1, <1>3 DEF Leaves, Working, Errand, Waiting, Inside
<1>5. [proc[p].has EXCEPT ![f] = disk[f]] \in [Files -> Version] /\ proc[p].docs \cup {f} \subseteq Files
  BY <1>2 DEF ProcStates
<1>6. /\ r \in ProcStates /\ r.at = proc[p].at /\ r.lang = proc[p].lang /\ r.docs = proc[p].docs \cup {f}
      /\ \A g \in Files : r.has[g] = IF g = f THEN disk[f] ELSE proc[p].has[g]
  BY <1>2, <1>5 DEF ProcStates
<1>7. /\ s \in ProcStates /\ s.at = proc[p].at /\ s.lang = proc[p].lang /\ s.docs = proc[p].docs \cup {f}
  BY <1>2, <1>5 DEF ProcStates
<1>8. \/ proc' = [proc EXCEPT ![p] = r]
      \/ proc' = [proc EXCEPT ![p] = s] /\ proc[p].at # "up"
  BY DEF Opens, OpenDoc
<1> HIDE DEF r, s
<1>9. /\ proc' \in [Procs -> ProcStates] /\ \A q \in Procs : q # p => proc'[q] = proc[q]
      /\ proc'[p] = r \/ (proc'[p] = s /\ proc[p].at # "up")
  BY <1>6, <1>7, <1>8
<1>10. /\ \A q \in Procs : UNCHANGED <<proc[q].lang, proc[q].at>>
       /\ proc'[p].docs = proc[p].docs \cup {f}
       /\ proc[p].at = "up" => \A g \in proc'[p].docs :
             proc'[p].has[g] = IF g = f THEN disk[f] ELSE proc[p].has[g]
  BY <1>5, <1>6, <1>7, <1>9
<1> QED BY <1>1, <1>3, <1>4, <1>9, <1>10

\* stop takes the server out of the map into its hands.
LEMMA StopDoes ==
    ASSUME BaseInv, NEW a \in Actors, Stop(a)
    PROVE  /\ Keeps(a) /\ Errand(a) /\ UNCHANGED <<disk, actor[a].version>>
           /\ actor[a].at = "lock" /\ actor[a].op \in {"stop", "restart"}
           /\ actor'[a].at = "stopping" /\ actor'[a].proc = servers[Lang(a)]
           /\ servers' = [servers EXCEPT ![Lang(a)] = NoProc]
           /\ actor' \in [Actors -> ActorStates] /\ proc' \in [Procs -> ProcStates]
           /\ \A q \in Procs :
                /\ UNCHANGED <<proc[q].lang, proc[q].docs, proc[q].has>>
                /\ proc'[q].at = IF q = servers[Lang(a)] /\ proc[q].at = "up"
                                 THEN "stopping" ELSE proc[q].at
<1> USE DEF BaseInv, TypeOK
<1> DEFINE p == servers[Lang(a)]
<1>1. /\ Holds(a) /\ actor[a].at = "lock" /\ actor[a].op \in {"stop", "restart"}
      /\ UNCHANGED <<disk, queue>> /\ servers' = [servers EXCEPT ![Lang(a)] = NoProc]
  BY DEF Stop, At
<1>2. p \in Procs \cup {NoProc}
  BY DEF Lang, ActorStates
<1>3. /\ actor' \in [Actors -> ActorStates] /\ Rest(a) /\ Errand(a) /\ actor'[a].at = "stopping"
      /\ actor'[a].proc = p /\ UNCHANGED actor[a].version
  BY <1>2, HandsStep DEF Stop, Phases
<1>4. CASE p # NoProc /\ proc[p].at = "up"
  <2>1. PICK r \in Procs : r = p /\ proc' = [proc EXCEPT ![r].at = "stopping"]
    BY <1>2, <1>4 DEF Stop
  <2>2. /\ proc' \in [Procs -> ProcStates] /\ proc'[r].at = "stopping"
        /\ UNCHANGED <<proc[r].lang, proc[r].docs, proc[r].has>>
        /\ \A q \in Procs : q # r => proc'[q] = proc[q]
    BY <2>1, AtStep DEF AliveAs
  <2> QED BY <1>1, <1>3, <1>4, <2>1, <2>2 DEF Keeps, Working, Errand, Waiting, Inside
<1>5. CASE ~(p # NoProc /\ proc[p].at = "up")
  <2>1. UNCHANGED proc
    BY <1>5 DEF Stop
  <2>2. \A q \in Procs : ~(q = p /\ proc[q].at = "up")
    BY <1>5, NoProcApart
  <2> QED BY <1>1, <1>3, <2>1, <2>2 DEF Keeps, Working, Errand, Waiting, Inside
<1> QED BY <1>4, <1>5

\* The stopped server is dead.
LEMMA KilledDoes ==
    ASSUME BaseInv, NEW a \in Actors, Killed(a)
    PROVE  /\ Keeps(a) /\ Errand(a) /\ UNCHANGED <<disk, servers, actor[a].version>>
           /\ actor[a].at = "stopping" /\ actor'[a].proc = NoProc
           /\ actor'[a].at = IF actor[a].op = "stop" THEN "over" ELSE "ensure"
           /\ actor' \in [Actors -> ActorStates] /\ proc' \in [Procs -> ProcStates]
           /\ \A q \in Procs :
                /\ UNCHANGED <<proc[q].lang, proc[q].docs, proc[q].has>>
                /\ proc'[q].at = IF q = actor[a].proc THEN "dead" ELSE proc[q].at
<1> USE DEF BaseInv, TypeOK
<1>1. /\ Holds(a) /\ actor[a].at = "stopping" /\ actor[a].op # "quit"
      /\ UNCHANGED <<disk, queue, servers>>
  BY Holder DEF Killed, At, Inside
<1> DEFINE x == IF actor[a].op = "stop" THEN "over" ELSE "ensure"
<1>2. /\ actor' \in [Actors -> ActorStates] /\ Rest(a) /\ Errand(a) /\ actor'[a].at = x
      /\ actor'[a].proc = NoProc /\ UNCHANGED actor[a].version
  <2>1. x \in Phases /\ actor' = [actor EXCEPT ![a].at = x, ![a].proc = NoProc]
    BY DEF Killed, Phases
  <2> HIDE DEF x
  <2> QED BY <2>1, HandsStep
<1>3. CASE actor[a].proc = NoProc
  BY <1>1, <1>2, <1>3, NoProcApart DEF Killed, Keeps, Working, Errand, Waiting, Inside
<1>4. CASE actor[a].proc # NoProc
  <2>1. PICK p \in Procs : p = actor[a].proc /\ proc' = [proc EXCEPT ![p].at = "dead"]
    BY <1>4 DEF Killed, ActorStates
  <2>2. /\ proc' \in [Procs -> ProcStates] /\ proc'[p].at = "dead"
        /\ UNCHANGED <<proc[p].lang, proc[p].docs, proc[p].has>>
        /\ \A q \in Procs : q # p => proc'[q] = proc[q]
    BY <2>1, AtStep DEF AliveAs
  <2> QED BY <1>1, <1>2, <2>1, <2>2 DEF Keeps, Working, Errand, Waiting, Inside
<1> QED BY <1>3, <1>4

\* What touches no process and not the map: leaving, polling, looking and
\* returning.
LEMMA LooksDoes ==
    ASSUME BaseInv, NEW a \in Actors,
           Leave(a) \/ Poll(a) \/ Look(a) \/ (a \in Calls /\ GiveUp(a)) \/ Return(a)
    PROVE  /\ Joins(a) \/ Leaves(a) \/ Stays(a)
           /\ Frame /\ UNCHANGED disk /\ actor' \in [Actors -> ActorStates]
           /\ \/ /\ actor'[a] = Idle
                 /\ actor[a].at \in {"over", "done"} \/ actor[a].op \in ServerOps
              \/ /\ Errand(a) /\ UNCHANGED actor[a].proc /\ actor[a].at \in {"poll", "look"}
                 /\ actor'[a].at \in {"look", "poll", "done"}
<1> USE DEF BaseInv, TypeOK
<1>1. CASE Leave(a)
  <2>1. /\ Holds(a) /\ actor[a].at \in {"over", "ready"} /\ actor[a].op # "quit"
        /\ actor[a].at = "over" \/ actor[a].op \in ServerOps
        /\ queue' = Tail(queue) /\ Frame /\ UNCHANGED disk
    BY <1>1, Holder DEF Leave, At, Inside, Frame, Releases
  <2>2. actor' \in [Actors -> ActorStates] /\ Rest(a) /\ actor'[a] = Idle
    BY <1>1, FinishStep DEF Leave
  <2> QED BY <2>1, <2>2, IdleType DEF Leaves, Working, Waiting, Inside
<1>2. CASE Poll(a)
  <2>1. /\ actor[a].at = "poll" /\ queue' = Append(queue, a) /\ Frame /\ UNCHANGED disk
    BY <1>2 DEF Poll, At, Frame, Waits
  <2>2. /\ actor' \in [Actors -> ActorStates] /\ Rest(a) /\ Errand(a) /\ actor'[a].at = "look"
        /\ UNCHANGED actor[a].proc
    BY <1>2, MovesStep DEF Poll, Phases
  <2>3. actor[a].op # "quit"
    BY <2>1, IdleType DEF LineInv, OnlyLoopQuits, Actors
  <2> QED BY <2>1, <2>2, <2>3 DEF Joins, Working, Errand, Waiting, Inside
<1>3. CASE Look(a) \/ (a \in Calls /\ GiveUp(a))
  <2>1. /\ actor[a].at = "look" /\ Holds(a) /\ queue' = Tail(queue) /\ Frame /\ UNCHANGED disk
    BY <1>3 DEF Look, GiveUp, At, Frame, Releases
  <2>2. /\ actor' \in [Actors -> ActorStates] /\ Rest(a) /\ Errand(a)
        /\ actor'[a].at \in {"poll", "done"} /\ UNCHANGED actor[a].proc
    <3>1. CASE GiveUp(a)
      BY <3>1, MovesStep DEF GiveUp, Phases
    <3>2. CASE Look(a)
      <4> DEFINE found == diags[actor[a].file]
                 x == IF found = 0 THEN "poll" ELSE "done"
      <4>1. found \in Version /\ x \in Phases /\ x \in {"poll", "done"}
        BY DEF ActorStates, Phases
      <4>2. actor' = [actor EXCEPT ![a].at = x, ![a].got = found]
        BY <3>2 DEF Look
      <4> HIDE DEF found, x
      <4> QED BY <4>1, <4>2, ShowsStep
    <3> QED BY <1>3, <3>1, <3>2
  <2>3. actor[a].op # "quit"
    BY <2>1, IdleType DEF LineInv, OnlyLoopQuits, Actors
  <2> QED BY <2>1, <2>2, <2>3 DEF Leaves, Working, Errand, Waiting, Inside
<1>4. CASE Return(a)
  <2>1. /\ actor[a].at = "done" /\ Frame /\ UNCHANGED <<disk, queue>>
    BY <1>4 DEF Return, At, Frame
  <2>2. actor' \in [Actors -> ActorStates] /\ Rest(a) /\ actor'[a] = Idle
    BY <1>4, FinishStep DEF Return
  <2>3. actor[a].op # "quit"
    BY <2>1, IdleType DEF LineInv, OnlyLoopQuits, Actors
  <2> QED BY <2>1, <2>2, <2>3, IdleType DEF Stays, Working, Waiting, Inside
<1> QED BY <1>1, <1>2, <1>3, <1>4

\* A dropped call takes the process in its hands with it, and its place in line.
LEMMA AbortDoes ==
    ASSUME BaseInv, NEW a \in Calls, Abort(a)
    PROVE  /\ Rest(a) /\ actor'[a] = Idle /\ Working(a) /\ actor' \in [Actors -> ActorStates]
           /\ UNCHANGED <<disk, servers>> /\ ("abort" \notin Windows => actor[a].op # "edit")
           /\ \/ \E i \in DOMAIN queue : queue[i] = a /\ queue' = RemoveAt(queue, i)
              \/ (\A i \in DOMAIN queue : queue[i] # a) /\ UNCHANGED queue
           /\ proc' \in [Procs -> ProcStates]
           /\ \A q \in Procs : /\ UNCHANGED <<proc[q].lang, proc[q].docs, proc[q].has>>
                               /\ proc'[q].at = IF q = actor[a].proc THEN "dead" ELSE proc[q].at
<1> USE DEF BaseInv, TypeOK
<1>1. a \in Actors
  BY IdleType
<1>2. actor' \in [Actors -> ActorStates] /\ Rest(a) /\ actor'[a] = Idle
  BY <1>1, FinishStep DEF Abort
<1>3. Working(a)
  BY DEF Abort, Working, LineInv, OnlyLoopQuits
<1> DEFINE D == {p \in Procs : actor[a].proc = p}
<1>4. proc' = [p \in Procs |-> IF p \in D THEN [proc[p] EXCEPT !.at = "dead"] ELSE proc[p]]
  BY DEF Abort, Dropped
<1>5. /\ proc' \in [Procs -> ProcStates]
      /\ \A p \in Procs : UNCHANGED <<proc[p].lang, proc[p].docs, proc[p].has>>
      /\ \A p \in Procs : proc'[p].at = IF p \in D THEN "dead" ELSE proc[p].at
  <2> HIDE DEF D
  <2> QED BY <1>4, DeadStep
<1> QED BY <1>2, <1>3, <1>5 DEF Abort

\* The select is entered, and one of its branches taken.
LEMMA SelectDoes ==
    ASSUME BaseInv, Arm \/ Tick \/ Otherwise
    PROVE  /\ Joins(Loop) \/ Stays(Loop)
           /\ Frame /\ UNCHANGED disk /\ actor' \in [Actors -> ActorStates]
           /\ actor[Loop].at \in {"idle", "armed"} /\ actor'[Loop].at \in {"idle", "armed", "lock"}
           /\ actor'[Loop].proc \in {actor[Loop].proc, NoProc}
           /\ actor'[Loop].op \in {"none", "pump"} \/ Errand(Loop)
<1> USE DEF BaseInv, TypeOK
<1>1. Loop \in Actors
  BY IdleType
<1>2. actor[Loop].at \in {"idle", "armed"} /\ actor[Loop].op # "quit" /\ Frame /\ UNCHANGED disk
  BY DEF Arm, Tick, Otherwise, At, Frame, LineInv
<1>3. CASE Arm
  <2>1. /\ actor' \in [Actors -> ActorStates] /\ Rest(Loop) /\ Errand(Loop)
        /\ actor'[Loop].at = "armed" /\ UNCHANGED actor[Loop].proc
    BY <1>1, <1>3, MovesStep DEF Arm, Phases
  <2> QED BY <1>2, <1>3, <2>1 DEF Arm, Stays, Working, Errand, Waiting, Inside
<1>4. CASE Tick
  <2> DEFINE r == [actor[Loop] EXCEPT !.at = "lock", !.op = "pump"]
  <2>1. r \in ActorStates /\ r.at = "lock" /\ r.op = "pump" /\ r.proc = actor[Loop].proc
    BY <1>1 DEF ActorStates, Phases
  <2>2. actor' = [actor EXCEPT ![Loop] = r] /\ queue' = Append(queue, Loop)
    BY <1>4 DEF Tick, Waits
  <2> HIDE DEF r
  <2>3. actor' \in [Actors -> ActorStates] /\ actor'[Loop] = r /\ Rest(Loop)
    BY <1>1, <2>1, <2>2 DEF Rest
  <2> QED BY <1>2, <2>1, <2>2, <2>3 DEF Joins, Working, Waiting, Inside
<1>5. CASE Otherwise
  <2>1. actor' \in [Actors -> ActorStates] /\ Rest(Loop) /\ actor'[Loop] = Idle
    BY <1>1, <1>5, FinishStep DEF Otherwise
  <2> QED BY <1>2, <1>5, <2>1, IdleType DEF Otherwise, Stays, Working, Waiting, Inside
<1> QED BY <1>3, <1>4, <1>5

\* The servers that stopped leave the map.
LEMMA PumpDoes ==
    ASSUME BaseInv, Pump
    PROVE  /\ Leaves(Loop) /\ actor'[Loop] = Idle /\ actor' \in [Actors -> ActorStates]
           /\ UNCHANGED <<proc, disk>>
           /\ servers' = [l \in Langs |-> IF Crashed(l) THEN NoProc ELSE servers[l]]
<1> USE DEF BaseInv, TypeOK
<1>1. Loop \in Actors
  BY IdleType
<1>2. Holds(Loop) /\ actor[Loop].at = "lock" /\ actor[Loop].op = "pump" /\ queue' = Tail(queue)
  BY DEF Pump, At, Releases
<1>3. actor' \in [Actors -> ActorStates] /\ Rest(Loop) /\ actor'[Loop] = Idle
  BY <1>1, FinishStep DEF Pump
<1>4. Leaves(Loop)
  BY <1>2, <1>3, IdleType DEF Leaves, Working, Waiting, Inside
<1> QED BY <1>3, <1>4 DEF Pump, Exited

\* The shutdown begins: the calls are gone, with what they held.
LEMMA QuitDoes ==
    ASSUME BaseInv, Quit
    PROVE  /\ actor[Loop].at = "idle" /\ queue' = <<Loop>> /\ UNCHANGED <<servers, disk>>
           /\ actor' \in [Actors -> ActorStates]
           /\ actor'[Loop].op = "quit" /\ actor'[Loop].at = "lock" /\ actor'[Loop].proc = NoProc
           /\ \A a \in Calls : actor'[a] = [Idle EXCEPT !.at = "gone"]
           /\ proc' \in [Procs -> ProcStates]
           /\ \A q \in Procs : /\ UNCHANGED <<proc[q].lang, proc[q].docs, proc[q].has>>
                               /\ proc'[q].at = IF \E a \in Calls : actor[a].proc = q
                                                THEN "dead" ELSE proc[q].at
<1> USE DEF BaseInv, TypeOK
<1> DEFINE D == {p \in Procs : \E a \in Calls : actor[a].proc = p}
           r == [Idle EXCEPT !.op = "quit", !.at = "lock"]
           s == [Idle EXCEPT !.at = "gone"]
<1>1. proc' = [p \in Procs |-> IF p \in D THEN [proc[p] EXCEPT !.at = "dead"] ELSE proc[p]]
  BY DEF Quit, Dropped
<1>2. /\ proc' \in [Procs -> ProcStates]
      /\ \A p \in Procs : UNCHANGED <<proc[p].lang, proc[p].docs, proc[p].has>>
      /\ \A p \in Procs : proc'[p].at = IF p \in D THEN "dead" ELSE proc[p].at
  <2> HIDE DEF D
  <2> QED BY <1>1, DeadStep
<1>3. r \in ActorStates /\ s \in ActorStates /\ r.op = "quit" /\ r.at = "lock" /\ r.proc = NoProc
  BY IdleType DEF ActorStates, Phases
<1>4. actor' = [a \in Actors |-> IF a = Loop THEN r ELSE s]
  BY DEF Quit
<1>5. actor[Loop].at = "idle" /\ queue' = <<Loop>> /\ UNCHANGED <<servers, disk>>
  BY DEF Quit, At
<1>6. /\ actor' \in [Actors -> ActorStates] /\ actor'[Loop] = r
      /\ \A a \in Calls : actor'[a] = s
  <2> HIDE DEF r, s
  <2> QED BY <1>3, <1>4, IdleType, LspAssumption
<1> QED BY <1>2, <1>3, <1>5, <1>6

\* Every server in the map is stopped.
LEMMA ShutdownDoes ==
    ASSUME BaseInv, ShutdownAll
    PROVE  /\ actor[Loop].op = "quit" /\ actor[Loop].at = "lock" /\ queue' = Tail(queue)
           /\ Rest(Loop) /\ Errand(Loop) /\ actor'[Loop].at = "gone" /\ UNCHANGED disk
           /\ UNCHANGED actor[Loop].proc /\ actor' \in [Actors -> ActorStates]
           /\ servers' = [l \in Langs |-> NoProc]
           /\ proc' \in [Procs -> ProcStates]
           /\ \A q \in Procs : /\ UNCHANGED <<proc[q].lang, proc[q].docs, proc[q].has>>
                               /\ proc'[q].at = IF \E l \in Langs : servers[l] = q
                                                THEN "dead" ELSE proc[q].at
<1> USE DEF BaseInv, TypeOK
<1> DEFINE D == {p \in Procs : \E l \in Langs : servers[l] = p}
<1>1. proc' = [p \in Procs |-> IF p \in D THEN [proc[p] EXCEPT !.at = "dead"] ELSE proc[p]]
  BY DEF ShutdownAll
<1>2. /\ proc' \in [Procs -> ProcStates]
      /\ \A p \in Procs : UNCHANGED <<proc[p].lang, proc[p].docs, proc[p].has>>
      /\ \A p \in Procs : proc'[p].at = IF p \in D THEN "dead" ELSE proc[p].at
  <2> HIDE DEF D
  <2> QED BY <1>1, DeadStep
<1>3. /\ actor' \in [Actors -> ActorStates] /\ Rest(Loop) /\ Errand(Loop)
      /\ actor'[Loop].at = "gone" /\ UNCHANGED actor[Loop].proc
  BY IdleType, MovesStep DEF ShutdownAll, Phases
<1> QED BY <1>2, <1>3 DEF ShutdownAll, At, Releases

\* A server publishes, or dies.
LEMMA ServerDoes ==
    ASSUME BaseInv, NEW p \in Procs, Publish(p) \/ Crash(p)
    PROVE  /\ UNCHANGED <<disk, queue, actor, servers>>
           /\ proc' \in [Procs -> ProcStates]
           /\ proc[p].at = "up" /\ proc'[p].at \in {"up", "crashed"}
           /\ \A q \in Procs : UNCHANGED <<proc[q].lang, proc[q].docs, proc[q].has>>
           /\ \A q \in Procs : q # p => proc'[q] = proc[q]
<1> USE DEF BaseInv, TypeOK
<1>1. CASE Publish(p)
  <2>1. PICK f \in proc[p].docs :
          proc[p].at = "up" /\ proc' = [proc EXCEPT ![p].published[f] = proc[p].has[f]]
    BY <1>1 DEF Publish
  <2>2. f \in Files /\ proc[p].has[f] \in Version
    BY DEF ProcStates
  <2> DEFINE r == [proc[p] EXCEPT !.published[f] = proc[p].has[f]]
  <2>3. [proc[p].published EXCEPT ![f] = proc[p].has[f]] \in [Files -> Version]
    BY <2>2 DEF ProcStates
  <2>4. /\ r \in ProcStates /\ r.at = proc[p].at /\ r.lang = proc[p].lang
        /\ r.docs = proc[p].docs /\ r.has = proc[p].has
    BY <2>3 DEF ProcStates
  <2>5. proc' = [proc EXCEPT ![p] = r]
    BY <2>1
  <2> HIDE DEF r
  <2>6. /\ proc' \in [Procs -> ProcStates] /\ proc'[p] = r
        /\ \A q \in Procs : q # p => proc'[q] = proc[q]
    BY <2>4, <2>5
  <2> QED BY <1>1, <2>1, <2>4, <2>6 DEF Publish
<1>2. CASE Crash(p)
  <2>1. /\ proc' \in [Procs -> ProcStates] /\ proc'[p].at = "crashed"
        /\ UNCHANGED <<proc[p].lang, proc[p].docs, proc[p].has>>
        /\ \A q \in Procs : q # p => proc'[q] = proc[q]
    BY <1>2, AtStep DEF Crash, AliveAs
  <2> QED BY <1>2, <2>1 DEF Crash
<1> QED BY <1>1, <1>2


(***************************************************************************)
(* Types                                                                   *)
(***************************************************************************)
LEMMA InitTypes == Init => TypeOK
<1> SUFFICES ASSUME Init PROVE TypeOK
  OBVIOUS
<1>1. actor \in [Actors -> ActorStates]
  BY IdleType DEF Init
<1>2. proc \in [Procs -> ProcStates]
  BY IdleType, LspAssumption DEF Init, ProcStates, AliveAs, Nothing, Version, Idle
<1>3. queue \in Seq(Actors) /\ IsInjective(queue)
  BY DEF Init, IsInjective
<1>4. disk \in [Files -> 1..MaxVersion] /\ diags \in [Files -> Version]
  BY LspAssumption DEF Init, Nothing, Version
<1> QED BY <1>1, <1>2, <1>3, <1>4, LspAssumption DEF Init, TypeOK, NoProc

\* All but the line, the actors and the processes.
DataTypes ==
    /\ disk \in [Files -> 1..MaxVersion]
    /\ servers \in [Langs -> Procs \cup {NoProc}]
    /\ channel \in Seq([file : Files, version : Version])
    /\ diags \in [Files -> Version]
    /\ asks \in 0..MaxAsks /\ crashes \in 0..MaxCrashes /\ aborts \in 0..MaxAborts

LEMMA DataKept ==
    ASSUME TypeOK, [Next]_vars
    PROVE  DataTypes'
<1> USE DEF TypeOK, DataTypes
<1>1. CASE UNCHANGED <<disk, servers, channel, diags, bounds>>
  BY <1>1 DEF bounds
<1>2. ASSUME NEW a \in Calls, Edit(a) PROVE DataTypes'
  BY <1>2, LspAssumption DEF Edit, Begin
<1>3. ASSUME NEW a \in Actors, Analyze(a) \/ Manage(a) PROVE DataTypes'
  <2>1. asks < MaxAsks /\ asks' = asks + 1 /\ UNCHANGED <<disk, servers, channel, diags, crashes, aborts>>
    BY <1>3 DEF Analyze, Manage, Begin
  <2> QED BY <2>1, LspAssumption
<1>4. ASSUME NEW a \in Actors, Initialized(a) \/ Stop(a) PROVE DataTypes'
  <2>1. actor[a].proc \in Procs \cup {NoProc}
    BY DEF ActorStates
  <2> QED BY <1>4, <2>1 DEF Initialized, Stop, bounds
<1>5. ASSUME NEW a \in Calls, Abort(a) PROVE DataTypes'
  BY <1>5, LspAssumption DEF Abort
<1>6. CASE Pump
  <2>1. \A v : Verdict(v) \in Version
    <3>1. Faulty \subseteq Version /\ 0 \in Version
      BY LspAssumption DEF Version
    <3> QED BY <3>1 DEF Verdict
  <2>2. Pumped \in [Files -> Version]
    BY <2>1 DEF Pumped
  <2> QED BY <1>6, <2>2 DEF Pump, bounds
<1>7. CASE ShutdownAll
  BY <1>7 DEF ShutdownAll, bounds
<1>8. ASSUME NEW p \in Procs, Publish(p) PROVE DataTypes'
  <2>1. PICK f \in proc[p].docs : channel' = Append(channel, [file |-> f, version |-> proc[p].has[f]])
    BY <1>8 DEF Publish
  <2>2. f \in Files /\ proc[p].has[f] \in Version
    BY DEF ProcStates
  <2>3. [file |-> f, version |-> proc[p].has[f]] \in [file : Files, version : Version]
    BY <2>2
  <2> QED BY <1>8, <2>1, <2>3 DEF Publish, bounds
<1>9. ASSUME NEW p \in Procs, Crash(p) PROVE DataTypes'
  BY <1>9, LspAssumption DEF Crash
<1>10. ASSUME NEW a \in Actors,
              Ensure(a) \/ InitFails(a) \/ NotifyEdit(a) \/ Opens(a) \/ Killed(a) \/ Leave(a)
                \/ Poll(a) \/ Look(a) \/ Return(a) \/ GiveUp(a)
       PROVE  UNCHANGED <<disk, servers, channel, diags, bounds>>
  BY <1>10 DEF Ensure, InitFails, NotifyEdit, Opens, Killed, Leave, Poll, Look, Return, GiveUp
<1>11. Arm \/ Tick \/ Otherwise \/ Quit \/ UNCHANGED vars
       => UNCHANGED <<disk, servers, channel, diags, bounds>>
  BY DEF Arm, Tick, Otherwise, Quit, vars, bounds
<1> QED
  BY <1>1, <1>2, <1>3, <1>4, <1>5, <1>6, <1>7, <1>8, <1>9, <1>10, <1>11, IdleType
  DEF Next, Asks, Works, Serves

(***************************************************************************)
(* The line is kept                                                        *)
(***************************************************************************)
LineTypes == queue \in Seq(Actors) /\ IsInjective(queue) /\ actor \in [Actors -> ActorStates]

\* Nobody but a works, and a is not told to quit, nor gone.
LEMMA QuitKept ==
    ASSUME BaseInv, NEW a \in Actors, Working(a), Working(a)', Rest(a)
    PROVE  /\ actor'[Loop].op = "quit" => /\ actor'[Loop].at \in {"lock", "gone"}
                                          /\ \A b \in Calls : actor'[b] = [Idle EXCEPT !.at = "gone"]
           /\ actor'[Loop].at = "gone" => actor'[Loop].op = "quit"
           /\ OnlyLoopQuits'
<1>1. a = Loop \/ (a \in Calls /\ a # Loop /\ actor'[Loop] = actor[Loop])
  BY IdleType, LspAssumption DEF Actors, Rest
<1>2. [Idle EXCEPT !.at = "gone"].at = "gone"
  BY IdleType DEF ActorStates
<1>3. ASSUME actor[Loop].op = "quit" PROVE a = Loop
  BY <1>1, <1>2, <1>3 DEF BaseInv, LineInv, Working
<1>4. OnlyLoopQuits'
  <2> SUFFICES ASSUME NEW b \in Calls PROVE actor'[b].op # "quit"
    BY DEF OnlyLoopQuits
  <2>1. b \in Actors
    BY IdleType
  <2> QED BY <2>1 DEF BaseInv, LineInv, OnlyLoopQuits, Rest, Working
<1> QED BY <1>1, <1>3, <1>4 DEF BaseInv, LineInv, Working

LEMMA LineKept ==
    ASSUME BaseInv, NEW a \in Actors, Joins(a) \/ Keeps(a) \/ Leaves(a) \/ Stays(a),
           actor' \in [Actors -> ActorStates]
    PROVE  LineTypes' /\ LineInv'
<1>1. Working(a) /\ Working(a)' /\ Rest(a)
  BY DEF Joins, Keeps, Leaves, Stays
<1>2. \A b \in Actors : InLine(b) <=> actor[b].at \in Waiting
  BY DEF BaseInv, LineInv
<1>3. \A b \in Actors : actor[b].at \in Inside => Holds(b)
  BY DEF BaseInv, LineInv
<1>4. queue \in Seq(Actors) /\ IsInjective(queue)
  BY DEF BaseInv, TypeOK
<1>5. SUFFICES /\ queue' \in Seq(Actors) /\ IsInjective(queue)'
               /\ \A b \in Actors : InLine(b)' <=> actor'[b].at \in Waiting
               /\ \A b \in Actors : actor'[b].at \in Inside => Holds(b)'
  BY <1>1, QuitKept DEF LineTypes, LineInv, At
<1>6. CASE Joins(a)
  <2>1. actor[a].at \notin Waiting /\ actor'[a].at \in {"lock", "look"} /\ queue' = Append(queue, a)
    BY <1>6 DEF Joins
  <2>2. \A i \in DOMAIN queue : queue[i] # a
    BY <1>2, <2>1 DEF InLine, Within
  <2>3. /\ queue' \in Seq(Actors) /\ IsInjective(queue') /\ queue' # <<>>
        /\ \A x : Within(queue', x)
                  <=> (x = a \/ Within(queue, x))
        /\ queue # <<>> => Head(queue') = Head(queue)
    BY <1>4, <2>1, <2>2, JoinLine
  <2>4. \A b \in Actors : InLine(b)' <=> actor'[b].at \in Waiting
    BY <1>1, <1>2, <2>1, <2>3 DEF InLine, Within, Rest, Waiting
  <2>5. \A b \in Actors : actor'[b].at \in Inside => Holds(b)'
    BY <1>1, <1>3, <2>1, <2>3 DEF Holds, Rest, Inside
  <2> QED BY <2>3, <2>4, <2>5 DEF IsInjective
<1>7. CASE Keeps(a)
  BY <1>1, <1>2, <1>3, <1>4, <1>7 DEF Keeps, InLine, Holds, Rest, IsInjective
<1>8. CASE Leaves(a)
  <2>1. Holds(a) /\ actor'[a].at \notin Waiting /\ queue' = Tail(queue)
    BY <1>8 DEF Leaves
  <2>2. queue # <<>> /\ Head(queue) = a
    BY <2>1 DEF Holds
  <2>3. /\ queue' \in Seq(Actors) /\ IsInjective(queue')
        /\ \A x : Within(queue', x)
                  <=> (x # a /\ Within(queue, x))
    <3>1. /\ Tail(queue) \in Seq(Actors) /\ IsInjective(Tail(queue))
          /\ \A x : Within(Tail(queue), x)
                    <=> (x # Head(queue) /\ Within(queue, x))
      BY <1>4, <2>2, HeadLeaves
    <3> QED BY <2>1, <2>2, <3>1
  <2>4. \A b \in Actors : InLine(b)' <=> actor'[b].at \in Waiting
    BY <1>1, <1>2, <2>1, <2>3 DEF InLine, Within, Rest
  <2>5. \A b \in Actors : actor'[b].at \notin Inside
    BY <1>1, <1>3, <2>1, <2>2 DEF Holds, Rest, Waiting
  <2> QED BY <2>3, <2>4, <2>5 DEF IsInjective
<1>9. CASE Stays(a)
  BY <1>1, <1>2, <1>3, <1>4, <1>9 DEF Stays, InLine, Holds, Rest, Waiting, IsInjective
<1> QED BY <1>6, <1>7, <1>8, <1>9

LEMMA AbortLine ==
    ASSUME BaseInv, NEW a \in Calls, Abort(a)
    PROVE  LineTypes' /\ LineInv'
<1>1. /\ Rest(a) /\ actor'[a] = Idle /\ Working(a) /\ actor' \in [Actors -> ActorStates]
      /\ \/ \E i \in DOMAIN queue : queue[i] = a /\ queue' = RemoveAt(queue, i)
         \/ (\A i \in DOMAIN queue : queue[i] # a) /\ UNCHANGED queue
  BY AbortDoes
<1>2. /\ a \in Actors /\ Working(a)' /\ actor'[a].at = "idle"
  BY <1>1, IdleType DEF Working
<1>3. /\ \A b \in Actors : InLine(b) <=> actor[b].at \in Waiting
      /\ \A b \in Actors : actor[b].at \in Inside => Holds(b)
      /\ queue \in Seq(Actors) /\ IsInjective(queue)
  BY DEF BaseInv, LineInv, TypeOK
<1>4. SUFFICES /\ queue' \in Seq(Actors) /\ IsInjective(queue)'
               /\ \A b \in Actors : InLine(b)' <=> actor'[b].at \in Waiting
               /\ \A b \in Actors : actor'[b].at \in Inside => Holds(b)'
  BY <1>1, <1>2, QuitKept DEF LineTypes, LineInv, At
<1>5. ASSUME NEW k \in DOMAIN queue, queue[k] = a, queue' = RemoveAt(queue, k)
      PROVE  /\ queue' \in Seq(Actors) /\ IsInjective(queue)'
             /\ \A b \in Actors : InLine(b)' <=> actor'[b].at \in Waiting
             /\ \A b \in Actors : actor'[b].at \in Inside => Holds(b)'
  <2>1. /\ queue' \in Seq(Actors) /\ IsInjective(queue')
        /\ \A x : Within(queue', x)
                  <=> (x # queue[k] /\ Within(queue, x))
        /\ k # 1 => queue' # <<>> /\ Head(queue') = Head(queue)
    <3>1. PICK r : r = RemoveAt(queue, k)
      OBVIOUS
    <3>2. /\ r \in Seq(Actors) /\ IsInjective(r)
          /\ \A x : Within(r, x)
                    <=> (x # queue[k] /\ Within(queue, x))
          /\ k # 1 => r # <<>> /\ Head(r) = Head(queue)
      <4>1. queue \in Seq(Actors) /\ IsInjective(queue)
        BY <1>3
      <4>2. r \in Seq(Actors) /\ IsInjective(r)
        BY <3>1, <4>1, LeaveLine
      <4>3. \A x : Within(r, x)
                  <=> (x # queue[k] /\ Within(queue, x))
        BY <3>1, <4>1, LeaveLine
      <4>4. k # 1 => r # <<>> /\ Head(r) = Head(queue)
        BY <3>1, <4>1, LeaveLine
      <4> QED BY <4>2, <4>3, <4>4
    <3>3. queue' = r
      BY <1>5, <3>1
    <3> QED BY <3>2, <3>3
  <2>2. ASSUME NEW b \in Actors PROVE InLine(b)' <=> actor'[b].at \in Waiting
    <3>1. InLine(b)' <=> (b # a /\ InLine(b))
      BY <1>5, <2>1 DEF InLine, Within
    <3>2. CASE b = a
      BY <1>2, <3>1, <3>2 DEF Waiting, Inside
    <3>3. CASE b # a
      BY <1>1, <1>3, <3>1, <3>3 DEF Rest
    <3> QED BY <3>2, <3>3
  <2>3. ASSUME NEW b \in Actors, actor'[b].at \in Inside PROVE Holds(b)'
    <3>1. b # a /\ Holds(b)
      BY <1>1, <1>2, <1>3, <2>3 DEF Rest, Inside
    <3>2. k # 1
      BY <1>3, <1>5, <3>1 DEF Holds
    <3> QED BY <2>1, <3>1, <3>2 DEF Holds
  <2> QED BY <2>1, <2>2, <2>3 DEF IsInjective
<1>6. CASE (\A i \in DOMAIN queue : queue[i] # a) /\ UNCHANGED queue
  BY <1>1, <1>2, <1>3, <1>6 DEF InLine, Within, Holds, Rest, Waiting, Inside, IsInjective
<1> QED BY <1>1, <1>5, <1>6

LEMMA QuitLine ==
    ASSUME BaseInv, Quit
    PROVE  LineTypes' /\ LineInv'
<1>1. /\ queue' = <<Loop>> /\ actor' \in [Actors -> ActorStates]
      /\ actor'[Loop].op = "quit" /\ actor'[Loop].at = "lock"
      /\ \A a \in Calls : actor'[a] = [Idle EXCEPT !.at = "gone"]
  BY QuitDoes
<1>2. \A a \in Calls : actor'[a].at = "gone" /\ actor'[a].op = "none"
  BY <1>1, IdleType DEF ActorStates
<1>3. queue' \in Seq(Actors) /\ queue' # <<>> /\ Head(queue') = Loop
      /\ DOMAIN queue' = {1} /\ queue'[1] = Loop
  BY <1>1, IdleType
<1>4. \A b \in Actors : InLine(b)' <=> actor'[b].at \in Waiting
  BY <1>1, <1>2, <1>3, LspAssumption DEF InLine, Within, Actors, Waiting, Inside
<1>5. \A b \in Actors : actor'[b].at \notin Inside
  BY <1>1, <1>2 DEF Actors, Inside
<1> QED BY <1>1, <1>2, <1>3, <1>4, <1>5 DEF LineTypes, LineInv, OnlyLoopQuits, IsInjective, At

LEMMA ShutdownLine ==
    ASSUME BaseInv, ShutdownAll
    PROVE  LineTypes' /\ LineInv'
<1>1. /\ actor[Loop].op = "quit" /\ actor[Loop].at = "lock" /\ queue' = Tail(queue)
      /\ Rest(Loop) /\ Errand(Loop) /\ actor'[Loop].at = "gone"
      /\ actor' \in [Actors -> ActorStates]
  BY ShutdownDoes
<1>2. /\ \A b \in Actors : InLine(b) <=> actor[b].at \in Waiting
      /\ queue \in Seq(Actors) /\ IsInjective(queue) /\ OnlyLoopQuits
      /\ \A a \in Calls : actor[a] = [Idle EXCEPT !.at = "gone"]
  BY <1>1 DEF BaseInv, LineInv, TypeOK
<1>3. \A a \in Calls : actor[a].at = "gone" /\ actor'[a] = actor[a]
  BY <1>1, <1>2, IdleType, LspAssumption DEF ActorStates, Rest
<1>4. \A b \in Actors : b # Loop => b \in Calls
  BY DEF Actors
<1>5. queue # <<>> /\ Head(queue) = Loop
  <2>1. InLine(Loop)
    BY <1>1, <1>2, IdleType DEF Waiting
  <2>2. Head(queue) \in Actors /\ InLine(Head(queue))
    BY <1>2, <2>1 DEF InLine, Within
  <2> QED BY <1>2, <1>3, <1>4, <2>1, <2>2 DEF InLine, Within, Waiting, Inside
<1>6. /\ queue' \in Seq(Actors) /\ IsInjective(queue')
      /\ \A x : Within(queue', x)
                <=> (x # Loop /\ Within(queue, x))
  <2>1. /\ Tail(queue) \in Seq(Actors) /\ IsInjective(Tail(queue))
        /\ \A x : Within(Tail(queue), x)
                  <=> (x # Head(queue) /\ Within(queue, x))
    <3>1. queue \in Seq(Actors) /\ IsInjective(queue)
      BY <1>2
    <3> QED BY <1>5, <3>1, HeadLeaves
  <2> QED BY <1>1, <1>5, <2>1
<1>7. \A b \in Actors : InLine(b)' <=> actor'[b].at \in Waiting
  <2> SUFFICES ASSUME NEW b \in Actors PROVE InLine(b)' <=> actor'[b].at \in Waiting
    OBVIOUS
  <2>1. InLine(b)' <=> (b # Loop /\ InLine(b))
    BY <1>6 DEF InLine, Within
  <2>2. CASE b = Loop
    BY <1>1, <2>1, <2>2 DEF Waiting, Inside
  <2>3. CASE b # Loop
    BY <1>2, <1>3, <1>4, <2>1, <2>3
  <2> QED BY <2>2, <2>3
<1>8. \A b \in Actors : actor'[b].at \notin Inside
  BY <1>1, <1>3, <1>4 DEF Inside
<1>9. OnlyLoopQuits' /\ actor'[Loop].op = "quit"
  BY <1>1, <1>2, <1>3 DEF OnlyLoopQuits, Errand
<1> QED BY <1>1, <1>2, <1>3, <1>6, <1>7, <1>8, <1>9 DEF LineTypes, LineInv, IsInjective, At

(***************************************************************************)
(* Where the processes are                                                 *)
(***************************************************************************)
PlaceInv == BaseInv /\ HandsInv /\ ProcsInv

\* Only the head of the line is past the mutex.
LEMMA OneInside ==
    ASSUME BaseInv, NEW a \in Actors, NEW b \in Actors, Holds(a), actor[b].at \in Inside
    PROVE  a = b
BY DEF BaseInv, LineInv, Holds

\* What the actors hold, and what the map does.
LEMMA Places ==
    ASSUME PlaceInv
    PROVE  /\ \A a \in Actors : Lang(a) \in Langs /\ actor[a].proc \in Procs \cup {NoProc}
           /\ \A a \in Actors : actor[a].proc # NoProc =>
                /\ actor[a].proc \in Procs /\ actor[a].at \in Inside /\ Holds(a)
                /\ servers[Lang(a)] = NoProc
                /\ proc[actor[a].proc].lang = Lang(a) /\ proc[actor[a].proc].at # "up"
           /\ \A l \in Langs : servers[l] # NoProc => servers[l] \in Procs
           /\ \A p \in Procs : p # NoProc /\ proc[p].lang \in Langs
<1>1. \A a \in Actors : Lang(a) \in Langs /\ actor[a].proc \in Procs \cup {NoProc}
  BY DEF PlaceInv, BaseInv, TypeOK, ActorStates, Lang
<1>2. ASSUME NEW a \in Actors, actor[a].proc # NoProc
      PROVE  /\ actor[a].proc \in Procs /\ actor[a].at \in Inside /\ Holds(a)
             /\ servers[Lang(a)] = NoProc
             /\ proc[actor[a].proc].lang = Lang(a) /\ proc[actor[a].proc].at # "up"
  <2>1. HandsOf(a) /\ actor[a].at \in {"init", "stopping"}
    BY <1>2 DEF PlaceInv, HandsInv, HandsOf
  <2>2. actor[a].at \in Inside /\ Holds(a)
    BY <2>1 DEF Inside, PlaceInv, BaseInv, LineInv
  <2> QED BY <1>1, <1>2, <2>1, <2>2 DEF HandsOf
<1>3. \A l \in Langs : servers[l] # NoProc => servers[l] \in Procs
  BY DEF PlaceInv, BaseInv, TypeOK
<1>4. \A p \in Procs : p # NoProc /\ proc[p].lang \in Langs
  BY NoProcApart DEF PlaceInv, BaseInv, TypeOK, ProcStates
<1> QED BY <1>1, <1>2, <1>3, <1>4

\* While a holds the manager, the others have empty hands, and keep them.
LEMMA OthersHands ==
    ASSUME PlaceInv, NEW a \in Actors, Holds(a), Rest(a), NEW b \in Actors, b # a
    PROVE  HandsOf(b)' /\ actor[b].proc = NoProc
<1>1. actor[b].at \notin Inside /\ actor'[b] = actor[b]
  BY OneInside DEF PlaceInv, Rest
<1>2. actor[b].proc = NoProc
  BY <1>1, Places
<1> QED BY <1>1, <1>2 DEF HandsOf, Inside

\* The map has no process that is in hands.
LEMMA Apart ==
    ASSUME PlaceInv, NEW a \in Actors, actor[a].proc # NoProc, NEW l \in Langs
    PROVE  servers[l] # actor[a].proc
BY Places DEF PlaceInv, ProcsInv, MapOf

\* After the shutdown nobody works.
LEMMA NotGone ==
    ASSUME BaseInv, NEW a \in Actors, Working(a), Working(a)', Rest(a)
    PROVE  ~At(Loop, "gone")'
<1>1. CASE a = Loop
  BY <1>1 DEF Working, At
<1>2. CASE a # Loop
  <2>1. a \in Calls /\ actor'[Loop] = actor[Loop]
    BY <1>2, IdleType DEF Actors, Rest
  <2>2. [Idle EXCEPT !.at = "gone"].at = "gone"
    BY IdleType DEF ActorStates
  <2>3. ~At(Loop, "gone")
    BY <2>1, <2>2 DEF BaseInv, LineInv, Working, At
  <2> QED BY <2>1, <2>3 DEF At
<1> QED BY <1>1, <1>2

\* An actor with empty hands moves on, or begins, or finishes.
LEMMA FramePlaced ==
    ASSUME PlaceInv, NEW a \in Actors, Working(a), Working(a)', Rest(a), UNCHANGED servers,
           \A q \in Procs : UNCHANGED <<proc[q].lang, proc[q].at>>,
           actor[a].proc = NoProc, actor'[a].proc = NoProc,
           actor'[a].at \notin {"init", "stopping"},
           actor'[a].at = "ready" => servers[Lang(a)'] # NoProc
    PROVE  HandsInv' /\ ProcsInv'
<1>1. ASSUME NEW b \in Actors PROVE HandsOf(b)'
  <2>1. CASE b = a
    BY <2>1 DEF HandsOf
  <2>2. CASE b # a
    <3>1. actor'[b] = actor[b] /\ Lang(b)' = Lang(b)
      BY <2>2 DEF Rest, Lang
    <3>2. HandsOf(b)
      BY DEF PlaceInv, HandsInv
    <3> QED BY <3>1, <3>2, Places DEF HandsOf
  <2> QED BY <2>1, <2>2
<1>2. \A l \in Langs : MapOf(l)'
  BY Places DEF PlaceInv, ProcsInv, MapOf
<1>3. ASSUME NEW p \in Procs PROVE PlaceOf(p)'
  <2>1. PlaceOf(p)
    BY DEF PlaceInv, ProcsInv
  <2>2. ASSUME NEW b \in Actors, actor[b].proc = p PROVE actor'[b].proc = p
    BY <2>2, Places DEF Rest
  <2> QED BY <2>1, <2>2 DEF PlaceOf
<1> QED BY <1>1, <1>2, <1>3, NotGone DEF PlaceInv, HandsInv, ProcsInv

LEMMA EnsurePlaced ==
    ASSUME PlaceInv, NEW a \in Actors, Ensure(a)
    PROVE  HandsInv' /\ ProcsInv'
<1>1. /\ Keeps(a) /\ Errand(a) /\ UNCHANGED servers /\ actor[a].at \in {"lock", "ensure"}
      /\ \/ /\ servers[Lang(a)] # NoProc /\ actor'[a].at = "ready"
            /\ UNCHANGED <<proc, actor[a].proc>>
         \/ actor'[a].at = "over" /\ UNCHANGED <<proc, actor[a].proc>>
         \/ /\ servers[Lang(a)] = NoProc /\ actor'[a].at = "init"
            /\ \E p \in Procs : /\ proc[p].at = "none" /\ actor'[a].proc = p
                                /\ proc'[p].at \in {"starting", "deaf"}
                                /\ proc'[p].lang = Lang(a)
                                /\ \A q \in Procs : q # p => proc'[q] = proc[q]
  BY EnsureDoes DEF PlaceInv
<1>2. Working(a) /\ Working(a)' /\ Rest(a) /\ Holds(a) /\ Lang(a)' = Lang(a)
  BY <1>1 DEF Keeps, Errand, Lang
<1>3. actor[a].proc = NoProc
  BY <1>1 DEF PlaceInv, HandsInv, HandsOf
<1>4. CASE UNCHANGED <<proc, actor[a].proc>> /\ actor'[a].at \in {"ready", "over"}
           /\ (actor'[a].at = "ready" => servers[Lang(a)] # NoProc)
  BY <1>1, <1>2, <1>3, <1>4, FramePlaced
<1>5. ASSUME NEW p \in Procs, servers[Lang(a)] = NoProc, actor'[a].at = "init",
             proc[p].at = "none", actor'[a].proc = p, proc'[p].at \in {"starting", "deaf"},
             proc'[p].lang = Lang(a), \A q \in Procs : q # p => proc'[q] = proc[q]
      PROVE  HandsInv' /\ ProcsInv'
  <2>1. HandsOf(a)'
    BY <1>1, <1>2, <1>5, Places DEF HandsOf
  <2>2. \A l \in Langs : MapOf(l)'
    BY <1>1, <1>5, Places DEF PlaceInv, ProcsInv, MapOf
  <2>3. ASSUME NEW q \in Procs PROVE PlaceOf(q)'
    <3>1. PlaceOf(q)
      BY DEF PlaceInv, ProcsInv
    <3>2. ASSUME NEW b \in Actors, actor[b].proc = q PROVE actor'[b].proc = q
      BY <1>2, <1>3, <3>2, Places DEF Rest
    <3> QED BY <1>1, <1>5, <3>1, <3>2 DEF PlaceOf
  <2> QED BY <1>2, <2>1, <2>2, <2>3, OthersHands, NotGone DEF PlaceInv, HandsInv, ProcsInv
<1> QED BY <1>1, <1>4, <1>5

LEMMA InitPlaced ==
    ASSUME PlaceInv, NEW a \in Actors, Initialized(a) \/ InitFails(a)
    PROVE  HandsInv' /\ ProcsInv'
<1>1. actor[a].at = "init"
  BY DEF Initialized, InitFails, At
<1>2. PICK p \in Procs : p = actor[a].proc
  BY <1>1, Places DEF PlaceInv, HandsInv, HandsOf
<1>3. /\ Keeps(a) /\ Errand(a) /\ actor'[a].proc = NoProc /\ proc[p].at = "starting"
      /\ \A q \in Procs : q # p => proc'[q] = proc[q]
      /\ \A q \in Procs : UNCHANGED proc[q].lang
      /\ \/ /\ proc'[p].at = "up" /\ servers' = [servers EXCEPT ![Lang(a)] = p]
            /\ actor'[a].at = "ready"
         \/ /\ proc'[p].at = "dead" /\ UNCHANGED servers
            /\ actor'[a].at = "over"
  BY <1>2, InitDoes DEF PlaceInv
<1>4. Working(a) /\ Working(a)' /\ Rest(a) /\ Holds(a) /\ Lang(a)' = Lang(a)
  BY <1>3 DEF Keeps, Errand, Lang
<1>5. /\ p # NoProc /\ proc[p].lang = Lang(a) /\ servers[Lang(a)] = NoProc /\ Lang(a) \in Langs
      /\ servers \in [Langs -> Procs \cup {NoProc}]
  BY <1>2, Places DEF PlaceInv, BaseInv, TypeOK
<1>6. HandsOf(a)'
  BY <1>3, <1>4, <1>5 DEF HandsOf
<1>7. ASSUME NEW l \in Langs PROVE MapOf(l)'
  <2>1. MapOf(l) /\ servers[l] # p
    BY <1>2, <1>5, Apart DEF PlaceInv, ProcsInv
  <2> QED BY <1>3, <1>5, <2>1, Places DEF MapOf
<1>8. ASSUME NEW q \in Procs PROVE PlaceOf(q)'
  <2>1. PlaceOf(q) /\ q # NoProc /\ proc[q].lang \in Langs
    BY Places DEF PlaceInv, ProcsInv
  <2>2. ASSUME NEW b \in Actors, actor[b].proc = q, q # p PROVE actor'[b].proc = q
    BY <1>2, <1>4, <2>2 DEF Rest
  <2>3. CASE q = p
    BY <1>3, <1>5, <2>3 DEF PlaceOf
  <2>4. CASE q # p
    BY <1>3, <1>5, <2>1, <2>2, <2>4 DEF PlaceOf
  <2> QED BY <2>3, <2>4
<1> QED BY <1>4, <1>6, <1>7, <1>8, OthersHands, NotGone DEF PlaceInv, HandsInv, ProcsInv

LEMMA TellsPlaced ==
    ASSUME PlaceInv, NEW a \in Actors, NotifyEdit(a) \/ Opens(a)
    PROVE  HandsInv' /\ ProcsInv'
<1>1. actor[a].at = "ready" /\ servers[Lang(a)] \in Procs
  BY Places DEF PlaceInv, HandsInv, HandsOf, NotifyEdit, Opens, At
<1>2. actor[a].proc = NoProc
  BY <1>1 DEF PlaceInv, HandsInv, HandsOf
<1>3. /\ Leaves(a) /\ UNCHANGED servers /\ actor'[a].proc = NoProc
      /\ actor'[a].at \in {"idle", "poll"}
      /\ \A q \in Procs : UNCHANGED <<proc[q].lang, proc[q].at>>
  <2>1. CASE NotifyEdit(a)
    BY <1>1, <2>1, NotifyEditDoes, IdleType DEF PlaceInv
  <2>2. CASE Opens(a)
    BY <1>1, <1>2, <2>2, OpensDoes DEF PlaceInv
  <2> QED BY <2>1, <2>2
<1> QED BY <1>2, <1>3, FramePlaced DEF Leaves

LEMMA StopPlaced ==
    ASSUME PlaceInv, NEW a \in Actors, Stop(a)
    PROVE  HandsInv' /\ ProcsInv'
<1>1. /\ Keeps(a) /\ Errand(a) /\ actor[a].at = "lock"
      /\ actor'[a].at = "stopping" /\ actor'[a].proc = servers[Lang(a)]
      /\ servers' = [servers EXCEPT ![Lang(a)] = NoProc]
      /\ \A q \in Procs :
           /\ UNCHANGED proc[q].lang
           /\ proc'[q].at = IF q = servers[Lang(a)] /\ proc[q].at = "up"
                            THEN "stopping" ELSE proc[q].at
  BY StopDoes DEF PlaceInv
<1>2. Working(a) /\ Working(a)' /\ Rest(a) /\ Holds(a) /\ Lang(a)' = Lang(a)
  BY <1>1 DEF Keeps, Errand, Lang
<1>3. /\ actor[a].proc = NoProc /\ Lang(a) \in Langs
      /\ servers \in [Langs -> Procs \cup {NoProc}] /\ MapOf(Lang(a))
  BY <1>1, Places DEF PlaceInv, BaseInv, TypeOK, HandsInv, HandsOf, ProcsInv
<1>4. HandsOf(a)'
  BY <1>1, <1>2, <1>3 DEF HandsOf, MapOf
<1>5. ASSUME NEW l \in Langs PROVE MapOf(l)'
  <2>1. MapOf(l)
    BY DEF PlaceInv, ProcsInv
  <2> QED BY <1>1, <1>3, <2>1, Places DEF MapOf
<1>6. ASSUME NEW q \in Procs PROVE PlaceOf(q)'
  <2>1. PlaceOf(q) /\ q # NoProc /\ proc[q].lang \in Langs
    BY Places DEF PlaceInv, ProcsInv
  <2>2. ASSUME NEW b \in Actors, actor[b].proc = q PROVE actor'[b].proc = q
    BY <1>2, <1>3, <2>1, <2>2 DEF Rest
  <2>3. CASE q = servers[Lang(a)]
    BY <1>1, <1>3, <2>1, <2>2, <2>3 DEF PlaceOf
  <2>4. CASE q # servers[Lang(a)]
    BY <1>1, <1>3, <2>1, <2>2, <2>4 DEF PlaceOf
  <2> QED BY <2>3, <2>4
<1> QED BY <1>2, <1>4, <1>5, <1>6, OthersHands, NotGone DEF PlaceInv, HandsInv, ProcsInv

LEMMA KilledPlaced ==
    ASSUME PlaceInv, NEW a \in Actors, Killed(a)
    PROVE  HandsInv' /\ ProcsInv'
<1>1. /\ Keeps(a) /\ UNCHANGED servers /\ actor'[a].proc = NoProc
      /\ actor'[a].at \in {"over", "ensure"}
      /\ \A q \in Procs :
           /\ UNCHANGED proc[q].lang
           /\ proc'[q].at = IF q = actor[a].proc THEN "dead" ELSE proc[q].at
  BY KilledDoes DEF PlaceInv
<1>2. Working(a) /\ Working(a)' /\ Rest(a) /\ Holds(a)
  BY <1>1 DEF Keeps
<1>3. HandsOf(a)'
  BY <1>1 DEF HandsOf
<1>4. ASSUME NEW l \in Langs PROVE MapOf(l)'
  <2>1. MapOf(l) /\ (servers[l] # NoProc => servers[l] # actor[a].proc)
    BY Apart DEF PlaceInv, ProcsInv
  <2> QED BY <1>1, <2>1, Places DEF MapOf
<1>5. ASSUME NEW q \in Procs PROVE PlaceOf(q)'
  <2>1. PlaceOf(q)
    BY DEF PlaceInv, ProcsInv
  <2>2. ASSUME NEW b \in Actors, actor[b].proc = q, q # actor[a].proc PROVE actor'[b].proc = q
    BY <1>2, <2>2 DEF Rest
  <2> QED BY <1>1, <2>1, <2>2 DEF PlaceOf
<1> QED BY <1>2, <1>3, <1>4, <1>5, OthersHands, NotGone DEF PlaceInv, HandsInv, ProcsInv

LEMMA AbortPlaced ==
    ASSUME PlaceInv, NEW a \in Calls, Abort(a)
    PROVE  HandsInv' /\ ProcsInv'
<1>1. /\ Rest(a) /\ actor'[a] = Idle /\ Working(a) /\ UNCHANGED servers
      /\ \A q \in Procs : /\ UNCHANGED proc[q].lang
                          /\ proc'[q].at = IF q = actor[a].proc THEN "dead" ELSE proc[q].at
  BY AbortDoes DEF PlaceInv
<1>2. a \in Actors /\ Working(a)'
  BY <1>1, IdleType DEF Working
<1>3. ASSUME NEW b \in Actors PROVE HandsOf(b)'
  <2>1. CASE b = a
    BY <1>1, <2>1, IdleType DEF HandsOf
  <2>2. CASE b # a
    <3>1. actor'[b] = actor[b] /\ Lang(b)' = Lang(b) /\ HandsOf(b)
      BY <1>1, <2>2 DEF Rest, Lang, PlaceInv, HandsInv
    <3>2. actor[b].proc # NoProc => actor[b].proc # actor[a].proc
      BY <1>2, <2>2, Places, OneInside DEF PlaceInv
    <3> QED BY <1>1, <3>1, <3>2, Places DEF HandsOf
  <2> QED BY <2>1, <2>2
<1>4. ASSUME NEW l \in Langs PROVE MapOf(l)'
  <2>1. MapOf(l) /\ (servers[l] # NoProc => servers[l] # actor[a].proc)
    BY <1>2, Apart DEF PlaceInv, ProcsInv
  <2> QED BY <1>1, <2>1, Places DEF MapOf
<1>5. ASSUME NEW q \in Procs PROVE PlaceOf(q)'
  <2>1. PlaceOf(q)
    BY DEF PlaceInv, ProcsInv
  <2>2. ASSUME NEW b \in Actors, actor[b].proc = q, q # actor[a].proc PROVE actor'[b].proc = q
    BY <1>1, <2>2 DEF Rest
  <2> QED BY <1>1, <2>1, <2>2 DEF PlaceOf
<1> QED BY <1>1, <1>2, <1>3, <1>4, <1>5, NotGone DEF PlaceInv, HandsInv, ProcsInv

LEMMA PumpPlaced ==
    ASSUME PlaceInv, Pump
    PROVE  HandsInv' /\ ProcsInv'
<1>1. /\ Leaves(Loop) /\ actor'[Loop] = Idle /\ UNCHANGED proc /\ Loop \in Actors
      /\ servers' = [l \in Langs |-> IF Crashed(l) THEN NoProc ELSE servers[l]]
  BY PumpDoes, IdleType DEF PlaceInv
<1>2. Working(Loop) /\ Working(Loop)' /\ Rest(Loop) /\ Holds(Loop) /\ actor[Loop].proc = NoProc
  <2>1. actor[Loop].at = "lock"
    BY DEF Pump, At
  <2> QED BY <1>1, <2>1 DEF Leaves, PlaceInv, HandsInv, HandsOf
<1>3. HandsOf(Loop)'
  BY <1>1, IdleType DEF HandsOf
<1>4. \A l \in Langs : MapOf(l)'
  BY <1>1 DEF PlaceInv, ProcsInv, MapOf
<1>5. ASSUME NEW q \in Procs PROVE PlaceOf(q)'
  <2>1. PlaceOf(q) /\ q # NoProc /\ proc[q].lang \in Langs
    BY Places DEF PlaceInv, ProcsInv
  <2>2. ASSUME NEW b \in Actors, actor[b].proc = q PROVE actor'[b].proc = q
    BY <1>2, <2>1, <2>2 DEF Rest
  <2> QED BY <1>1, <2>1, <2>2 DEF PlaceOf, Crashed
<1> QED BY <1>1, <1>2, <1>3, <1>4, <1>5, OthersHands, NotGone DEF PlaceInv, HandsInv, ProcsInv

LEMMA QuitPlaced ==
    ASSUME PlaceInv, Quit
    PROVE  HandsInv' /\ ProcsInv'
<1>1. /\ actor[Loop].at = "idle" /\ UNCHANGED servers
      /\ actor'[Loop].at = "lock" /\ actor'[Loop].proc = NoProc
      /\ \A a \in Calls : actor'[a] = [Idle EXCEPT !.at = "gone"]
      /\ \A q \in Procs : /\ UNCHANGED proc[q].lang
                          /\ proc'[q].at = IF \E a \in Calls : actor[a].proc = q
                                           THEN "dead" ELSE proc[q].at
  BY QuitDoes DEF PlaceInv
<1>2. \A a \in Actors : actor'[a].proc = NoProc /\ actor'[a].at \in {"lock", "gone"}
  BY <1>1, IdleType DEF Actors, ActorStates
<1>3. \A a \in Actors : HandsOf(a)'
  BY <1>2 DEF HandsOf
<1>4. actor[Loop].proc = NoProc
  BY <1>1, IdleType DEF PlaceInv, HandsInv, HandsOf
<1>5. ASSUME NEW l \in Langs PROVE MapOf(l)'
  <2>1. MapOf(l) /\ (servers[l] # NoProc => ~\E a \in Calls : actor[a].proc = servers[l])
    BY IdleType, Apart DEF PlaceInv, ProcsInv
  <2> QED BY <1>1, <2>1, Places DEF MapOf
<1>6. ASSUME NEW q \in Procs PROVE PlaceOf(q)'
  <2>1. PlaceOf(q) /\ q # NoProc
    BY Places DEF PlaceInv, ProcsInv
  <2>2. ASSUME NEW b \in Actors, actor[b].proc = q PROVE proc'[q].at = "dead"
    BY <1>1, <1>4, <2>1, <2>2 DEF Actors
  <2> QED BY <1>1, <2>1, <2>2 DEF PlaceOf
<1> QED BY <1>1, <1>3, <1>5, <1>6 DEF HandsInv, ProcsInv, At

LEMMA ShutdownPlaced ==
    ASSUME PlaceInv, ShutdownAll
    PROVE  HandsInv' /\ ProcsInv'
<1>1. /\ actor[Loop].op = "quit" /\ actor[Loop].at = "lock" /\ Rest(Loop)
      /\ actor'[Loop].at = "gone" /\ UNCHANGED actor[Loop].proc
      /\ servers' = [l \in Langs |-> NoProc]
      /\ \A q \in Procs : /\ UNCHANGED proc[q].lang
                          /\ proc'[q].at = IF \E l \in Langs : servers[l] = q
                                           THEN "dead" ELSE proc[q].at
  BY ShutdownDoes DEF PlaceInv
<1>2. actor[Loop].proc = NoProc
  BY <1>1, IdleType DEF PlaceInv, HandsInv, HandsOf
<1>3. ASSUME NEW a \in Calls PROVE actor[a].proc = NoProc /\ actor[a].at = "gone" /\ actor'[a] = actor[a]
  BY <1>1, IdleType, LspAssumption DEF PlaceInv, BaseInv, LineInv, ActorStates, Rest
<1>4. \A a \in Actors : actor[a].proc = NoProc /\ actor'[a].proc = NoProc /\ actor'[a].at = "gone"
  BY <1>1, <1>2, <1>3 DEF Actors
<1>5. \A a \in Actors : HandsOf(a)'
  BY <1>4 DEF HandsOf
<1>6. \A l \in Langs : MapOf(l)' /\ servers'[l] = NoProc
  BY <1>1 DEF MapOf
<1>7. ASSUME NEW q \in Procs PROVE PlaceOf(q)'
  <2>1. PlaceOf(q) /\ q # NoProc /\ proc[q].lang \in Langs
    BY Places DEF PlaceInv, ProcsInv
  <2> QED BY <1>1, <1>4, <2>1 DEF PlaceOf
<1> QED BY <1>5, <1>6, <1>7 DEF HandsInv, ProcsInv

LEMMA ServerPlaced ==
    ASSUME PlaceInv, NEW p \in Procs, Publish(p) \/ Crash(p)
    PROVE  HandsInv' /\ ProcsInv'
<1>1. /\ UNCHANGED <<actor, servers>> /\ proc[p].at = "up" /\ proc'[p].at \in {"up", "crashed"}
      /\ \A q \in Procs : UNCHANGED proc[q].lang
      /\ \A q \in Procs : q # p => proc'[q] = proc[q]
  BY ServerDoes DEF PlaceInv
<1>2. ASSUME NEW a \in Actors PROVE HandsOf(a)'
  <2>1. HandsOf(a)
    BY DEF PlaceInv, HandsInv
  <2>2. actor[a].proc # NoProc => actor[a].proc # p
    BY <1>1, Places
  <2> QED BY <1>1, <2>1, <2>2, Places DEF HandsOf, Lang
<1>3. ASSUME NEW l \in Langs PROVE MapOf(l)'
  <2>1. MapOf(l)
    BY DEF PlaceInv, ProcsInv
  <2> QED BY <1>1, <2>1, Places DEF MapOf
<1>4. ASSUME NEW q \in Procs PROVE PlaceOf(q)'
  <2>1. PlaceOf(q)
    BY DEF PlaceInv, ProcsInv
  <2> QED BY <1>1, <2>1 DEF PlaceOf
<1> QED BY <1>1, <1>2, <1>3, <1>4 DEF PlaceInv, HandsInv, ProcsInv, At

LEMMA PlaceStep ==
    ASSUME PlaceInv, [Next]_vars
    PROVE  PlaceInv'
<1> USE DEF PlaceInv
<1> DEFINE Kept == LineTypes' /\ LineInv' /\ proc' \in [Procs -> ProcStates] /\ HandsInv' /\ ProcsInv'
<1>1. DataTypes'
  BY DataKept DEF BaseInv
<1>2. SUFFICES Kept
  BY <1>1 DEF DataTypes, LineTypes, BaseInv, TypeOK
<1>3. proc \in [Procs -> ProcStates]
  BY DEF BaseInv, TypeOK
<1>4. ASSUME NEW a \in Actors, Manage(a) \/ (a \in Calls /\ Edit(a)) \/ (a \in Calls /\ Analyze(a))
      PROVE  Kept
  <2>1. /\ Joins(a) /\ Frame /\ actor' \in [Actors -> ActorStates] /\ actor'[a].proc = NoProc
        /\ actor'[a].at = "lock"
    BY <1>4, EditDoes, BeginDoes
  <2>2. actor[a].proc = NoProc
    BY <2>1 DEF Joins, HandsInv, HandsOf, Waiting, Inside
  <2> QED BY <1>3, <2>1, <2>2, LineKept, FramePlaced DEF Joins, Frame
<1>5. ASSUME NEW a \in Actors, Ensure(a) PROVE Kept
  <2>1. Keeps(a) /\ actor' \in [Actors -> ActorStates] /\ proc' \in [Procs -> ProcStates]
    BY <1>5, EnsureDoes
  <2> QED BY <1>5, <2>1, LineKept, EnsurePlaced
<1>6. ASSUME NEW a \in Actors, Initialized(a) \/ InitFails(a) PROVE Kept
  <2>1. actor[a].proc \in Procs
    BY <1>6, Places DEF HandsInv, HandsOf, Initialized, InitFails, At
  <2>2. Keeps(a) /\ actor' \in [Actors -> ActorStates] /\ proc' \in [Procs -> ProcStates]
    BY <1>6, <2>1, InitDoes
  <2> QED BY <1>6, <2>2, LineKept, InitPlaced
<1>7. ASSUME NEW a \in Actors, NotifyEdit(a) \/ Opens(a) PROVE Kept
  <2>1. servers[Lang(a)] \in Procs
    BY <1>7, Places DEF HandsInv, HandsOf, NotifyEdit, Opens, At
  <2>2. Leaves(a) /\ actor' \in [Actors -> ActorStates] /\ proc' \in [Procs -> ProcStates]
    BY <1>7, <2>1, NotifyEditDoes, OpensDoes
  <2> QED BY <1>7, <2>2, LineKept, TellsPlaced
<1>8. ASSUME NEW a \in Actors, Stop(a) PROVE Kept
  <2>1. Keeps(a) /\ actor' \in [Actors -> ActorStates] /\ proc' \in [Procs -> ProcStates]
    BY <1>8, StopDoes
  <2> QED BY <1>8, <2>1, LineKept, StopPlaced
<1>9. ASSUME NEW a \in Actors, Killed(a) PROVE Kept
  <2>1. Keeps(a) /\ actor' \in [Actors -> ActorStates] /\ proc' \in [Procs -> ProcStates]
    BY <1>9, KilledDoes
  <2> QED BY <1>9, <2>1, LineKept, KilledPlaced
<1>10. ASSUME NEW a \in Actors,
              Leave(a) \/ Poll(a) \/ Look(a) \/ (a \in Calls /\ GiveUp(a)) \/ Return(a)
       PROVE  Kept
  <2>1. /\ Joins(a) \/ Leaves(a) \/ Stays(a)
        /\ Frame /\ actor' \in [Actors -> ActorStates]
        /\ \/ actor'[a] = Idle
           \/ UNCHANGED actor[a].proc /\ actor'[a].at \in {"look", "poll", "done"}
    BY <1>10, LooksDoes
  <2>2. actor[a].at \in {"over", "ready", "poll", "look", "done"}
    BY <1>10 DEF Leave, Poll, Look, GiveUp, Return, At
  <2>3. actor[a].proc = NoProc /\ actor'[a].proc = NoProc
        /\ actor'[a].at \in {"idle", "look", "poll", "done"}
    BY <2>1, <2>2, IdleType DEF HandsInv, HandsOf
  <2>4. Working(a) /\ Working(a)' /\ Rest(a)
    BY <2>1 DEF Joins, Leaves, Stays
  <2> QED BY <1>3, <2>1, <2>3, <2>4, LineKept, FramePlaced DEF Frame
<1>11. ASSUME NEW a \in Calls, Abort(a) PROVE Kept
  BY <1>11, AbortDoes, AbortLine, AbortPlaced
<1>12. CASE Arm \/ Tick \/ Otherwise
  <2>1. /\ Joins(Loop) \/ Stays(Loop)
        /\ Frame /\ actor' \in [Actors -> ActorStates]
        /\ actor[Loop].at \in {"idle", "armed"} /\ actor'[Loop].at \in {"idle", "armed", "lock"}
        /\ actor'[Loop].proc \in {actor[Loop].proc, NoProc}
    BY <1>12, SelectDoes
  <2>2. actor[Loop].proc = NoProc /\ actor'[Loop].proc = NoProc /\ Loop \in Actors
    BY <2>1, IdleType DEF HandsInv, HandsOf
  <2>3. Working(Loop) /\ Working(Loop)' /\ Rest(Loop)
    BY <2>1 DEF Joins, Stays
  <2> QED BY <1>3, <2>1, <2>2, <2>3, LineKept, FramePlaced DEF Frame
<1>13. CASE Pump
  <2>1. Leaves(Loop) /\ actor' \in [Actors -> ActorStates] /\ UNCHANGED proc /\ Loop \in Actors
    BY <1>13, PumpDoes, IdleType
  <2> QED BY <1>3, <1>13, <2>1, LineKept, PumpPlaced
<1>14. CASE Quit
  BY <1>14, QuitDoes, QuitLine, QuitPlaced
<1>15. CASE ShutdownAll
  BY <1>15, ShutdownDoes, ShutdownLine, ShutdownPlaced
<1>16. ASSUME NEW p \in Procs, Publish(p) \/ Crash(p) PROVE Kept
  <2>1. UNCHANGED <<queue, actor>> /\ proc' \in [Procs -> ProcStates]
    BY <1>16, ServerDoes
  <2>2. LineTypes' /\ LineInv'
    BY <2>1 DEF BaseInv, TypeOK, LineTypes, LineInv, InLine, Holds, OnlyLoopQuits, IsInjective, At
  <2> QED BY <1>16, <2>1, <2>2, ServerPlaced
<1>17. CASE UNCHANGED vars
  <2>1. UNCHANGED <<queue, actor, servers, proc>>
    BY <1>17 DEF vars
  <2>2. LineTypes' /\ LineInv'
    BY <2>1 DEF BaseInv, TypeOK, LineTypes, LineInv, InLine, Holds, OnlyLoopQuits, IsInjective, At
  <2>3. HandsInv'
    BY <2>1 DEF HandsInv, HandsOf, Lang
  <2>4. ProcsInv'
    BY <2>1 DEF ProcsInv, MapOf, PlaceOf, At
  <2> QED BY <1>3, <2>1, <2>2, <2>3, <2>4
<1> HIDE DEF Kept
<1>18. ASSUME NEW a \in Actors, Works(a) PROVE Kept
  BY <1>5, <1>6, <1>7, <1>8, <1>9, <1>10, <1>18 DEF Works
<1>19. ASSUME NEW a \in Calls, Asks(a) \/ Works(a) \/ GiveUp(a) \/ Abort(a) PROVE Kept
  <2>1. a \in Actors
    BY IdleType
  <2>2. CASE Asks(a)
    <3>1. a \in Calls /\ (Edit(a) \/ Analyze(a) \/ Manage(a))
      BY <2>2 DEF Asks
    <3> QED BY <1>4, <2>1, <3>1
  <2>3. CASE GiveUp(a)
    BY <1>10, <2>1, <2>3
  <2> QED BY <1>11, <1>18, <1>19, <2>1, <2>2, <2>3
<1>20. CASE Manage(Loop) \/ Serves
  BY <1>4, <1>13, <1>15, <1>18, <1>20, IdleType DEF Serves
<1> QED BY <1>12, <1>14, <1>16, <1>17, <1>19, <1>20 DEF Next

LEMMA InitPlaces == Init => PlaceInv
<1> SUFFICES ASSUME Init PROVE PlaceInv
  OBVIOUS
<1>1. TypeOK
  BY InitTypes
<1>2. /\ \A a \in Actors : actor[a].at = "idle" /\ actor[a].op = "none" /\ actor[a].proc = NoProc
      /\ Loop \in Actors /\ Calls \subseteq Actors
  BY IdleType DEF Init
<1>3. queue = <<>> /\ \A p \in Procs : proc[p].at = "none"
  BY DEF Init
<1>4. \A l \in Langs : servers[l] = NoProc
  BY DEF Init
<1>5. LineInv
  BY <1>2, <1>3 DEF LineInv, InLine, OnlyLoopQuits, Waiting, Inside
<1>6. HandsInv
  BY <1>2 DEF HandsInv, HandsOf
<1>7. ProcsInv
  BY <1>2, <1>3, <1>4 DEF ProcsInv, MapOf, PlaceOf, At
<1> QED BY <1>1, <1>5, <1>6, <1>7 DEF PlaceInv, BaseInv

\* The variables keep their types: the map has processes, the mutex a line
\* without repetition, and no counter passes its bound.
THEOREM TypeCorrect == Spec => []TypeOK
<1>1. PlaceInv => TypeOK
  BY DEF PlaceInv, BaseInv
<1> QED BY <1>1, InitPlaces, PlaceStep, PTL DEF Spec

\* No server outlives its use: a process that runs is in the manager's map, or
\* in the hands of the call that holds the manager; each language has one at
\* most, whatever call was dropped and whatever server never answered; and
\* after shutdown_all none is left.
THEOREM NoOrphanSafe == Spec => []NoOrphan
<1>1. ASSUME PlaceInv PROVE NoOrphan
  <2> USE <1>1
  <2>1. ASSUME NEW p \in Procs, Alive(p)
        PROVE  servers[proc[p].lang] = p \/
               \E a \in Actors : /\ actor[a].proc = p /\ Holds(a) /\ Lang(a) = proc[p].lang
                                 /\ servers[proc[p].lang] = NoProc /\ actor[a].at # "gone"
    <3>1. PlaceOf(p) /\ proc[p].at \in AliveAs /\ p # NoProc
      BY <2>1, Places DEF Alive, PlaceInv, ProcsInv
    <3> QED BY <3>1, Places DEF PlaceOf, AliveAs, Inside
  <2>2. ASSUME NEW p \in Procs, Alive(p)
        PROVE  servers[proc[p].lang] = p \/ (queue # <<>> /\ actor[Head(queue)].proc = p)
    BY <2>1, <2>2 DEF Holds
  <2>3. ASSUME NEW p \in Procs, NEW q \in Procs, Alive(p), Alive(q), proc[p].lang = proc[q].lang
        PROVE  p = q
    <3>1. p # NoProc /\ q # NoProc
      BY Places
    <3>2. CASE servers[proc[p].lang] = p
      BY <2>1, <2>3, <3>1, <3>2
    <3>3. CASE servers[proc[p].lang] # p
      <4>1. PICK a \in Actors : actor[a].proc = p /\ Holds(a) /\ servers[proc[p].lang] = NoProc
        BY <2>1, <2>3, <3>3
      <4>2. PICK b \in Actors : actor[b].proc = q /\ Holds(b)
        BY <2>1, <2>3, <3>1, <4>1
      <4> QED BY <4>1, <4>2 DEF Holds
    <3> QED BY <3>2, <3>3
  <2>4. ASSUME At(Loop, "gone"), NEW p \in Procs PROVE ~Alive(p)
    <3> SUFFICES ASSUME Alive(p) PROVE FALSE
      OBVIOUS
    <3>1. p # NoProc /\ servers[proc[p].lang] = NoProc
      BY <2>4, Places DEF PlaceInv, ProcsInv
    <3>2. PICK a \in Actors : actor[a].proc = p /\ actor[a].at # "gone"
      BY <2>1, <3>1
    <3>3. a \in Calls
      BY <2>4, <3>2 DEF At, Actors
    <3>4. actor[a] = [Idle EXCEPT !.at = "gone"] /\ [Idle EXCEPT !.at = "gone"].at = "gone"
      BY <2>4, <3>3, IdleType DEF At, PlaceInv, BaseInv, LineInv, ActorStates
    <3> QED BY <3>2, <3>4
  <2> QED BY <2>2, <2>3, <2>4 DEF NoOrphan
<1> QED BY <1>1, InitPlaces, PlaceStep, PTL DEF Spec

(***************************************************************************)
(* What an edit carries                                                    *)
(***************************************************************************)
StepInv == PlaceInv /\ EditsInv /\ DocsInv /\ InStep

\* Every edit of a file starts its server, and no call is dropped before it
\* told the server what it wrote.
Carried == "abort" \notin Windows /\ Langs \subseteq AutoStart

\* Whoever works, the shutdown has not begun.
LEMMA NotQuit ==
    ASSUME BaseInv, NEW a \in Actors, Working(a)
    PROVE  actor[Loop].op # "quit"
<1>1. a = Loop \/ a \in Calls
  BY DEF Actors
<1>2. [Idle EXCEPT !.at = "gone"].at = "gone"
  BY IdleType DEF ActorStates
<1> QED BY <1>1, <1>2 DEF BaseInv, LineInv, Working

\* A step of one actor leaves the edits of the others.
LEMMA EditsFrame ==
    ASSUME StepInv, NEW a \in Actors, Rest(a), UNCHANGED disk, UNCHANGED servers \/ Holds(a),
           NamedOf(a)', EditOf(a)', actor'[a].op = "edit" => Errand(a)
    PROVE  EditsInv'
<1> USE DEF StepInv, EditsInv
<1>1. ASSUME NEW b \in Actors, b # a PROVE NamedOf(b)' /\ EditOf(b)'
  <2>1. actor'[b] = actor[b] /\ Lang(b)' = Lang(b) /\ NamedOf(b) /\ EditOf(b)
    BY <1>1 DEF Rest, Lang
  <2>2. Holds(a) => actor[b].at # "over"
    BY <1>1, OneInside DEF PlaceInv, Inside
  <2> QED BY <2>1, <2>2 DEF NamedOf, EditOf
<1>2. ASSUME NEW b \in Actors, actor'[b].op = "edit"
      PROVE  actor[b].op = "edit" /\ actor'[b].file = actor[b].file
  BY <1>2 DEF Rest, Errand
<1>3. OneEdit'
  BY <1>2 DEF OneEdit
<1> QED BY <1>1, <1>3

\* A step that shows no document to a server leaves the documents.
LEMMA DocsFrame ==
    ASSUME StepInv, \A q \in Procs : UNCHANGED <<proc[q].lang, proc[q].docs>>,
           \A q \in Procs : proc'[q].at \in {"none", "starting", "deaf"} => proc'[q].at = proc[q].at
    PROVE  DocsInv'
BY DEF StepInv, DocsInv, DocsOf

\* An actor that ends no edit, or ends one whose language has no server.
LEMMA InStepFrame ==
    ASSUME StepInv, PlaceInv', NEW a \in Actors, Working(a), Rest(a), UNCHANGED disk,
           \A q \in Procs : UNCHANGED <<proc[q].lang, proc[q].docs, proc[q].has>>,
           \A q \in Procs : proc'[q].at = "up" => proc[q].at = "up" \/ proc[q].docs = {},
           actor[a].op = "edit" => Errand(a) \/ servers'[Lang(a)] = NoProc
    PROVE  InStep'
<1> USE DEF StepInv
<1>1. SUFFICES ASSUME NEW l \in Langs, NEW p \in Procs, servers'[l] = p, proc'[p].at = "up",
                      NEW f \in proc'[p].docs
               PROVE  \/ proc'[p].has[f] = disk'[f]
                      \/ \E b \in Calls : actor'[b].op = "edit" /\ actor'[b].file = f
  BY DEF InStep, PlaceInv, BaseInv, TypeOK
<1>2. proc'[p].lang = l /\ p # NoProc
  BY <1>1, NoProcApart DEF PlaceInv, ProcsInv, MapOf
<1>3. proc[p].at = "up" /\ f \in proc[p].docs /\ proc[p].lang = l /\ LangOf[f] = l
  BY <1>1, <1>2 DEF DocsInv, DocsOf
<1>4. servers[l] = p
  BY <1>3 DEF PlaceInv, ProcsInv, PlaceOf
<1>5. \/ proc[p].has[f] = disk[f]
      \/ \E b \in Calls : actor[b].op = "edit" /\ actor[b].file = f
  BY <1>2, <1>3, <1>4, NotQuit DEF InStep, PlaceInv
<1>6. ASSUME NEW b \in Calls, actor[b].op = "edit", actor[b].file = f
      PROVE  actor'[b].op = "edit" /\ actor'[b].file = f
  <2>1. b \in Actors
    BY IdleType
  <2>2. Lang(b) = l
    BY <1>3, <1>6, <2>1 DEF EditsInv, NamedOf, FileOps
  <2>3. CASE b = a
    BY <1>1, <1>2, <1>6, <2>2, <2>3 DEF Errand
  <2>4. CASE b # a
    BY <1>6, <2>1, <2>4 DEF Rest
  <2> QED BY <2>3, <2>4
<1> QED BY <1>1, <1>5, <1>6

LEMMA EditSteps ==
    ASSUME StepInv, PlaceInv', NEW a \in Calls, Edit(a)
    PROVE  EditsInv' /\ DocsInv' /\ InStep'
<1> USE DEF StepInv
<1>1. PICK f \in Files : /\ \A b \in Calls : ~(actor[b].op = "edit" /\ actor[b].file = f)
                         /\ disk' = [disk EXCEPT ![f] = @ + 1]
                         /\ actor'[a].file = f /\ actor'[a].lang = LangOf[f]
                         /\ actor'[a].version = disk'[f]
  BY EditDoes DEF PlaceInv
<1>2. Joins(a) /\ Frame /\ actor'[a].op = "edit" /\ actor'[a].at = "lock"
  BY EditDoes DEF PlaceInv
<1>3. Rest(a) /\ Working(a) /\ a \in Actors /\ Lang(a)' = LangOf[f] /\ disk \in [Files -> 1..MaxVersion]
  BY <1>1, <1>2, IdleType DEF Joins, Lang, PlaceInv, BaseInv, TypeOK
<1>4. ASSUME NEW b \in Actors, b # a
      PROVE  /\ actor'[b] = actor[b] /\ NamedOf(b)' /\ EditOf(b)'
             /\ actor[b].op = "edit" => actor[b].file # f
  <2>1. actor'[b] = actor[b] /\ Lang(b)' = Lang(b) /\ NamedOf(b) /\ EditOf(b)
    BY <1>3, <1>4 DEF Rest, Lang, EditsInv
  <2>2. actor[b].op = "edit" => actor[b].file # f
    BY <1>1, <2>1 DEF EditOf
  <2>3. actor[b].file \in Files
    BY DEF PlaceInv, BaseInv, TypeOK, ActorStates
  <2> QED BY <1>1, <1>2, <1>3, <2>1, <2>2, <2>3 DEF NamedOf, EditOf, Frame
<1>5. EditsInv'
  <2>1. NamedOf(a)' /\ EditOf(a)'
    BY <1>1, <1>2, <1>3 DEF NamedOf, EditOf
  <2>2. OneEdit'
    BY <1>1, <1>4 DEF OneEdit, EditsInv
  <2> QED BY <1>4, <2>1, <2>2 DEF EditsInv
<1>6. DocsInv'
  BY <1>2, DocsFrame DEF Frame
<1>7. InStep'
  <2>1. SUFFICES ASSUME NEW l \in Langs, servers[l] # NoProc, proc[servers[l]].at = "up",
                        NEW g \in proc[servers[l]].docs
                 PROVE  \/ proc[servers[l]].has[g] = disk'[g]
                        \/ \E b \in Calls : actor'[b].op = "edit" /\ actor'[b].file = g
    BY <1>2 DEF InStep, Frame
  <2>2. CASE g = f
    BY <1>1, <1>2, <2>2
  <2>3. CASE g # f
    <3>1. \/ proc[servers[l]].has[g] = disk[g]
          \/ \E b \in Calls : actor[b].op = "edit" /\ actor[b].file = g
      BY <1>3, <2>1, NotQuit DEF InStep, PlaceInv
    <3>2. disk'[g] = disk[g]
      <4>1. servers[l] \in Procs
        BY <2>1, Places
      <4>2. g \in Files
        BY <4>1 DEF PlaceInv, BaseInv, TypeOK, ProcStates
      <4> QED BY <1>1, <1>3, <2>3, <4>2
    <3>3. ASSUME NEW b \in Calls, actor[b].op = "edit" PROVE b # a
      <4>1. EditOf(a) /\ actor[a].at \notin Waiting
        BY <1>2, <1>3 DEF EditsInv, Joins
      <4> QED BY <3>3, <4>1 DEF EditOf, Waiting, Inside
    <3>4. ASSUME NEW b \in Calls, actor[b].op = "edit", actor[b].file = g
          PROVE  actor'[b].op = "edit" /\ actor'[b].file = g
      BY <1>4, <3>3, <3>4, IdleType
    <3> QED BY <3>1, <3>2, <3>4
  <2> QED BY <2>2, <2>3
<1> QED BY <1>5, <1>6, <1>7

LEMMA EnsureSteps ==
    ASSUME Carried, StepInv, PlaceInv', NEW a \in Actors, Ensure(a)
    PROVE  EditsInv' /\ DocsInv' /\ InStep'
<1> USE DEF StepInv
<1>1. /\ Keeps(a) /\ Errand(a) /\ UNCHANGED <<servers, disk, actor[a].version>>
      /\ actor[a].at \in {"lock", "ensure"}
      /\ actor'[a].at = "ready"
         \/ (actor'[a].at = "over" /\ (Ignored(a) \/ servers[Lang(a)] = NoProc))
         \/ actor'[a].at = "init"
      /\ \/ UNCHANGED proc
         \/ \E p \in Procs : /\ proc[p].at = "none" /\ proc'[p].at \in {"starting", "deaf"}
                             /\ proc'[p].docs = proc[p].docs
                             /\ \A q \in Procs : q # p => proc'[q] = proc[q]
  BY EnsureDoes DEF PlaceInv
<1>2. /\ Working(a) /\ Rest(a) /\ Holds(a) /\ Lang(a)' = Lang(a) /\ ~Ignored(a)
      /\ NamedOf(a) /\ EditOf(a)
  BY <1>1, Places DEF Keeps, Errand, Lang, Ignored, Carried, EditsInv
<1>3. NamedOf(a)' /\ EditOf(a)'
  BY <1>1, <1>2 DEF NamedOf, EditOf, Errand
<1>4. EditsInv'
  BY <1>1, <1>2, <1>3, EditsFrame
<1>5. \A q \in Procs : /\ proc'[q] = proc[q] \/ (proc[q].docs = {} /\ proc'[q].docs = {}
                                                /\ proc'[q].at \in {"starting", "deaf"})
  BY <1>1 DEF DocsInv, DocsOf
<1>6. DocsInv'
  BY <1>5 DEF DocsInv, DocsOf
<1>7. InStep'
  <2>1. SUFFICES ASSUME NEW l \in Langs, servers[l] # NoProc, proc'[servers[l]].at = "up",
                        NEW f \in proc'[servers[l]].docs
                 PROVE  \/ proc'[servers[l]].has[f] = disk[f]
                        \/ \E b \in Calls : actor'[b].op = "edit" /\ actor'[b].file = f
    BY <1>1 DEF InStep
  <2>2. proc'[servers[l]] = proc[servers[l]]
    BY <1>5, <2>1, Places
  <2>3. \/ proc[servers[l]].has[f] = disk[f]
        \/ \E b \in Calls : actor[b].op = "edit" /\ actor[b].file = f
    BY <1>2, <2>1, <2>2, NotQuit DEF InStep, PlaceInv
  <2>4. \A b \in Calls : actor'[b].op = actor[b].op /\ actor'[b].file = actor[b].file
    BY <1>1, <1>2, IdleType DEF Rest, Errand
  <2> QED BY <2>2, <2>3, <2>4
<1> QED BY <1>4, <1>6, <1>7

LEMMA InitSteps ==
    ASSUME StepInv, PlaceInv', NEW a \in Actors, Initialized(a) \/ InitFails(a)
    PROVE  EditsInv' /\ DocsInv' /\ InStep'
<1> USE DEF StepInv
<1>1. actor[a].at = "init" /\ servers[Lang(a)] = NoProc
  BY DEF Initialized, InitFails, At, PlaceInv, HandsInv, HandsOf
<1>2. PICK p \in Procs : p = actor[a].proc
  BY <1>1, Places DEF PlaceInv, HandsInv, HandsOf
<1>3. /\ Keeps(a) /\ Errand(a) /\ UNCHANGED <<disk, actor[a].version>> /\ proc[p].at = "starting"
      /\ \A q \in Procs : q # p => proc'[q] = proc[q]
      /\ \A q \in Procs : UNCHANGED <<proc[q].lang, proc[q].docs, proc[q].has>>
      /\ \/ proc'[p].at = "up" /\ actor'[a].at = "ready"
         \/ proc'[p].at = "dead" /\ UNCHANGED servers /\ actor'[a].at = "over"
  BY <1>2, InitDoes DEF PlaceInv
<1>4. Working(a) /\ Rest(a) /\ Holds(a) /\ Lang(a)' = Lang(a) /\ NamedOf(a) /\ EditOf(a)
  BY <1>3 DEF Keeps, Errand, Lang, EditsInv
<1>5. NamedOf(a)' /\ EditOf(a)'
  BY <1>1, <1>3, <1>4 DEF NamedOf, EditOf, Errand
<1>6. EditsInv'
  BY <1>3, <1>4, <1>5, EditsFrame
<1>7. DocsInv'
  BY <1>3, DocsFrame
<1>8. \A q \in Procs : proc'[q].at = "up" => proc[q].at = "up" \/ proc[q].docs = {}
  BY <1>3 DEF DocsInv, DocsOf
<1>9. InStep'
  BY <1>3, <1>4, <1>8, InStepFrame
<1> QED BY <1>6, <1>7, <1>9

LEMMA NotifyEditSteps ==
    ASSUME StepInv, PlaceInv', NEW a \in Actors, NotifyEdit(a)
    PROVE  EditsInv' /\ DocsInv' /\ InStep'
<1> USE DEF StepInv
<1> DEFINE f == actor[a].file
<1>1. actor[a].at = "ready" /\ actor[a].op = "edit"
  BY DEF NotifyEdit, At
<1>2. servers[Lang(a)] \in Procs
  BY <1>1, Places DEF PlaceInv, HandsInv, HandsOf
<1>3. PICK p \in Procs : p = servers[Lang(a)]
  BY <1>2
<1>4. /\ Leaves(a) /\ actor'[a] = Idle /\ UNCHANGED <<disk, servers>>
      /\ \A q \in Procs : q # p => proc'[q] = proc[q]
      /\ \A q \in Procs : UNCHANGED <<proc[q].lang, proc[q].at, proc[q].docs>>
      /\ proc[p].at = "up" => \A g \in proc[p].docs :
            proc'[p].has[g] = IF g = f THEN actor[a].version ELSE proc[p].has[g]
  BY <1>2, <1>3, NotifyEditDoes DEF PlaceInv
<1>5. /\ Working(a) /\ Rest(a) /\ Holds(a) /\ Lang(a) = LangOf[f] /\ actor[a].version = disk[f]
      /\ proc[p].lang = Lang(a)
  <2>1. NamedOf(a) /\ EditOf(a) /\ MapOf(Lang(a))
    BY Places DEF EditsInv, PlaceInv, ProcsInv
  <2>2. p # NoProc
    BY NoProcApart
  <2> QED BY <1>1, <1>3, <1>4, <2>1, <2>2 DEF NamedOf, EditOf, FileOps, MapOf, Leaves
<1>6. EditsInv'
  <2>1. NamedOf(a)' /\ EditOf(a)' /\ actor'[a].op # "edit"
    BY <1>4, IdleType DEF NamedOf, EditOf, FileOps
  <2> QED BY <1>4, <1>5, <2>1, EditsFrame
<1>7. DocsInv'
  BY <1>4, DocsFrame
<1>8. InStep'
  <2>1. SUFFICES ASSUME NEW l \in Langs, NEW q \in Procs, servers[l] = q, proc[q].at = "up",
                        NEW g \in proc[q].docs
                 PROVE  \/ proc'[q].has[g] = disk[g]
                        \/ \E b \in Calls : actor'[b].op = "edit" /\ actor'[b].file = g
    <3>1. \A l \in Langs : servers[l] # NoProc => servers[l] \in Procs
      BY Places
    <3> HIDE DEF StepInv, f
    <3> QED BY <1>4, <3>1 DEF InStep
  <2>2. \/ proc[q].has[g] = disk[g]
        \/ \E b \in Calls : actor[b].op = "edit" /\ actor[b].file = g
    BY <1>5, <2>1, NotQuit, NoProcApart DEF InStep, PlaceInv
  <2>3. proc[q].lang = l /\ LangOf[g] = l
    BY <2>1, NoProcApart DEF PlaceInv, ProcsInv, MapOf, DocsInv, DocsOf
  <2>4. CASE g = f
    BY <1>3, <1>4, <1>5, <2>1, <2>3, <2>4
  <2>5. CASE g # f
    <3>1. proc'[q].has[g] = proc[q].has[g]
      BY <1>4, <2>1, <2>5
    <3>2. ASSUME NEW b \in Calls, actor[b].op = "edit", actor[b].file = g
          PROVE  actor'[b].op = "edit" /\ actor'[b].file = g
      BY <1>5, <2>5, <3>2, IdleType DEF Rest
    <3> QED BY <2>2, <3>1, <3>2
  <2> QED BY <2>4, <2>5
<1> QED BY <1>6, <1>7, <1>8

LEMMA OpensSteps ==
    ASSUME StepInv, PlaceInv', NEW a \in Actors, Opens(a)
    PROVE  EditsInv' /\ DocsInv' /\ InStep'
<1> USE DEF StepInv
<1> DEFINE f == actor[a].file
<1>1. actor[a].at = "ready" /\ actor[a].op = "analyze"
  BY DEF Opens, At
<1>2. servers[Lang(a)] \in Procs
  BY <1>1, Places DEF PlaceInv, HandsInv, HandsOf
<1>3. PICK p \in Procs : p = servers[Lang(a)]
  BY <1>2
<1>4. /\ Leaves(a) /\ Errand(a) /\ UNCHANGED <<disk, servers>>
      /\ \A q \in Procs : q # p => proc'[q] = proc[q]
      /\ \A q \in Procs : UNCHANGED <<proc[q].lang, proc[q].at>>
      /\ proc'[p].docs = proc[p].docs \cup {f}
      /\ proc[p].at = "up" => \A g \in proc'[p].docs :
            proc'[p].has[g] = IF g = f THEN disk[f] ELSE proc[p].has[g]
  BY <1>2, <1>3, OpensDoes DEF PlaceInv
<1>5. /\ Working(a) /\ Rest(a) /\ Holds(a) /\ Lang(a)' = Lang(a) /\ NamedOf(a)
      /\ Lang(a) = LangOf[f] /\ proc[p].lang = Lang(a) /\ proc[p].at \in {"up", "crashed"}
  <2>1. NamedOf(a) /\ MapOf(Lang(a))
    BY Places DEF EditsInv, PlaceInv, ProcsInv
  <2>2. p # NoProc
    BY NoProcApart
  <2> QED BY <1>1, <1>3, <1>4, <2>1, <2>2 DEF NamedOf, FileOps, MapOf, Leaves, Errand, Lang
<1>6. EditsInv'
  <2>1. NamedOf(a)' /\ EditOf(a)'
    BY <1>1, <1>4, <1>5 DEF NamedOf, EditOf, Errand
  <2> QED BY <1>4, <1>5, <2>1, EditsFrame
<1>7. DocsInv'
  <2> SUFFICES ASSUME NEW q \in Procs PROVE DocsOf(q)'
    BY DEF DocsInv
  <2>1. DocsOf(q)
    BY DEF DocsInv
  <2> QED BY <1>4, <1>5, <2>1 DEF DocsOf
<1>8. InStep'
  <2>1. SUFFICES ASSUME NEW l \in Langs, NEW q \in Procs, servers[l] = q, proc[q].at = "up",
                        NEW g \in proc'[q].docs
                 PROVE  \/ proc'[q].has[g] = disk[g]
                        \/ \E b \in Calls : actor'[b].op = "edit" /\ actor'[b].file = g
    <3>1. \A l \in Langs : servers[l] # NoProc => servers[l] \in Procs
      BY Places
    <3> HIDE DEF StepInv, f
    <3> QED BY <1>4, <3>1 DEF InStep
  <2>2. CASE q = p /\ g = f
    BY <1>4, <2>1, <2>2
  <2>3. CASE ~(q = p /\ g = f)
    <3>1. g \in proc[q].docs /\ proc'[q].has[g] = proc[q].has[g]
      BY <1>4, <2>1, <2>3
    <3>2. \/ proc[q].has[g] = disk[g]
          \/ \E b \in Calls : actor[b].op = "edit" /\ actor[b].file = g
      BY <1>5, <2>1, <3>1, NotQuit, NoProcApart DEF InStep, PlaceInv
    <3>3. \A b \in Calls : actor'[b].op = actor[b].op /\ actor'[b].file = actor[b].file
      BY <1>4, <1>5, IdleType DEF Rest, Errand
    <3> QED BY <3>1, <3>2, <3>3
  <2> QED BY <2>2, <2>3
<1> QED BY <1>6, <1>7, <1>8

\* An actor that neither carries on with an edit nor shows a document.
LEMMA OtherSteps ==
    ASSUME StepInv, PlaceInv', NEW a \in Actors, Working(a), Rest(a), UNCHANGED disk,
           UNCHANGED servers \/ Holds(a),
           \A q \in Procs : UNCHANGED <<proc[q].lang, proc[q].docs, proc[q].has>>,
           \A q \in Procs : proc'[q].at = proc[q].at \/ proc'[q].at \in {"stopping", "dead"},
           actor[a].op = "edit" => servers'[Lang(a)] = NoProc,
           actor'[a].op # "edit", NamedOf(a)'
    PROVE  EditsInv' /\ DocsInv' /\ InStep'
<1>1. EditOf(a)'
  BY DEF EditOf
<1>2. EditsInv'
  BY <1>1, EditsFrame
<1>3. DocsInv'
  BY DocsFrame
<1>4. InStep'
  BY InStepFrame
<1> QED BY <1>2, <1>3, <1>4

LEMMA BeginSteps ==
    ASSUME StepInv, PlaceInv', NEW a \in Actors, Manage(a) \/ (a \in Calls /\ Analyze(a))
    PROVE  EditsInv' /\ DocsInv' /\ InStep'
<1>1. /\ Joins(a) /\ Frame /\ UNCHANGED disk
      /\ actor'[a].op \in {"analyze"} \cup ServerOps
      /\ actor'[a].op = "analyze" => actor'[a].lang = LangOf[actor'[a].file]
  BY BeginDoes DEF StepInv, PlaceInv
<1>2. actor'[a].op # "edit" /\ NamedOf(a)'
  BY <1>1 DEF NamedOf, Lang, FileOps, ServerOps
<1>3. actor[a].op # "edit"
  BY <1>1 DEF Joins, StepInv, EditsInv, EditOf, Waiting, Inside
<1> QED BY <1>1, <1>2, <1>3, OtherSteps DEF Joins, Frame

LEMMA StopSteps ==
    ASSUME StepInv, PlaceInv', NEW a \in Actors, Stop(a) \/ Killed(a)
    PROVE  EditsInv' /\ DocsInv' /\ InStep'
<1>1. /\ Keeps(a) /\ Errand(a) /\ UNCHANGED disk
      /\ actor[a].op \in {"stop", "restart"} \/ actor[a].at = "stopping"
      /\ \A q \in Procs :
            /\ UNCHANGED <<proc[q].lang, proc[q].docs, proc[q].has>>
            /\ proc'[q].at = proc[q].at \/ proc'[q].at \in {"stopping", "dead"}
  BY StopDoes, KilledDoes DEF StepInv, PlaceInv
<1>2. actor[a].op # "edit" /\ NamedOf(a)
  BY <1>1 DEF StepInv, EditsInv, EditOf
<1>3. actor'[a].op # "edit" /\ NamedOf(a)'
  BY <1>1, <1>2 DEF Errand, NamedOf, Lang
<1> QED BY <1>1, <1>2, <1>3, OtherSteps DEF Keeps

LEMMA LooksSteps ==
    ASSUME StepInv, PlaceInv', NEW a \in Actors,
           Leave(a) \/ Poll(a) \/ Look(a) \/ (a \in Calls /\ GiveUp(a)) \/ Return(a)
    PROVE  EditsInv' /\ DocsInv' /\ InStep'
<1>1. /\ Joins(a) \/ Leaves(a) \/ Stays(a)
      /\ Frame /\ UNCHANGED disk
      /\ \/ /\ actor'[a] = Idle
            /\ actor[a].at \in {"over", "done"} \/ actor[a].op \in ServerOps
         \/ Errand(a) /\ actor[a].at \in {"poll", "look"}
  BY LooksDoes DEF StepInv, PlaceInv
<1>2. Working(a) /\ Rest(a)
  BY <1>1 DEF Joins, Leaves, Stays
<1>3. NamedOf(a) /\ EditOf(a)
  BY DEF StepInv, EditsInv
<1>4. actor[a].op = "edit" => servers'[Lang(a)] = NoProc
  BY <1>1, <1>3 DEF EditOf, Frame, ServerOps
<1>5. actor'[a].op # "edit" /\ NamedOf(a)'
  BY <1>1, <1>3, IdleType DEF EditOf, NamedOf, Lang, Errand, FileOps
<1> QED BY <1>1, <1>2, <1>4, <1>5, OtherSteps DEF Frame

LEMMA AbortSteps ==
    ASSUME Carried, StepInv, PlaceInv', NEW a \in Calls, Abort(a)
    PROVE  EditsInv' /\ DocsInv' /\ InStep'
<1>1. /\ Rest(a) /\ actor'[a] = Idle /\ Working(a) /\ UNCHANGED <<disk, servers>>
      /\ actor[a].op # "edit"
      /\ \A q \in Procs : /\ UNCHANGED <<proc[q].lang, proc[q].docs, proc[q].has>>
                          /\ proc'[q].at = proc[q].at \/ proc'[q].at = "dead"
  BY AbortDoes DEF StepInv, PlaceInv, Carried
<1>2. a \in Actors /\ actor'[a].op # "edit" /\ NamedOf(a)'
  BY <1>1, IdleType DEF NamedOf, FileOps
<1> QED BY <1>1, <1>2, OtherSteps

LEMMA LoopSteps ==
    ASSUME StepInv, PlaceInv', Arm \/ Tick \/ Otherwise \/ Pump
    PROVE  EditsInv' /\ DocsInv' /\ InStep'
<1>1. /\ Joins(Loop) \/ Leaves(Loop) \/ Stays(Loop)
      /\ UNCHANGED <<disk, proc>> /\ (UNCHANGED servers \/ Holds(Loop))
      /\ actor'[Loop].op \in {"none", "pump"} \/ Errand(Loop)
  <2>1. CASE Pump
    BY <2>1, PumpDoes, IdleType DEF StepInv, PlaceInv, Leaves
  <2>2. CASE Arm \/ Tick \/ Otherwise
    BY <2>2, SelectDoes DEF StepInv, PlaceInv, Frame
  <2> QED BY <2>1, <2>2
<1>2. Loop \in Actors /\ Working(Loop) /\ Rest(Loop)
  BY <1>1, IdleType DEF Joins, Leaves, Stays
<1>3. NamedOf(Loop) /\ actor[Loop].op # "edit"
  BY <1>2, LspAssumption DEF StepInv, EditsInv, EditOf
<1>4. actor'[Loop].op # "edit" /\ NamedOf(Loop)'
  BY <1>1, <1>3 DEF NamedOf, Lang, Errand, FileOps
<1>5. /\ \A q \in Procs : UNCHANGED <<proc[q].lang, proc[q].docs, proc[q].has>>
      /\ \A q \in Procs : proc'[q].at = proc[q].at
  BY <1>1
<1> QED BY <1>1, <1>2, <1>3, <1>4, <1>5, OtherSteps

LEMMA EndSteps ==
    ASSUME StepInv, PlaceInv', Quit \/ ShutdownAll
    PROVE  EditsInv' /\ DocsInv' /\ InStep'
<1>1. /\ actor'[Loop].op = "quit"
      /\ \A a \in Calls : actor'[a] = [Idle EXCEPT !.at = "gone"]
      /\ \A q \in Procs : /\ UNCHANGED <<proc[q].lang, proc[q].docs, proc[q].has>>
                          /\ proc'[q].at = proc[q].at \/ proc'[q].at = "dead"
  <2>1. CASE Quit
    BY <2>1, QuitDoes DEF StepInv, PlaceInv
  <2>2. CASE ShutdownAll
    <3>1. /\ actor'[Loop].op = "quit" /\ Rest(Loop)
          /\ \A q \in Procs : /\ UNCHANGED <<proc[q].lang, proc[q].docs, proc[q].has>>
                              /\ proc'[q].at = proc[q].at \/ proc'[q].at = "dead"
      BY <2>2, ShutdownDoes DEF StepInv, PlaceInv, Errand
    <3>2. PlaceInv' => \A a \in Calls : actor'[a] = [Idle EXCEPT !.at = "gone"]
      BY <3>1 DEF PlaceInv, BaseInv, LineInv
    <3> QED BY <3>1, <3>2
  <2> QED BY <2>1, <2>2
<1>2. \A a \in Actors : actor'[a].op \in {"quit", "none"}
  BY <1>1, IdleType DEF Actors, ActorStates
<1>3. EditsInv'
  BY <1>2 DEF EditsInv, NamedOf, EditOf, OneEdit, FileOps
<1>4. DocsInv'
  BY <1>1, DocsFrame
<1>5. InStep'
  BY <1>1 DEF InStep
<1> QED BY <1>3, <1>4, <1>5

LEMMA ServerSteps ==
    ASSUME StepInv, PlaceInv', NEW p \in Procs, Publish(p) \/ Crash(p)
    PROVE  EditsInv' /\ DocsInv' /\ InStep'
<1>1. /\ UNCHANGED <<disk, actor, servers>> /\ proc[p].at = "up" /\ proc'[p].at \in {"up", "crashed"}
      /\ \A q \in Procs : UNCHANGED <<proc[q].lang, proc[q].docs, proc[q].has>>
      /\ \A q \in Procs : q # p => proc'[q] = proc[q]
  BY ServerDoes DEF StepInv, PlaceInv
<1>2. EditsInv'
  BY <1>1 DEF StepInv, EditsInv, NamedOf, EditOf, OneEdit, Lang
<1>3. DocsInv'
  BY <1>1, DocsFrame
<1>4. \A l \in Langs : servers[l] # NoProc => servers[l] \in Procs
  BY Places DEF StepInv
<1>5. InStep'
  BY <1>1, <1>4 DEF StepInv, InStep
<1> QED BY <1>2, <1>3, <1>5

LEMMA StepStep ==
    ASSUME Carried, StepInv, [Next]_vars
    PROVE  StepInv'
<1>1. PlaceInv'
  BY PlaceStep DEF StepInv
<1> DEFINE Kept == EditsInv' /\ DocsInv' /\ InStep'
<1>2. SUFFICES Kept
  BY <1>1 DEF StepInv
<1>3. ASSUME NEW a \in Actors, Works(a) PROVE Kept
  BY <1>1, <1>3, EnsureSteps, InitSteps, NotifyEditSteps, OpensSteps, StopSteps, LooksSteps
  DEF Works
<1>4. ASSUME NEW a \in Calls, Asks(a) \/ Works(a) \/ GiveUp(a) \/ Abort(a) PROVE Kept
  <2>1. a \in Actors
    BY IdleType
  <2>2. CASE Asks(a)
    BY <1>1, <2>1, <2>2, EditSteps, BeginSteps DEF Asks
  <2>3. CASE GiveUp(a)
    BY <1>1, <2>1, <2>3, LooksSteps
  <2>4. CASE Abort(a)
    BY <1>1, <2>4, AbortSteps
  <2> QED BY <1>3, <1>4, <2>1, <2>2, <2>3, <2>4
<1>5. CASE Manage(Loop) \/ Serves
  <2>1. Loop \in Actors
    BY IdleType
  <2> QED BY <1>1, <1>3, <1>5, <2>1, BeginSteps, LoopSteps, EndSteps DEF Serves
<1>6. CASE Arm \/ Tick \/ Otherwise
  BY <1>1, <1>6, LoopSteps
<1>7. CASE Quit
  BY <1>1, <1>7, EndSteps
<1>8. ASSUME NEW p \in Procs, Publish(p) \/ Crash(p) PROVE Kept
  BY <1>1, <1>8, ServerSteps
<1>9. CASE UNCHANGED vars
  <2>1. UNCHANGED <<disk, actor, servers, proc>>
    BY <1>9 DEF vars
  <2>2. EditsInv'
    BY <2>1 DEF StepInv, EditsInv, NamedOf, EditOf, OneEdit, Lang
  <2>3. DocsInv'
    BY <2>1 DEF StepInv, DocsInv, DocsOf
  <2>4. InStep'
    BY <2>1 DEF StepInv, InStep
  <2> QED BY <2>2, <2>3, <2>4
<1> HIDE DEF Kept
<1> QED BY <1>4, <1>5, <1>6, <1>7, <1>8, <1>9 DEF Next

\* Where every language's server starts with the first edit of a file and no
\* call is dropped between its write and its notification, a running server has
\* each document as the file is, but while an edit still has to tell it: for
\* any files and calls, whatever crashes, is stopped, restarted or never answers.
THEOREM InStepSafe ==
    ASSUME "abort" \notin Windows, Langs \subseteq AutoStart
    PROVE  Spec => []InStep
<1>1. Carried
  BY DEF Carried
<1>2. ASSUME Init PROVE StepInv
  <2>1. PlaceInv
    BY <1>2, InitPlaces
  <2>2. /\ \A a \in Actors : actor[a].op = "none"
        /\ \A p \in Procs : proc[p].docs = {}
        /\ \A l \in Langs : servers[l] = NoProc
    BY <1>2, IdleType DEF Init
  <2> QED BY <2>1, <2>2 DEF StepInv, EditsInv, NamedOf, EditOf, OneEdit, FileOps,
                            DocsInv, DocsOf, InStep
<1>3. StepInv /\ [Next]_vars => StepInv'
  BY <1>1, StepStep
<1>4. StepInv => InStep
  BY DEF StepInv
<1> QED BY <1>2, <1>3, <1>4, PTL DEF Spec
====
