------------------------ MODULE SessionStore_proofs ------------------------
(* What holds of the session store for any clients, sessions and TTL.       *)
(*                                                                          *)
(* Types and LeaseHonoured hold with every window open.  The others are     *)
(* proved with all of them shut, from an inductive invariant that says, for *)
(* each place a handler can be in, what the others have not done meanwhile. *)
EXTENDS SessionStore, TLAPS

(***************************************************************************)
(* The inductive invariant                                                 *)
(***************************************************************************)
\* The types, and that a handler about a session does name one.
Typed ==
    /\ TypeOK
    /\ \A c \in Clients :
          pc[c] \in {"claim", "swap", "fetch"} \cup Acquiring \cup Deleting
              => target[c] \in Sessions

\* What a handler knows of its own client, place by place.
Shape(c) ==
    /\ pc[c] \in Acquiring <=> via[c] # "none" /\ pc[c] \notin {"swap", "fetch"}
    /\ pc[c] \in {"swap", "fetch"} => via[c] = "load"
    /\ pc[c] \in {"down", "startup"} \cup Purging
           => locked_session[c] = None /\ session[c] = None
    /\ pc[c] = "claim" \/ via[c] \in {"startup", "create"} => locked_session[c] = None
    /\ pc[c] = "claim" \/ via[c] = "startup" => session[c] = None
    /\ pc[c] # "fetch" => locked_session[c] \in {None, session[c]}
    /\ pc[c] = "fetch" => locked_session[c] = target[c]
    /\ pc[c] = "swap" => locked_session[c] # target[c]

\* What the store still holds of the session a handler is about.
Stored(c) ==
    /\ pc[c] = "unclaim" => lock[target[c]] = None
    /\ Entering(c) => target[c] \in rows
    /\ via[c] = "create" => pc[c] \in {"acquire", "insert"} /\ session[c] = target[c]
    /\ pc[c] = "claim" \/ via[c] = "create" => lock[target[c]] = None /\ target[c] \in rows

\* Nobody is on the way into a session while another deletes it or purges.
Calm(d) == \A c \in Clients \ {d} :
    /\ pc[d] \in Purging => ~Entering(c)
    /\ pc[d] \in Deleting /\ Entering(c) => target[c] # target[d]

\* What is about to be deleted is locked by no timely client but the deleter.
Spares(d) ==
    /\ pc[d] \in {"delete", "unlock"} => lock[target[d]] \notin Timely \ {d}
    /\ pc[d] = "sweep" => \A s \in orphans[d] : lock[s] \notin Timely
    /\ pc[d] = "scan" => \A s \in Sessions : lock[s] \in Timely => s \in spared[d]

\* The purge's snapshots still cover the claims; a deleted row stays deleted.
Kept(d) ==
    /\ pc[d] \in {"locks", "scan"} => claims \subseteq spared[d]
    /\ pc[d] = "sweep" => rows \cap claims \subseteq existing[d]
    /\ pc[d] \in {"unlock", "unclaim"} => target[d] \notin rows

\* A timely client has exactly the locks it relies on, fresh, over sessions
\* that are stored, and between handlers it is in the session it locks.
Hold(c) ==
    /\ \A s \in Sessions : Relies(c, s) /\ ~GivingUp(c, s) => lock[s] = c /\ age[s] <= TTL
    /\ \A s \in Sessions : lock[s] = c => Relies(c, s)
    /\ \A s \in Sessions :
          Relies(c, s) /\ ~(pc[c] \in {"unlock", "unclaim"} /\ target[c] = s) => s \in rows
    /\ pc[c] = "touch" => lock[target[c]] = c
    /\ pc[c] # "fetch" /\ via[c] # "create" => locked_session[c] = session[c]

IInv ==
    /\ Typed
    /\ \A c \in Clients : Shape(c) /\ Stored(c) /\ Calm(c) /\ Spares(c) /\ Kept(c)
    /\ \A c \in Timely : Hold(c)

(***************************************************************************)
(* Types                                                                   *)
(***************************************************************************)
\* A `now` that is used in time is an age a beat can have.
LEMMA LateIsAge == ASSUME Typed PROVE \A c \in Clients : late[c] \in 0..MaxAge
<1>1. TTL \in Nat /\ \A c \in Clients : late[c] \in 0..TTL
  BY SessionStoreAssumption DEF Typed, TypeOK
<1>2. \A n \in 0..TTL : n \in 0..(2 * TTL + 1)
  BY <1>1
<1> QED BY <1>1, <1>2 DEF MaxAge

\* INSERT, touch and takeover: writing a beat keeps the lock rows' types.
LEMMA BeatTyped ==
    ASSUME Typed, NEW e \in Clients, NEW s \in Sessions, Beat(s, e, late[e])
    PROVE  lock' \in [Sessions -> Clients \cup {None, Gone}] /\ age' \in [Sessions -> 0..MaxAge]
BY LateIsAge DEF Typed, TypeOK, Beat

\* The rest of an acquire, whatever it did to the lock row.
LEMMA AcquiredTyped ==
    ASSUME Typed, NEW e \in Clients, pc[e] \in Acquiring,
           lock' \in [Sessions -> Clients \cup {None, Gone}],
           age' \in [Sessions -> 0..MaxAge],
           Acquired(e) \/ Refused(e) \/ (Goto(e, "takeover") /\ UNCHANGED ctx),
           UNCHANGED <<rows, claims, purge>>
    PROVE  Typed'
<1> USE SessionStoreAssumption
<1>1. CASE Return(e) /\ session' \in [Clients -> Sessions \cup {None}]
                     /\ locked_session' \in [Clients -> Sessions \cup {None}]
  BY <1>1 DEF Return, Typed, TypeOK, purge, Acquiring, Deleting, Places, Reasons
<1>2. ASSUME NEW p \in {"takeover", "fetch", "swap"}, Goto(e, p), UNCHANGED ctx
      PROVE  Typed'
  BY <1>2 DEF Goto, Typed, TypeOK, purge, ctx, Acquiring, Places
<1>3. CASE Acquired(e)
  BY <1>1, <1>2, <1>3 DEF Acquired, Typed, TypeOK, Acquiring
<1>4. CASE Refused(e)
  BY <1>1, <1>4 DEF Refused, Typed, TypeOK, ctx
<1> QED BY <1>2, <1>3, <1>4

\* Every variable starts with its type, no handler with an old `now`.
LEMMA InitTyped == Init => Typed
BY SessionStoreAssumption
DEF Init, Typed, TypeOK, Places, Reasons, MaxAge, Acquiring, Deleting

\* Every statement of every handler, and time, keep the types.
LEMMA NextTyped == ASSUME Typed, [Next]_vars PROVE Typed'
<1>1. ASSUME NEW e \in Clients, OpenGlobal(e) PROVE Typed'
  BY <1>1
  DEF store, ctx, Acquiring, Purging, Deleting, Places, TypeOK, Goto, OpenGlobal, Typed
<1>2. ASSUME NEW e \in Clients, ReadLocks(e) PROVE Typed'
  BY <1>2
  DEF store, ctx, Acquiring, Purging, Deleting, Places, TypeOK, Goto, ReadLocks, Typed
<1>3. ASSUME NEW e \in Clients, ReadRows(e) PROVE Typed'
  BY <1>3
  DEF store, ctx, Acquiring, Purging, Deleting, Places, TypeOK, Goto, ReadRows, Typed
<1>4. ASSUME NEW e \in Clients, PurgeSessionRows(e) PROVE Typed'
  BY <1>4, SessionStoreAssumption
  DEF handler, ctx, MaxAge, TypeOK, Unlock, PurgeSessionRows, Typed
<1>5. ASSUME NEW e \in Clients, PruneMissing(e) PROVE Typed'
  BY <1>5 DEF ctx, Acquiring, Deleting, Places, TypeOK, Goto, PruneMissing, Typed
<1>6. ASSUME NEW e \in Clients, StartFresh(e) PROVE Typed'
  BY <1>6
  DEF store, purge, ctx, Acquiring, Deleting, Places, TypeOK, Goto, StartFresh, Typed
<1>7. ASSUME NEW e \in Clients, StartIn(e) PROVE Typed'
  BY <1>7, SessionStoreAssumption
  DEF store, purge, ctx, Acquiring, Places, Reasons, TypeOK, BeginAcquire, StartIn,
      Typed
<1>8. ASSUME NEW e \in Clients, ReadLockRow(e) PROVE Typed'
  BY <1>8, SessionStoreAssumption
  DEF store, purge, ctx, Acquiring, Deleting, Places, Reasons, TypeOK, Return, Goto,
      Refused, ReadLockRow, Typed
<1>9. ASSUME NEW e \in Clients, TouchSessionLock(e) PROVE Typed'
  <2>1. target[e] \in Sessions /\ pc[e] \in Acquiring
    BY <1>9 DEF TouchSessionLock, Typed, Acquiring
  <2>2. /\ lock' \in [Sessions -> Clients \cup {None, Gone}]
        /\ age' \in [Sessions -> 0..MaxAge]
    BY <1>9, <2>1, BeatTyped DEF TouchSessionLock, TouchOwn, Typed, TypeOK
  <2> QED BY <1>9, <2>1, <2>2, AcquiredTyped DEF TouchSessionLock, ctx
<1>10. ASSUME NEW e \in Clients, InsertLockRow(e) PROVE Typed'
  <2>1. target[e] \in Sessions /\ pc[e] \in Acquiring
    BY <1>10 DEF InsertLockRow, Typed, Acquiring
  <2>2. /\ lock' \in [Sessions -> Clients \cup {None, Gone}]
        /\ age' \in [Sessions -> 0..MaxAge]
    BY <1>10, <2>1, BeatTyped DEF InsertLockRow, Typed, TypeOK
  <2> QED BY <1>10, <2>1, <2>2, AcquiredTyped DEF InsertLockRow, ctx
<1>11. ASSUME NEW e \in Clients, TakeoverSessionLock(e) PROVE Typed'
  <2>1. target[e] \in Sessions /\ pc[e] \in Acquiring
    BY <1>11 DEF TakeoverSessionLock, Typed, Acquiring
  <2>2. /\ lock' \in [Sessions -> Clients \cup {None, Gone}]
        /\ age' \in [Sessions -> 0..MaxAge]
    BY <1>11, <2>1, BeatTyped DEF TakeoverSessionLock, Typed, TypeOK
  <2> QED BY <1>11, <2>1, <2>2, AcquiredTyped DEF TakeoverSessionLock, ctx
<1>12. ASSUME NEW e \in Clients, NewSession(e) PROVE Typed'
  BY <1>12, SessionStoreAssumption
  DEF handler, purge, MaxAge, TypeOK, Unlock, ReleaseOwn, NewSession, Typed
<1>13. ASSUME NEW e \in Clients, InsertSession(e) PROVE Typed'
  BY <1>13 DEF purge, ctx, Places, TypeOK, InsertSession, Typed
<1>14. ASSUME NEW e \in Clients, ClaimSession(e) PROVE Typed'
  BY <1>14, SessionStoreAssumption
  DEF purge, Acquiring, Places, Reasons, TypeOK, BeginAcquire, ClaimSession, Typed
<1>15. ASSUME NEW e \in Clients, LoadSession(e) PROVE Typed'
  BY <1>15, SessionStoreAssumption
  DEF store, purge, ctx, Acquiring, Places, Reasons, TypeOK, BeginAcquire, LoadSession,
      Typed
<1>16. ASSUME NEW e \in Clients, SwapLock(e) PROVE Typed'
  BY <1>16, SessionStoreAssumption
  DEF purge, Places, MaxAge, TypeOK, Unlock, ReleaseOwn, Goto, SwapLock, Typed
<1>17. ASSUME NEW e \in Clients, FetchSession(e) PROVE Typed'
  BY <1>17, SessionStoreAssumption
  DEF store, purge, Acquiring, Deleting, Places, Reasons, TypeOK, Return, FetchSession,
      Typed
<1>18. ASSUME NEW e \in Clients, DeleteSession(e) PROVE Typed'
  BY <1>18 DEF store, purge, ctx, Deleting, Places, TypeOK, DeleteSession, Typed
<1>19. ASSUME NEW e \in Clients, DeleteRow(e) PROVE Typed'
  BY <1>19 DEF purge, ctx, Deleting, Places, TypeOK, Goto, DeleteRow, Typed
<1>20. ASSUME NEW e \in Clients, DeleteLock(e) PROVE Typed'
  BY <1>20, SessionStoreAssumption
  DEF purge, ctx, Deleting, Places, MaxAge, TypeOK, Unlock, Goto, DeleteLock, Typed
<1>21. ASSUME NEW e \in Clients, Unclaim(e) PROVE Typed'
  BY <1>21, SessionStoreAssumption
  DEF purge, Acquiring, Deleting, Places, Reasons, TypeOK, Return, Unclaim, Typed
<1>22. ASSUME NEW e \in Clients, LockBeat(e) PROVE Typed'
  BY <1>22, SessionStoreAssumption
  DEF handler, purge, MaxAge, TypeOK, Beat, TouchOwn, LockBeat, Typed
<1>23. ASSUME NEW e \in Clients, Quit(e) PROVE Typed'
  BY <1>23, SessionStoreAssumption
  DEF purge, Acquiring, Deleting, Places, MaxAge, TypeOK, Unlock, ReleaseOwn, Goto,
      Quit, Typed
<1>24. ASSUME NEW e \in Clients, Crash(e) PROVE Typed'
  BY <1>24, SessionStoreAssumption
  DEF Acquiring, Deleting, Places, Reasons, TypeOK, Crash, Typed
<1>25. CASE Tick
  BY <1>25, SessionStoreAssumption DEF purge, ctx, MaxAge, TypeOK, Tick, Typed
<1>26. CASE UNCHANGED vars
  BY <1>26 DEF store, handler, purge, ctx, vars, TypeOK, Typed
<1> QED
  BY <1>1, <1>2, <1>3, <1>4, <1>5, <1>6, <1>7, <1>8, <1>9, <1>10, <1>11, <1>12, <1>13,
     <1>14, <1>15, <1>16, <1>17, <1>18, <1>19, <1>20, <1>21, <1>22, <1>23, <1>24, <1>25, <1>26
  DEF Next, Launch, Acquire, Handler

\* The types, with every window open.
THEOREM TypedInvariant == Spec => []Typed
<1>1. Typed /\ [Next]_vars => Typed'
  BY NextTyped
<1> QED BY <1>1, InitTyped, PTL DEF Spec

\* Every variable keeps its type; no `now` is used later than the TTL.
THEOREM TypeCorrect == Spec => []TypeOK
<1>1. Typed => TypeOK
  BY DEF Typed
<1> QED BY <1>1, TypedInvariant, PTL

(***************************************************************************)
(* One step of a client, by action                                         *)
(***************************************************************************)
\* open_global_in: the claims are snapshot while nobody is in a window.
LEMMA OpenGlobalKeeps ==
    ASSUME Windows = {}, IInv, Typed', NEW e \in Clients, OpenGlobal(e)
    PROVE  IInv'
<1>1. ASSUME NEW c \in Clients PROVE Shape(c)'
  BY DEF ctx, Acquiring, Goto, OpenGlobal, Shape, IInv
<1>2. ASSUME NEW c \in Clients PROVE Stored(c)'
  BY DEF store, ctx, Acquiring, Entering, Goto, OpenGlobal, Stored, IInv
<1>3. ASSUME NEW c \in Clients PROVE Calm(c)'
  BY DEF Acquiring, Entering, MayPurge, Goto, OpenGlobal, Calm
<1>4. ASSUME NEW c \in Clients PROVE Spares(c)'
  BY DEF store, Goto, OpenGlobal, Spares, IInv
<1>5. ASSUME NEW c \in Clients PROVE Kept(c)'
  BY DEF store, TypeOK, Goto, OpenGlobal, Typed, Kept, IInv
<1>6. ASSUME NEW c \in Timely PROVE Hold(c)'
  BY DEF store, ctx, Goto, OpenGlobal, Relies, GivingUp, Hold, IInv
<1> QED BY <1>1, <1>2, <1>3, <1>4, <1>5, <1>6 DEF IInv

\* locked_session_ids: every lock of a timely client is live, so it is spared.
LEMMA ReadLocksKeeps ==
    ASSUME Windows = {}, IInv, Typed', NEW e \in Clients, ReadLocks(e)
    PROVE  IInv'
<1>1. ASSUME NEW c \in Clients PROVE Shape(c)'
  BY DEF ctx, Acquiring, Purging, Goto, ReadLocks, Shape, IInv
<1>2. ASSUME NEW c \in Clients PROVE Stored(c)'
  BY DEF store, ctx, Acquiring, Entering, Goto, ReadLocks, Stored, IInv
<1>3. ASSUME NEW c \in Clients PROVE Calm(c)'
  BY DEF Acquiring, Purging, Entering, Goto, ReadLocks, Calm, IInv
<1>4. ASSUME NEW c \in Clients PROVE Spares(c)'
  BY SessionStoreAssumption
  DEF store, Deleting, TypeOK, InWindow, Undisturbed, Live, Goto, ReadLocks, Timely,
      GivingUp, Typed, Spares, Hold, IInv
<1>5. ASSUME NEW c \in Clients PROVE Kept(c)'
  BY DEF store, Goto, ReadLocks, Kept, IInv
<1>6. ASSUME NEW c \in Timely PROVE Hold(c)'
  BY DEF store, ctx, Goto, ReadLocks, Relies, GivingUp, Hold, IInv
<1> QED BY <1>1, <1>2, <1>3, <1>4, <1>5, <1>6 DEF IInv

\* purge_orphans: the orphans are neither claimed nor locked.
LEMMA ReadRowsKeeps ==
    ASSUME Windows = {}, IInv, Typed', NEW e \in Clients, ReadRows(e)
    PROVE  IInv'
<1>1. ASSUME NEW c \in Clients PROVE Shape(c)'
  BY DEF ctx, Acquiring, Purging, Goto, ReadRows, Shape, IInv
<1>2. ASSUME NEW c \in Clients PROVE Stored(c)'
  BY DEF store, ctx, Acquiring, Entering, Goto, ReadRows, Stored, IInv
<1>3. ASSUME NEW c \in Clients PROVE Calm(c)'
  BY DEF Acquiring, Purging, Entering, Goto, ReadRows, Calm, IInv
<1>4. ASSUME NEW c \in Clients PROVE Spares(c)'
  BY DEF store, TypeOK, Goto, ReadRows, Typed, Spares, IInv
<1>5. ASSUME NEW c \in Clients PROVE Kept(c)'
  BY DEF store, TypeOK, Goto, ReadRows, Typed, Kept, IInv
<1>6. ASSUME NEW c \in Timely PROVE Hold(c)'
  BY DEF store, ctx, Goto, ReadRows, Relies, GivingUp, Hold, IInv
<1> QED BY <1>1, <1>2, <1>3, <1>4, <1>5, <1>6 DEF IInv

\* purge_session_rows: no orphan is the session of a timely client.
LEMMA PurgeSessionRowsKeeps ==
    ASSUME Windows = {}, IInv, Typed', NEW e \in Clients, PurgeSessionRows(e)
    PROVE  IInv'
<1>1. ASSUME NEW c \in Clients PROVE Shape(c)'
  BY DEF handler, ctx, PurgeSessionRows, Shape, IInv
<1>2. ASSUME NEW c \in Clients PROVE Stored(c)'
  BY DEF handler, Acquiring, Purging, Deleting, InWindow, Undisturbed, Entering,
      PurgeSessionRows, Stored, Calm, IInv
<1>3. ASSUME NEW c \in Clients PROVE Calm(c)'
  BY DEF handler, Entering, PurgeSessionRows, Calm, IInv
<1>4. ASSUME NEW c \in Clients PROVE Spares(c)'
  BY DEF handler, Purging, Deleting, TypeOK, InWindow, Undisturbed, Unlock,
      PurgeSessionRows, Typed, Spares, IInv
<1>5. ASSUME NEW c \in Clients PROVE Kept(c)'
  BY DEF handler, PurgeSessionRows, Kept, IInv
<1>6. ASSUME NEW c \in Timely PROVE Hold(c)'
  BY SessionStoreAssumption
  DEF handler, ctx, Unlock, PurgeSessionRows, Relies, Timely, GivingUp, Spares, Hold,
      IInv
<1> QED BY <1>1, <1>2, <1>3, <1>4, <1>5, <1>6 DEF IInv

\* prune_missing: the claims that go are of sessions that are not stored.
LEMMA PruneMissingKeeps ==
    ASSUME Windows = {}, IInv, Typed', NEW e \in Clients, PruneMissing(e)
    PROVE  IInv'
<1>1. ASSUME NEW c \in Clients PROVE Shape(c)'
  BY DEF ctx, Acquiring, Purging, Goto, PruneMissing, Shape, IInv
<1>2. ASSUME NEW c \in Clients PROVE Stored(c)'
  BY DEF ctx, Acquiring, Entering, Goto, PruneMissing, Stored, IInv
<1>3. ASSUME NEW c \in Clients PROVE Calm(c)'
  BY DEF Purging, Deleting, TypeOK, InWindow, Undisturbed, Goto, PruneMissing, Typed, Calm
<1>4. ASSUME NEW c \in Clients PROVE Spares(c)'
  BY DEF Goto, PruneMissing, Spares, IInv
<1>5. ASSUME NEW c \in Clients PROVE Kept(c)'
  BY DEF TypeOK, Goto, PruneMissing, Typed, Kept, IInv
<1>6. ASSUME NEW c \in Timely PROVE Hold(c)'
  BY DEF ctx, Goto, PruneMissing, Relies, GivingUp, Hold, IInv
<1> QED BY <1>1, <1>2, <1>3, <1>4, <1>5, <1>6 DEF IInv

\* load_startup_session, no session to start in: nothing is relied on.
LEMMA StartFreshKeeps ==
    ASSUME Windows = {}, IInv, Typed', NEW e \in Clients, StartFresh(e)
    PROVE  IInv'
<1>1. ASSUME NEW c \in Clients PROVE Shape(c)'
  BY DEF ctx, Acquiring, Goto, StartFresh, Shape, IInv
<1>2. ASSUME NEW c \in Clients PROVE Stored(c)'
  BY DEF store, ctx, Acquiring, Entering, Goto, StartFresh, Stored, IInv
<1>3. ASSUME NEW c \in Clients PROVE Calm(c)'
  BY DEF Purging, Deleting, InWindow, Undisturbed, Goto, StartFresh, Calm
<1>4. ASSUME NEW c \in Clients PROVE Spares(c)'
  BY DEF store, purge, Goto, StartFresh, Spares, IInv
<1>5. ASSUME NEW c \in Clients PROVE Kept(c)'
  BY DEF store, purge, Goto, StartFresh, Kept, IInv
<1>6. ASSUME NEW c \in Timely PROVE Hold(c)'
  BY DEF store, ctx, Goto, StartFresh, Relies, GivingUp, Hold, IInv
<1> QED BY <1>1, <1>2, <1>3, <1>4, <1>5, <1>6 DEF IInv

\* load_startup_session: the loaded session is stored, and stays so.
LEMMA StartInKeeps ==
    ASSUME Windows = {}, IInv, Typed', NEW e \in Clients, StartIn(e)
    PROVE  IInv'
<1>1. ASSUME NEW c \in Clients PROVE Shape(c)'
  BY DEF ctx, Acquiring, TypeOK, BeginAcquire, StartIn, Typed, Shape, IInv
<1>2. ASSUME NEW c \in Clients PROVE Stored(c)'
  BY DEF store, ctx, TypeOK, Entering, BeginAcquire, StartIn, Typed, Stored, IInv
<1>3. ASSUME NEW c \in Clients PROVE Calm(c)'
  BY DEF Purging, Deleting, InWindow, Undisturbed, BeginAcquire, StartIn, Calm
<1>4. ASSUME NEW c \in Clients PROVE Spares(c)'
  BY DEF store, purge, BeginAcquire, StartIn, Spares, IInv
<1>5. ASSUME NEW c \in Clients PROVE Kept(c)'
  BY DEF store, purge, BeginAcquire, StartIn, Kept, IInv
<1>6. ASSUME NEW c \in Timely PROVE Hold(c)'
  BY DEF store, ctx, BeginAcquire, StartIn, Relies, GivingUp, Stored, Hold, IInv
<1> QED BY <1>1, <1>2, <1>3, <1>4, <1>5, <1>6 DEF IInv

\* acquire_session_lock, the read: a refusal leaves the client where it was.
LEMMA ReadLockRowKeeps ==
    ASSUME Windows = {}, IInv, Typed', NEW e \in Clients, ReadLockRow(e)
    PROVE  IInv'
<1>1. ASSUME NEW c \in Clients PROVE Shape(c)'
  BY DEF ctx, Acquiring, Purging, TypeOK, Return, Goto, Refused, ReadLockRow, Typed, Shape,
      IInv
<1>2. ASSUME NEW c \in Clients PROVE Stored(c)'
  BY SessionStoreAssumption
  DEF store, ctx, Acquiring, TypeOK, Entering, Return, Goto, Refused, ReadLockRow,
      Typed, Stored, IInv
<1>3. ASSUME NEW c \in Clients PROVE Calm(c)'
  BY DEF Purging, Deleting, TypeOK, InWindow, Undisturbed, Return, Goto, Refused,
      ReadLockRow, Typed, Calm
<1>4. ASSUME NEW c \in Clients PROVE Spares(c)'
  BY DEF store, purge, TypeOK, Return, Goto, Refused, ReadLockRow, Typed, Spares, IInv
<1>5. ASSUME NEW c \in Clients PROVE Kept(c)'
  BY DEF store, purge, TypeOK, Return, Goto, Refused, ReadLockRow, Typed, Kept, IInv
<1>6. ASSUME NEW c \in Timely PROVE Hold(c)'
  BY DEF store, ctx, TypeOK, Return, Goto, Refused, ReadLockRow, Relies, Timely, GivingUp,
      Typed, Stored, Hold, IInv
<1> QED BY <1>1, <1>2, <1>3, <1>4, <1>5, <1>6 DEF IInv

\* acquire_session_lock, Ours: the own row is renewed.
LEMMA TouchSessionLockKeeps ==
    ASSUME Windows = {}, IInv, Typed', NEW e \in Clients, TouchSessionLock(e)
    PROVE  IInv'
<1>1. ASSUME NEW c \in Clients PROVE Shape(c)'
  BY DEF ctx, Acquiring, Purging, TypeOK, Return, Goto, Acquired, TouchSessionLock, Typed,
      Shape, Stored, IInv
<1>2. ASSUME NEW c \in Clients PROVE Stored(c)'
  BY DEF Acquiring, Deleting, TypeOK, InWindow, Undisturbed, Entering, Return, Goto,
      Acquired, TouchSessionLock, Typed, Stored, IInv
<1>3. ASSUME NEW c \in Clients PROVE Calm(c)'
  BY DEF Purging, Deleting, TypeOK, InWindow, Undisturbed, Return, Goto, Acquired,
      TouchSessionLock, Typed, Calm
<1>4. ASSUME NEW c \in Clients PROVE Spares(c)'
  BY DEF Purging, Deleting, TypeOK, InWindow, Undisturbed, Return, Goto, Acquired,
      TouchSessionLock, Typed, Spares
<1>5. ASSUME NEW c \in Clients PROVE Kept(c)'
  BY DEF purge, TypeOK, Return, Goto, Acquired, TouchSessionLock, Typed, Kept, IInv
<1>6. ASSUME NEW c \in Timely PROVE Hold(c)'
  BY DEF ctx, Acquiring, TypeOK, Beat, TouchOwn, Return, Goto, Acquired, TouchSessionLock,
      Relies, Timely, GivingUp, Typed, Stored, Hold, IInv
<1> QED BY <1>1, <1>2, <1>3, <1>4, <1>5, <1>6 DEF IInv

\* acquire_session_lock, no row: only a free session is inserted.
LEMMA InsertLockRowKeeps ==
    ASSUME Windows = {}, IInv, Typed', NEW e \in Clients, InsertLockRow(e)
    PROVE  IInv'
<1>1. ASSUME NEW c \in Clients PROVE Shape(c)'
  BY DEF ctx, Acquiring, Purging, TypeOK, Return, Goto, Acquired, InsertLockRow, Typed,
      Shape, Stored, IInv
<1>2. ASSUME NEW c \in Clients PROVE Stored(c)'
  BY DEF Acquiring, Deleting, TypeOK, InWindow, Undisturbed, Entering, Return, Goto,
      Acquired, InsertLockRow, Typed, Stored, IInv
<1>3. ASSUME NEW c \in Clients PROVE Calm(c)'
  BY DEF Purging, Deleting, TypeOK, InWindow, Undisturbed, Return, Goto, Acquired,
      InsertLockRow, Typed, Calm
<1>4. ASSUME NEW c \in Clients PROVE Spares(c)'
  BY DEF Purging, Deleting, TypeOK, InWindow, Undisturbed, Return, Goto, Acquired,
      InsertLockRow, Typed, Spares
<1>5. ASSUME NEW c \in Clients PROVE Kept(c)'
  BY DEF purge, TypeOK, Return, Goto, Acquired, InsertLockRow, Typed, Kept, IInv
<1>6. ASSUME NEW c \in Timely PROVE Hold(c)'
  BY SessionStoreAssumption
  DEF ctx, Acquiring, TypeOK, Entering, Beat, Return, Goto, Acquired, InsertLockRow,
      Relies, Timely, GivingUp, Typed, Shape, Stored, Hold, IInv
<1> QED BY <1>1, <1>2, <1>3, <1>4, <1>5, <1>6 DEF IInv

\* takeover_session_lock: a stale row is no timely client's.
LEMMA TakeoverSessionLockKeeps ==
    ASSUME Windows = {}, IInv, Typed', NEW e \in Clients, TakeoverSessionLock(e)
    PROVE  IInv'
<1>1. ASSUME NEW c \in Clients PROVE Shape(c)'
  BY DEF ctx, Acquiring, Purging, TypeOK, Return, Goto, Refused, Acquired,
      TakeoverSessionLock, Typed, Shape, Stored, IInv
<1>2. ASSUME NEW c \in Clients PROVE Stored(c)'
  BY DEF Acquiring, Deleting, TypeOK, InWindow, Undisturbed, Entering, Return, Goto,
      Refused, Acquired, TakeoverSessionLock, Typed, Stored, IInv
<1>3. ASSUME NEW c \in Clients PROVE Calm(c)'
  BY DEF Purging, Deleting, TypeOK, InWindow, Undisturbed, Return, Goto, Refused, Acquired,
      TakeoverSessionLock, Typed, Calm
<1>4. ASSUME NEW c \in Clients PROVE Spares(c)'
  BY DEF Purging, Deleting, TypeOK, InWindow, Undisturbed, Return, Goto, Refused, Acquired,
      TakeoverSessionLock, Typed, Spares
<1>5. ASSUME NEW c \in Clients PROVE Kept(c)'
  BY DEF purge, TypeOK, Return, Goto, Refused, Acquired, TakeoverSessionLock, Typed, Kept,
      IInv
<1>6. ASSUME NEW c \in Timely PROVE Hold(c)'
  BY SessionStoreAssumption
  DEF ctx, Acquiring, TypeOK, Entering, Live, Beat, Return, Goto, Refused, Acquired,
      TakeoverSessionLock, Relies, Timely, GivingUp, Typed, Shape, Stored, Hold, IInv
<1> QED BY <1>1, <1>2, <1>3, <1>4, <1>5, <1>6 DEF IInv

\* Command::NewSession: the lock goes with the session.
LEMMA NewSessionKeeps ==
    ASSUME Windows = {}, IInv, Typed', NEW e \in Clients, NewSession(e)
    PROVE  IInv'
<1>1. ASSUME NEW c \in Clients PROVE Shape(c)'
  BY DEF handler, TypeOK, NewSession, Typed, Shape, IInv
<1>2. ASSUME NEW c \in Clients PROVE Stored(c)'
  BY DEF handler, Acquiring, Deleting, InWindow, Undisturbed, Entering, NewSession, Stored,
      IInv
<1>3. ASSUME NEW c \in Clients PROVE Calm(c)'
  BY DEF handler, Purging, Deleting, InWindow, Undisturbed, NewSession, Calm
<1>4. ASSUME NEW c \in Clients PROVE Spares(c)'
  BY DEF handler, Purging, Deleting, InWindow, Undisturbed, NewSession, Spares
<1>5. ASSUME NEW c \in Clients PROVE Kept(c)'
  BY DEF handler, purge, NewSession, Kept, IInv
<1>6. ASSUME NEW c \in Timely PROVE Hold(c)'
  BY SessionStoreAssumption
  DEF handler, Acquiring, TypeOK, Unlock, ReleaseOwn, NewSession, Relies, Timely,
      GivingUp, Typed, Hold, IInv
<1> QED BY <1>1, <1>2, <1>3, <1>4, <1>5, <1>6 DEF IInv

\* create_session, the row: a new id has no lock, claim or other trace.
LEMMA InsertSessionKeeps ==
    ASSUME Windows = {}, IInv, Typed', NEW e \in Clients, InsertSession(e)
    PROVE  IInv'
<1>1. ASSUME NEW c \in Clients PROVE Shape(c)'
  BY DEF ctx, Acquiring, InsertSession, Shape, IInv
<1>2. ASSUME NEW c \in Clients PROVE Stored(c)'
  BY DEF ctx, TypeOK, Entering, Fresh, InsertSession, Typed, Stored, IInv
<1>3. ASSUME NEW c \in Clients PROVE Calm(c)'
  BY DEF Purging, Deleting, InWindow, Undisturbed, InsertSession, Calm
<1>4. ASSUME NEW c \in Clients PROVE Spares(c)'
  BY DEF purge, InsertSession, Spares, IInv
<1>5. ASSUME NEW c \in Clients PROVE Kept(c)'
  BY DEF Purging, Deleting, InWindow, Undisturbed, InsertSession, Kept
<1>6. ASSUME NEW c \in Timely PROVE Hold(c)'
  BY DEF ctx, InsertSession, Relies, GivingUp, Hold, IInv
<1> QED BY <1>1, <1>2, <1>3, <1>4, <1>5, <1>6 DEF IInv

\* create_session, the claim; the lock comes next.
LEMMA ClaimSessionKeeps ==
    ASSUME Windows = {}, IInv, Typed', NEW e \in Clients, ClaimSession(e)
    PROVE  IInv'
<1>1. ASSUME NEW c \in Clients PROVE Shape(c)'
  BY DEF Acquiring, Purging, TypeOK, BeginAcquire, ClaimSession, Typed, Shape, IInv
<1>2. ASSUME NEW c \in Clients PROVE Stored(c)'
  BY DEF TypeOK, Entering, BeginAcquire, ClaimSession, Typed, Stored, IInv
<1>3. ASSUME NEW c \in Clients PROVE Calm(c)'
  BY DEF Purging, Deleting, InWindow, Undisturbed, BeginAcquire, ClaimSession, Calm
<1>4. ASSUME NEW c \in Clients PROVE Spares(c)'
  BY DEF purge, BeginAcquire, ClaimSession, Spares, IInv
<1>5. ASSUME NEW c \in Clients PROVE Kept(c)'
  BY DEF Purging, InWindow, Undisturbed, BeginAcquire, ClaimSession, Kept, IInv
<1>6. ASSUME NEW c \in Timely PROVE Hold(c)'
  BY DEF TypeOK, BeginAcquire, ClaimSession, Relies, GivingUp, Typed, Hold, IInv
<1> QED BY <1>1, <1>2, <1>3, <1>4, <1>5, <1>6 DEF IInv

\* Command::LoadSession: the client keeps its session until it has the lock.
LEMMA LoadSessionKeeps ==
    ASSUME Windows = {}, IInv, Typed', NEW e \in Clients, LoadSession(e)
    PROVE  IInv'
<1>1. ASSUME NEW c \in Clients PROVE Shape(c)'
  BY DEF ctx, Acquiring, Purging, TypeOK, BeginAcquire, LoadSession, Typed, Shape, IInv
<1>2. ASSUME NEW c \in Clients PROVE Stored(c)'
  BY DEF store, ctx, TypeOK, Entering, Stays, BeginAcquire, LoadSession, Typed, Stored,
      IInv
<1>3. ASSUME NEW c \in Clients PROVE Calm(c)'
  BY DEF Purging, Deleting, InWindow, Undisturbed, BeginAcquire, LoadSession, Calm
<1>4. ASSUME NEW c \in Clients PROVE Spares(c)'
  BY DEF store, purge, BeginAcquire, LoadSession, Spares, IInv
<1>5. ASSUME NEW c \in Clients PROVE Kept(c)'
  BY DEF store, purge, BeginAcquire, LoadSession, Kept, IInv
<1>6. ASSUME NEW c \in Timely PROVE Hold(c)'
  BY DEF store, ctx, BeginAcquire, LoadSession, Relies, GivingUp, Stored, Hold, IInv
<1> QED BY <1>1, <1>2, <1>3, <1>4, <1>5, <1>6 DEF IInv

\* release_active_lock on the way into another session: one lease is left.
LEMMA SwapLockKeeps ==
    ASSUME Windows = {}, IInv, Typed', NEW e \in Clients, SwapLock(e)
    PROVE  IInv'
<1>1. ASSUME NEW c \in Clients PROVE Shape(c)'
  BY DEF Acquiring, Purging, TypeOK, Goto, SwapLock, Typed, Shape, IInv
<1>2. ASSUME NEW c \in Clients PROVE Stored(c)'
  BY DEF Acquiring, Deleting, InWindow, Undisturbed, Entering, Goto, SwapLock, Stored, IInv
<1>3. ASSUME NEW c \in Clients PROVE Calm(c)'
  BY DEF Purging, Deleting, InWindow, Undisturbed, Goto, SwapLock, Calm
<1>4. ASSUME NEW c \in Clients PROVE Spares(c)'
  BY DEF Purging, Deleting, InWindow, Undisturbed, Goto, SwapLock, Spares
<1>5. ASSUME NEW c \in Clients PROVE Kept(c)'
  BY DEF purge, Goto, SwapLock, Kept, IInv
<1>6. ASSUME NEW c \in Timely PROVE Hold(c)'
  BY SessionStoreAssumption
  DEF Acquiring, TypeOK, Unlock, ReleaseOwn, Goto, SwapLock, Relies, Timely, GivingUp,
      Typed, Shape, Hold, IInv
<1> QED BY <1>1, <1>2, <1>3, <1>4, <1>5, <1>6 DEF IInv

\* load_session: the session just locked is still stored.
LEMMA FetchSessionKeeps ==
    ASSUME Windows = {}, IInv, Typed', NEW e \in Clients, FetchSession(e)
    PROVE  IInv'
<1>1. ASSUME NEW c \in Clients PROVE Shape(c)'
  BY SessionStoreAssumption
  DEF Purging, TypeOK, Entering, Return, FetchSession, Typed, Shape, Stored, IInv
<1>2. ASSUME NEW c \in Clients PROVE Stored(c)'
  BY SessionStoreAssumption DEF store, Entering, Return, FetchSession, Typed, Stored, IInv
<1>3. ASSUME NEW c \in Clients PROVE Calm(c)'
  BY SessionStoreAssumption
  DEF Purging, TypeOK, InWindow, Undisturbed, Return, FetchSession, Typed, Calm
<1>4. ASSUME NEW c \in Clients PROVE Spares(c)'
  BY DEF store, purge, Return, FetchSession, Spares, IInv
<1>5. ASSUME NEW c \in Clients PROVE Kept(c)'
  BY DEF store, purge, Return, FetchSession, Kept, IInv
<1>6. ASSUME NEW c \in Timely PROVE Hold(c)'
  BY DEF store, TypeOK, Return, FetchSession, Relies, GivingUp, Typed, Shape, Hold, IInv
<1> QED BY <1>1, <1>2, <1>3, <1>4, <1>5, <1>6 DEF IInv

\* locked_by_other: what may be deleted no other timely client relies on.
LEMMA DeleteSessionKeeps ==
    ASSUME Windows = {}, IInv, Typed', NEW e \in Clients, DeleteSession(e)
    PROVE  IInv'
<1>1. ASSUME NEW c \in Clients PROVE Shape(c)'
  BY DEF ctx, Acquiring, Purging, DeleteSession, Shape, IInv
<1>2. ASSUME NEW c \in Clients PROVE Stored(c)'
  BY DEF store, ctx, Acquiring, Entering, DeleteSession, Stored, IInv
<1>3. ASSUME NEW c \in Clients PROVE Calm(c)'
  BY DEF Acquiring, Purging, TypeOK, Entering, MayDelete, DeleteSession, Typed, Calm, IInv
<1>4. ASSUME NEW c \in Clients PROVE Spares(c)'
  BY SessionStoreAssumption
  DEF store, purge, Deleting, TypeOK, InWindow, Undisturbed, Live, DeleteSession,
      Timely, GivingUp, Typed, Spares, Hold, IInv
<1>5. ASSUME NEW c \in Clients PROVE Kept(c)'
  BY DEF store, purge, DeleteSession, Kept, IInv
<1>6. ASSUME NEW c \in Timely PROVE Hold(c)'
  BY DEF store, ctx, DeleteSession, Relies, GivingUp, Hold, IInv
<1> QED BY <1>1, <1>2, <1>3, <1>4, <1>5, <1>6 DEF IInv

\* delete_session, the row: only the deleter may have relied on it.
LEMMA DeleteRowKeeps ==
    ASSUME Windows = {}, IInv, Typed', NEW e \in Clients, DeleteRow(e)
    PROVE  IInv'
<1>1. ASSUME NEW c \in Clients PROVE Shape(c)'
  BY DEF ctx, Acquiring, Purging, Goto, DeleteRow, Shape, IInv
<1>2. ASSUME NEW c \in Clients PROVE Stored(c)'
  BY DEF Acquiring, Deleting, InWindow, Undisturbed, Entering, Goto, DeleteRow, Stored,
      Calm, IInv
<1>3. ASSUME NEW c \in Clients PROVE Calm(c)'
  BY DEF Acquiring, Purging, Deleting, Entering, Goto, DeleteRow, Calm, IInv
<1>4. ASSUME NEW c \in Clients PROVE Spares(c)'
  BY DEF purge, Goto, DeleteRow, Spares, IInv
<1>5. ASSUME NEW c \in Clients PROVE Kept(c)'
  BY DEF purge, Goto, DeleteRow, Kept, IInv
<1>6. ASSUME NEW c \in Timely PROVE Hold(c)'
  BY DEF ctx, TypeOK, Goto, DeleteRow, Relies, GivingUp, Typed, Spares, Hold, IInv
<1> QED BY <1>1, <1>2, <1>3, <1>4, <1>5, <1>6 DEF IInv

\* delete_session, the lock row: it is nobody else's.
LEMMA DeleteLockKeeps ==
    ASSUME Windows = {}, IInv, Typed', NEW e \in Clients, DeleteLock(e)
    PROVE  IInv'
<1>1. ASSUME NEW c \in Clients PROVE Shape(c)'
  BY DEF ctx, Acquiring, Purging, Goto, DeleteLock, Shape, IInv
<1>2. ASSUME NEW c \in Clients PROVE Stored(c)'
  BY DEF ctx, Acquiring, TypeOK, Entering, Unlock, Goto, DeleteLock, Typed, Stored, IInv
<1>3. ASSUME NEW c \in Clients PROVE Calm(c)'
  BY DEF Acquiring, Purging, Deleting, Entering, Goto, DeleteLock, Calm, IInv
<1>4. ASSUME NEW c \in Clients PROVE Spares(c)'
  BY DEF Purging, Deleting, TypeOK, InWindow, Undisturbed, Goto, DeleteLock, Typed, Spares
<1>5. ASSUME NEW c \in Clients PROVE Kept(c)'
  BY DEF purge, Goto, DeleteLock, Kept, IInv
<1>6. ASSUME NEW c \in Timely PROVE Hold(c)'
  BY SessionStoreAssumption
  DEF ctx, Deleting, TypeOK, InWindow, Undisturbed, Unlock, Goto, DeleteLock, Relies,
      Timely, GivingUp, Typed, Kept, Hold, IInv
<1> QED BY <1>1, <1>2, <1>3, <1>4, <1>5, <1>6 DEF IInv

\* delete_session, the claim: the deleter leaves its own session.
LEMMA UnclaimKeeps ==
    ASSUME Windows = {}, IInv, Typed', NEW e \in Clients, Unclaim(e)
    PROVE  IInv'
<1>1. ASSUME NEW c \in Clients PROVE Shape(c)'
  BY SessionStoreAssumption DEF Purging, TypeOK, Return, Unclaim, Typed, Shape, IInv
<1>2. ASSUME NEW c \in Clients PROVE Stored(c)'
  BY DEF TypeOK, Entering, Return, Unclaim, Typed, Stored, IInv
<1>3. ASSUME NEW c \in Clients PROVE Calm(c)'
  BY SessionStoreAssumption
  DEF Purging, TypeOK, InWindow, Undisturbed, Return, Unclaim, Typed, Calm
<1>4. ASSUME NEW c \in Clients PROVE Spares(c)'
  BY DEF purge, Return, Unclaim, Spares, IInv
<1>5. ASSUME NEW c \in Clients PROVE Kept(c)'
  BY DEF purge, TypeOK, Return, Unclaim, Typed, Kept, IInv
<1>6. ASSUME NEW c \in Timely PROVE Hold(c)'
  BY SessionStoreAssumption
  DEF TypeOK, Return, Unclaim, Relies, GivingUp, Typed, Stored, Hold, IInv
<1> QED BY <1>1, <1>2, <1>3, <1>4, <1>5, <1>6 DEF IInv

\* The heartbeat of run: a timely client finds its own row and renews it.
LEMMA LockBeatKeeps ==
    ASSUME Windows = {}, IInv, Typed', NEW e \in Clients, LockBeat(e)
    PROVE  IInv'
<1>1. ASSUME NEW c \in Clients PROVE Shape(c)'
  BY DEF handler, LockBeat, Shape, IInv
<1>2. ASSUME NEW c \in Clients PROVE Stored(c)'
  BY DEF handler, Acquiring, Deleting, InWindow, Undisturbed, Entering, LockBeat, Stored,
      IInv
<1>3. ASSUME NEW c \in Clients PROVE Calm(c)'
  BY DEF handler, Purging, Deleting, InWindow, Undisturbed, LockBeat, Calm
<1>4. ASSUME NEW c \in Clients PROVE Spares(c)'
  BY DEF handler, Purging, Deleting, InWindow, Undisturbed, LockBeat, Spares
<1>5. ASSUME NEW c \in Clients PROVE Kept(c)'
  BY DEF handler, purge, LockBeat, Kept, IInv
<1>6. ASSUME NEW c \in Timely PROVE Hold(c)'
  BY SessionStoreAssumption
  DEF handler, TypeOK, Beat, TouchOwn, LockBeat, Relies, GivingUp, Typed, Hold, IInv
<1> QED BY <1>1, <1>2, <1>3, <1>4, <1>5, <1>6 DEF IInv

\* The end of run: the lock is released with everything else.
LEMMA QuitKeeps ==
    ASSUME Windows = {}, IInv, Typed', NEW e \in Clients, Quit(e)
    PROVE  IInv'
<1>1. ASSUME NEW c \in Clients PROVE Shape(c)'
  BY DEF Acquiring, TypeOK, Goto, Quit, Typed, Shape, IInv
<1>2. ASSUME NEW c \in Clients PROVE Stored(c)'
  BY DEF Acquiring, Deleting, InWindow, Undisturbed, Entering, Goto, Quit, Stored, IInv
<1>3. ASSUME NEW c \in Clients PROVE Calm(c)'
  BY DEF Purging, Deleting, InWindow, Undisturbed, Goto, Quit, Calm
<1>4. ASSUME NEW c \in Clients PROVE Spares(c)'
  BY DEF Purging, Deleting, InWindow, Undisturbed, Goto, Quit, Spares
<1>5. ASSUME NEW c \in Clients PROVE Kept(c)'
  BY DEF purge, Goto, Quit, Kept, IInv
<1>6. ASSUME NEW c \in Timely PROVE Hold(c)'
  BY SessionStoreAssumption
  DEF Acquiring, TypeOK, Unlock, ReleaseOwn, Goto, Quit, Relies, Timely, GivingUp,
      Typed, Hold, IInv
<1> QED BY <1>1, <1>2, <1>3, <1>4, <1>5, <1>6 DEF IInv

\* A kill: the lock rows left behind are no running client's.
LEMMA CrashKeeps ==
    ASSUME Windows = {}, IInv, Typed', NEW e \in Clients, Crash(e)
    PROVE  IInv'
<1>1. ASSUME NEW c \in Clients PROVE Shape(c)'
  BY SessionStoreAssumption DEF TypeOK, Crash, Typed, Shape, IInv
<1>2. ASSUME NEW c \in Clients PROVE Stored(c)'
  BY SessionStoreAssumption DEF Deleting, TypeOK, Entering, Crash, Typed, Stored, IInv
<1>3. ASSUME NEW c \in Clients PROVE Calm(c)'
  BY SessionStoreAssumption DEF Purging, TypeOK, InWindow, Undisturbed, Crash, Typed, Calm
<1>4. ASSUME NEW c \in Clients PROVE Spares(c)'
  BY DEF Purging, Deleting, TypeOK, InWindow, Undisturbed, Crash, Typed, Spares
<1>5. ASSUME NEW c \in Clients PROVE Kept(c)'
  BY DEF TypeOK, Crash, Typed, Kept, IInv
<1>6. ASSUME NEW c \in Timely PROVE Hold(c)'
  BY SessionStoreAssumption
  DEF Acquiring, TypeOK, Crash, Relies, Timely, GivingUp, Typed, Hold, IInv
<1> QED BY <1>1, <1>2, <1>3, <1>4, <1>5, <1>6 DEF IInv

\* Time: a lease that is relied on is within the TTL before and after.
LEMMA TickKeeps == ASSUME IInv, Typed', Tick PROVE IInv'
<1>1. ASSUME NEW c \in Clients PROVE Shape(c)'
  BY DEF ctx, Tick, Shape, IInv
<1>2. ASSUME NEW c \in Clients PROVE Stored(c)'
  BY DEF ctx, Entering, Tick, Stored, IInv
<1>3. ASSUME NEW c \in Clients PROVE Calm(c)'
  BY DEF Entering, Tick, Calm, IInv
<1>4. ASSUME NEW c \in Clients PROVE Spares(c)'
  BY DEF purge, Tick, Spares, IInv
<1>5. ASSUME NEW c \in Clients PROVE Kept(c)'
  BY DEF purge, Tick, Kept, IInv
<1>6. ASSUME NEW c \in Timely PROVE Hold(c)'
  BY SessionStoreAssumption
  DEF ctx, TypeOK, Relies, Tick, Timely, GivingUp, Typed, Hold, IInv
<1> QED BY <1>1, <1>2, <1>3, <1>4, <1>5, <1>6 DEF IInv

(***************************************************************************)
(* The invariant holds                                                     *)
(***************************************************************************)
\* The invariant holds before the first launch.
LEMMA InitInv == Init => IInv
BY InitTyped, SessionStoreAssumption
DEF Init, IInv, Shape, Stored, Calm, Spares, Kept, Hold, Acquiring, Entering, Relies,
    Timely

\* Where nothing changes the invariant stays.
LEMMA StutterKeeps == IInv /\ UNCHANGED vars => IInv'
BY DEF vars, store, handler, purge, ctx, IInv, Typed, TypeOK, Shape, Stored, Calm, Spares,
    Kept, Hold, Entering, Relies, GivingUp

\* Every step with the windows shut preserves the invariant.
LEMMA NextKeeps == ASSUME Windows = {}, IInv, [Next]_vars PROVE IInv'
<1>1. Typed'
  BY NextTyped DEF IInv
<1>2. ASSUME NEW e \in Clients, Launch(e) PROVE IInv'
  BY <1>1, <1>2, OpenGlobalKeeps, ReadLocksKeeps, ReadRowsKeeps, PurgeSessionRowsKeeps,
     PruneMissingKeeps, StartFreshKeeps, StartInKeeps DEF Launch
<1>3. ASSUME NEW e \in Clients, Acquire(e) PROVE IInv'
  BY <1>1, <1>3, ReadLockRowKeeps, TouchSessionLockKeeps, InsertLockRowKeeps,
     TakeoverSessionLockKeeps DEF Acquire
<1>4. ASSUME NEW e \in Clients, Handler(e) PROVE IInv'
  BY <1>1, <1>4, NewSessionKeeps, InsertSessionKeeps, ClaimSessionKeeps, LoadSessionKeeps,
     SwapLockKeeps, FetchSessionKeeps, DeleteSessionKeeps, DeleteRowKeeps, DeleteLockKeeps,
     UnclaimKeeps, LockBeatKeeps DEF Handler
<1>5. ASSUME NEW e \in Clients, Quit(e) \/ Crash(e) PROVE IInv'
  BY <1>1, <1>5, QuitKeeps, CrashKeeps
<1>6. CASE Tick
  BY <1>1, <1>6, TickKeeps
<1>7. CASE UNCHANGED vars
  BY <1>7, StutterKeeps
<1> QED BY <1>2, <1>3, <1>4, <1>5, <1>6, <1>7 DEF Next

\* The inductive invariant holds of every behaviour with the windows shut.
THEOREM LeaseInvariant == ASSUME Windows = {} PROVE Spec => []IInv
<1>1. IInv /\ [Next]_vars => IInv'
  BY NextKeeps
<1> QED BY <1>1, InitInv, PTL DEF Spec

(***************************************************************************)
(* The properties                                                          *)
(***************************************************************************)
\* acquire_session_lock and touch_session_lock: what a timely client believes
\* to have locked it has locked, and no other client may take it over.
THEOREM ExclusiveSafe == ASSUME Windows = {} PROVE Spec => []Exclusive
<1>1. IInv => Exclusive
  BY DEF IInv, Hold, Relies, Exclusive
<1> QED BY <1>1, LeaseInvariant, PTL

\* delete_session and purge_orphans: the session a timely client is in under
\* its lock stays stored.
THEOREM InUseSurvivesSafe == ASSUME Windows = {} PROVE Spec => []InUseSurvives
<1>1. IInv => InUseSurvives
  BY DEF IInv, Hold, Relies, InUseSurvives, Deleting
<1> QED BY <1>1, LeaseInvariant, PTL

\* LoadSession, load_startup_session and start_user_turn: two timely clients
\* between handlers are never in one session.
THEOREM OneWriterSafe == ASSUME Windows = {} PROVE Spec => []OneWriter
<1>1. ASSUME IInv PROVE OneWriter
  <2> SUFFICES ASSUME NEW c \in Timely, NEW d \in Timely, c # d,
                      pc[c] = "select", pc[d] = "select", session[c] # None
               PROVE  session[c] # session[d]
    BY DEF OneWriter
  <2>1. via[c] # "create" /\ via[d] # "create"
    BY <1>1 DEF IInv, Stored, Timely
  <2>2. session[c] = locked_session[c] /\ session[d] = locked_session[d]
    BY <1>1, <2>1 DEF IInv, Hold
  <2>3. session[c] \in Sessions /\ lock[session[c]] = c
    BY <1>1, <2>2 DEF IInv, Typed, TypeOK, Hold, Relies, GivingUp, Timely
  <2>4. session[d] \in Sessions => lock[session[d]] = d
    BY <1>1, <2>2 DEF IInv, Hold, Relies, GivingUp
  <2> QED BY <2>3, <2>4
<1> QED BY <1>1, LeaseInvariant, PTL

\* prune_missing and unclaim: the claim of a session that stays is not dropped.
THEOREM ClaimsKeptSafe == ASSUME Windows = {} PROVE Spec => ClaimsKept
<1> DEFINE Step == \A s \in claims \ claims' : s \notin rows'
<1>1. ASSUME IInv, [Next]_vars PROVE [Step]_vars
  <2>1. ASSUME NEW e \in Clients, Unclaim(e) PROVE Step
    BY <1>1, <2>1 DEF Unclaim, IInv, Kept
  <2>2. ASSUME NEW e \in Clients, PruneMissing(e) PROVE Step
    BY <1>1, <2>2 DEF PruneMissing, IInv, Kept
  <2>3. ASSUME NEW e \in Clients, ClaimSession(e) PROVE Step
    BY <2>3 DEF ClaimSession
  <2>4. CASE claims' = claims
    BY <2>4
  <2>5. ASSUME NEW e \in Clients, Launch(e) PROVE Step
    BY <2>2, <2>4, <2>5
    DEF Launch, OpenGlobal, ReadLocks, ReadRows, PurgeSessionRows, StartFresh, StartIn,
        store
  <2>6. ASSUME NEW e \in Clients, Acquire(e) PROVE Step
    BY <2>4, <2>6
    DEF Acquire, ReadLockRow, TouchSessionLock, InsertLockRow, TakeoverSessionLock,
        store
  <2>7. ASSUME NEW e \in Clients, Handler(e) PROVE Step
    BY <2>1, <2>3, <2>4, <2>7
    DEF Handler, NewSession, InsertSession, LoadSession, SwapLock, FetchSession,
        DeleteSession, DeleteRow, DeleteLock, LockBeat, store
  <2>8. ASSUME NEW e \in Clients, Quit(e) \/ Crash(e) PROVE Step
    BY <2>4, <2>8 DEF Quit, Crash
  <2>9. CASE Tick
    BY <2>4, <2>9 DEF Tick
  <2> QED BY <1>1, <2>5, <2>6, <2>7, <2>8, <2>9 DEF Next
<1> QED BY <1>1, LeaseInvariant, PTL DEF Spec, ClaimsKept

\* takeover_session_lock and the INSERT before it: with every window open, no
\* lock passes from a client to another while its beat is within the TTL.
THEOREM LeaseHonouredSafe == Spec => LeaseHonoured
<1> DEFINE Step == \A s \in Sessions :
               lock[s] \in Clients /\ lock'[s] \notin {lock[s], None, Gone} => age[s] > TTL
<1>1. ASSUME Typed, [Next]_vars PROVE [Step]_vars
  <2> USE SessionStoreAssumption
  <2>1. ASSUME NEW e \in Clients, TakeoverSessionLock(e) PROVE Step
    BY <1>1, <2>1 DEF TakeoverSessionLock, Live, Beat, Typed, TypeOK
  <2>2. ASSUME NEW e \in Clients, InsertLockRow(e) PROVE Step
    BY <1>1, <2>2 DEF InsertLockRow, Beat, Typed, TypeOK
  <2>3. ASSUME NEW e \in Clients, TouchSessionLock(e) PROVE Step
    BY <1>1, <2>3 DEF TouchSessionLock, TouchOwn, Beat, Typed, TypeOK
  <2>4. ASSUME NEW e \in Clients, PurgeSessionRows(e) PROVE Step
    BY <1>1, <2>4 DEF PurgeSessionRows, Unlock, Typed, TypeOK
  <2>5. ASSUME NEW e \in Clients, DeleteLock(e) PROVE Step
    BY <1>1, <2>5 DEF DeleteLock, Unlock, Typed, TypeOK
  <2>6. ASSUME NEW e \in Clients, NewSession(e) \/ SwapLock(e) \/ Quit(e) PROVE Step
    BY <1>1, <2>6 DEF NewSession, SwapLock, Quit, ReleaseOwn, Unlock, Typed, TypeOK
  <2>7. ASSUME NEW e \in Clients, LockBeat(e) PROVE Step
    BY <1>1, <2>7 DEF LockBeat, TouchOwn, Beat, Typed, TypeOK
  <2>8. ASSUME NEW e \in Clients, Crash(e) PROVE Step
    BY <2>8 DEF Crash
  <2>9. CASE lock' = lock
    BY <2>9
  <2>10. ASSUME NEW e \in Clients, Launch(e) PROVE Step
    BY <2>4, <2>9, <2>10
    DEF Launch, OpenGlobal, ReadLocks, ReadRows, PruneMissing, StartFresh, StartIn,
        store
  <2>11. ASSUME NEW e \in Clients, Acquire(e) PROVE Step
    BY <2>1, <2>2, <2>3, <2>9, <2>11 DEF Acquire, ReadLockRow, store
  <2>12. ASSUME NEW e \in Clients, Handler(e) PROVE Step
    BY <2>5, <2>6, <2>7, <2>9, <2>12
    DEF Handler, InsertSession, ClaimSession, LoadSession, FetchSession, DeleteSession,
        DeleteRow, Unclaim, store
  <2>13. CASE Tick
    BY <2>9, <2>13 DEF Tick
  <2> QED BY <1>1, <2>6, <2>8, <2>10, <2>11, <2>12, <2>13 DEF Next
<1> QED BY <1>1, TypedInvariant, PTL DEF Spec, LeaseHonoured

(***************************************************************************)
(* The lease the locks implement                                           *)
(***************************************************************************)
\* A step in which at most one client moves, into a session it has locked or
\* out of its own, is a step of the lease or a stutter.
LEMMA OneMoves ==
    ASSUME IInv', NEW e \in Clients, \A c \in Timely \ {e} : Held(c)' = Held(c)
    PROVE  [Lease!Next]_Holds
<1>1. CASE e \notin Timely
  BY <1>1 DEF Holds
<1>2. CASE e \in Timely
  <2>1. Holds' = [Holds EXCEPT ![e] = Held(e)']
    BY <1>2 DEF Holds
  <2>2. Held(e)' \in Sessions \cup {None}
    BY <1>2 DEF IInv, Typed, TypeOK, Held, Timely
  <2>3. CASE Held(e)' = None
    BY <1>2, <2>1, <2>3 DEF Lease!Next, Lease!Leave
  <2>4. CASE Held(e)' \in Sessions
    <3>1. \A c \in Timely : Held(c)' = Held(e)' => lock'[Held(e)'] = c
      BY <2>4, SessionStoreAssumption DEF IInv, Hold, Held, Relies, GivingUp
    <3>2. \A c \in Timely \ {e} : Holds[c] # Held(e)'
      BY <1>2, <3>1 DEF Holds
    <3> QED BY <1>2, <2>1, <2>4, <3>2 DEF Lease!Next, Lease!Enter
  <2> QED BY <2>2, <2>3, <2>4
<1> QED BY <1>1, <1>2

\* A client's own steps are the only ones that move it.
LEMMA OthersStay ==
    ASSUME Typed, NEW e \in Clients, NEW c \in Clients \ {e},
           Launch(e) \/ Acquire(e) \/ Handler(e) \/ Quit(e) \/ Crash(e)
    PROVE  Held(c)' = Held(c)
<1> SUFFICES pc'[c] = pc[c] /\ target'[c] = target[c]
             /\ locked_session'[c] = locked_session[c]
  BY DEF Held, GivingUp
<1> USE DEF Typed, TypeOK, Goto, Return, BeginAcquire, handler, ctx
<1>1. CASE Launch(e)
  BY <1>1
  DEF Launch, OpenGlobal, ReadLocks, ReadRows, PurgeSessionRows, PruneMissing,
      StartFresh, StartIn
<1>2. CASE Acquire(e)
  BY <1>2
  DEF Acquire, ReadLockRow, TouchSessionLock, InsertLockRow, TakeoverSessionLock,
      Acquired, Refused
<1>3. CASE Handler(e)
  BY <1>3
  DEF Handler, NewSession, InsertSession, ClaimSession, LoadSession, SwapLock,
      FetchSession, DeleteSession, DeleteRow, DeleteLock, Unclaim, LockBeat
<1>4. CASE Quit(e) \/ Crash(e)
  BY <1>4 DEF Quit, Crash
<1> QED BY <1>1, <1>2, <1>3, <1>4

\* The lock rows, their heartbeats and the handlers around them implement the
\* lease: a timely client is in one session, and nobody else is.
THEOREM LeaseImplemented == ASSUME Windows = {} PROVE Spec => LeaseSpec
<1>1. Init => Lease!Init
  BY DEF Init, Lease!Init, Holds, Held, GivingUp, Timely
<1>2. ASSUME IInv, IInv', [Next]_vars PROVE [Lease!Next]_Holds
  <2>1. ASSUME NEW e \in Clients,
               Launch(e) \/ Acquire(e) \/ Handler(e) \/ Quit(e) \/ Crash(e)
        PROVE  [Lease!Next]_Holds
    <3>1. \A c \in Timely \ {e} : Held(c)' = Held(c)
      BY <1>2, <2>1, OthersStay DEF IInv, Timely
    <3> QED BY <1>2, <3>1, OneMoves
  <2>2. CASE UNCHANGED <<pc, target, locked_session>>
    BY <2>2 DEF Holds, Held, GivingUp
  <2> QED BY <1>2, <2>1, <2>2 DEF Next, Tick, vars, handler, ctx
<1> QED BY <1>1, <1>2, LeaseInvariant, PTL DEF Spec, LeaseSpec, Lease!Spec
=============================================================================
