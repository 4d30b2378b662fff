---------------------------- MODULE SessionStore ----------------------------
(* The sessions that several shuvarie clients share: the rows of the global *)
(* store, the claims of the directory-session map and the lease (a lock row *)
(* with a heartbeat) that lets one client at a time be in a session.        *)
(*                                                                          *)
(* A client is a core task with its Store: a process, or a tab of one.  One *)
(* action is one statement against the database or one rewrite of the map   *)
(* file, so the actions of clients interleave wherever the code awaits; the *)
(* six deletions of one purged session are a single step.                   *)
(* Time is counted in ages (of a beat, of a `now` already read), never in   *)
(* absolute values.  Failing statements and worker sessions are left out,   *)
(* as is the directory a claim is made for: the purge looks at all of them. *)
EXTENDS Naturals

CONSTANTS
    Clients,    \* core tasks that may run
    Sessions,   \* session ids; an id is reused once no trace of it is left
    TTL,        \* SESSION_LOCK_TTL_MS, in ticks of the clock
    Stalls,     \* clients whose heartbeat may come too late
    Windows,    \* which gaps between two awaits others may step into
    None,       \* no session, no lock row
    Gone        \* the lock's holder is a client id nobody has any more

(* "create": from the insert of a session to its lock.  "delete": from the  *)
(* check for another's lock to the last deletion.  "purge": from the load   *)
(* of the map to its pruning.  "gone": a session is deleted while a client  *)
(* that listed or loaded it is about to lock it.                            *)
AllWindows == {"create", "delete", "purge", "gone"}

ASSUME SessionStoreAssumption ==
    /\ TTL \in Nat /\ Stalls \subseteq Clients /\ Windows \subseteq AllWindows
    /\ None \notin Clients \cup Sessions \cup {Gone} /\ Gone \notin Clients

VARIABLES
    rows,           \* the sessions table: the main sessions stored
    claims,         \* session-dir.kdl: the sessions some workspace claims
    lock,           \* session_locks.client_id of each session
    age,            \* how long ago its beat is
    pc,             \* where each client's handler is
    via,            \* what the client is entering a session for
    target,         \* the session its handler is about
    late,           \* how long ago the handler read `now`
    spared,         \* the purge's snapshot of claimed and of locked sessions
    orphans,        \* the orphans it has still to delete
    existing,       \* and the sessions that will remain
    session,        \* CoreCtx.session: the stored session the client is in
    locked_session  \* CoreCtx.locked_session: the one it believes it locks

store   == <<rows, claims, lock, age>>
handler == <<pc, via, target, late>>
purge   == <<spared, orphans, existing>>
ctx     == <<session, locked_session>>
vars    == <<store, handler, purge, ctx>>

Acquiring == {"acquire", "touch", "insert", "takeover"}
Purging   == {"locks", "scan", "sweep"}
Deleting  == {"delete", "unlock", "unclaim"}
Places    == {"down", "startup", "select", "claim", "swap", "fetch"}
                 \cup Acquiring \cup Purging \cup Deleting
Reasons   == {"none", "startup", "load", "create"}

(* Ages beyond every `now` a handler may still hold are all alike.          *)
MaxAge == 2 * TTL + 1

TypeOK ==
    /\ rows \subseteq Sessions /\ claims \subseteq Sessions
    /\ lock \in [Sessions -> Clients \cup {None, Gone}]
    /\ age \in [Sessions -> 0..MaxAge]
    /\ pc \in [Clients -> Places] /\ via \in [Clients -> Reasons]
    /\ target \in [Clients -> Sessions \cup {None}]
    /\ late \in [Clients -> 0..TTL]
    /\ spared \in [Clients -> SUBSET Sessions]
    /\ orphans \in [Clients -> SUBSET Sessions]
    /\ existing \in [Clients -> SUBSET Sessions]
    /\ session \in [Clients -> Sessions \cup {None}]
    /\ locked_session \in [Clients -> Sessions \cup {None}]

Init ==
    /\ rows = {} /\ claims = {}
    /\ lock = [s \in Sessions |-> None] /\ age = [s \in Sessions |-> 0]
    /\ pc = [c \in Clients |-> "down"] /\ via = [c \in Clients |-> "none"]
    /\ target = [c \in Clients |-> None] /\ late = [c \in Clients |-> 0]
    /\ spared = [c \in Clients |-> {}] /\ orphans = [c \in Clients |-> {}]
    /\ existing = [c \in Clients |-> {}]
    /\ session = [c \in Clients |-> None]
    /\ locked_session = [c \in Clients |-> None]

-----------------------------------------------------------------------------
(* The windows                                                              *)

InWindow(c) ==
    \/ "purge" \notin Windows /\ pc[c] \in Purging
    \/ "delete" \notin Windows /\ pc[c] \in Deleting
    \/ "create" \notin Windows /\ \/ pc[c] = "claim"
                                  \/ via[c] = "create" /\ pc[c] \in Acquiring

(* No other client is where nobody may step in.                             *)
Undisturbed(c) == \A d \in Clients \ {c} : ~InWindow(d)

(* The client has picked a stored session and is not in it yet.             *)
Entering(c) ==
    \/ via[c] \in {"startup", "load"} /\ pc[c] \in Acquiring
    \/ pc[c] \in {"swap", "fetch"}

Stays(s) == "gone" \in Windows \/ s \in rows

MayDelete(c, s) ==
    "gone" \in Windows \/ \A d \in Clients \ {c} : Entering(d) => target[d] # s

MayPurge(c) == "gone" \in Windows \/ \A d \in Clients \ {c} : ~Entering(d)

-----------------------------------------------------------------------------
(* The lock rows                                                            *)

\* Mutated form: a beat exactly as old as the TTL is stale already.
LiveShort(s, n) == lock[s] # None /\ age[s] < n + TTL

Live(s, n) == lock[s] # None /\ age[s] <= n + TTL

Beat(s, c, n) == lock' = [lock EXCEPT ![s] = c] /\ age' = [age EXCEPT ![s] = n]

Unlock(s) == lock' = [lock EXCEPT ![s] = None] /\ age' = [age EXCEPT ![s] = 0]

(* touch_session_lock and release_session_lock only reach an own row.       *)
TouchOwn(s, c, n) ==
    IF lock[s] = c THEN Beat(s, c, n) ELSE UNCHANGED <<lock, age>>

ReleaseOwn(c) ==
    LET s == locked_session[c]
    IN  IF s # None /\ lock[s] = c THEN Unlock(s) ELSE UNCHANGED <<lock, age>>

(* The handler is over: its locals are gone.                                *)
Return(c) ==
    /\ pc' = [pc EXCEPT ![c] = "select"]
    /\ via' = [via EXCEPT ![c] = "none"]
    /\ target' = [target EXCEPT ![c] = None]
    /\ late' = [late EXCEPT ![c] = 0]

Goto(c, place) == pc' = [pc EXCEPT ![c] = place] /\ UNCHANGED <<via, target, late>>

(* A handler starts to acquire the lock of s: it reads `now`.               *)
BeginAcquire(c, s, reason) ==
    /\ pc' = [pc EXCEPT ![c] = "acquire"]
    /\ via' = [via EXCEPT ![c] = reason]
    /\ target' = [target EXCEPT ![c] = s]
    /\ late' = [late EXCEPT ![c] = 0]

-----------------------------------------------------------------------------
(* Launch: open_global_in, purge_orphans, load_startup_session              *)

OpenGlobal(c) ==
    /\ pc[c] = "down" /\ Undisturbed(c) /\ MayPurge(c)
    /\ spared' = [spared EXCEPT ![c] = claims]
    /\ Goto(c, "locks")
    /\ UNCHANGED <<store, orphans, existing, ctx>>

\* Mutated form: the purge looks at the map only.
ReadLocksUnread(c) ==
    /\ pc[c] = "locks" /\ Undisturbed(c)
    /\ Goto(c, "scan")
    /\ UNCHANGED <<store, purge, ctx>>

(* locked_session_ids: the store has no client id yet, every live lock counts. *)
ReadLocks(c) ==
    /\ pc[c] = "locks" /\ Undisturbed(c)
    /\ spared' = [spared EXCEPT ![c] = @ \cup {s \in Sessions : Live(s, 0)}]
    /\ Goto(c, "scan")
    /\ UNCHANGED <<store, orphans, existing, ctx>>

\* Mutated form: the sessions that remain are computed without the `!`.
ReadRowsOrphansRemain(c) ==
    /\ pc[c] = "scan" /\ Undisturbed(c)
    /\ orphans' = [orphans EXCEPT ![c] = rows \ spared[c]]
    /\ existing' = [existing EXCEPT ![c] = rows \ spared[c]]
    /\ spared' = [spared EXCEPT ![c] = {}]
    /\ Goto(c, "sweep")
    /\ UNCHANGED <<store, ctx>>

ReadRows(c) ==
    /\ pc[c] = "scan" /\ Undisturbed(c)
    /\ orphans' = [orphans EXCEPT ![c] = rows \ spared[c]]
    /\ existing' = [existing EXCEPT ![c] = rows \cap spared[c]]
    /\ spared' = [spared EXCEPT ![c] = {}]
    /\ Goto(c, "sweep")
    /\ UNCHANGED <<store, ctx>>

PurgeSessionRows(c) == \E s \in orphans[c] :
    /\ pc[c] = "sweep" /\ Undisturbed(c)
    /\ rows' = rows \ {s}
    /\ Unlock(s)
    /\ orphans' = [orphans EXCEPT ![c] = @ \ {s}]
    /\ UNCHANGED <<claims, handler, spared, existing, ctx>>

PruneMissing(c) ==
    /\ pc[c] = "sweep" /\ orphans[c] = {} /\ Undisturbed(c)
    /\ claims' = claims \cap existing[c]
    /\ existing' = [existing EXCEPT ![c] = {}]
    /\ Goto(c, "startup")
    /\ UNCHANGED <<rows, lock, age, spared, orphans, ctx>>

StartFresh(c) ==
    /\ pc[c] = "startup" /\ Undisturbed(c)
    /\ Goto(c, "select")
    /\ UNCHANGED <<store, purge, ctx>>

(* The session is loaded before its lock is acquired.                       *)
StartIn(c) == \E s \in rows :
    /\ pc[c] = "startup" /\ Undisturbed(c)
    /\ BeginAcquire(c, s, "startup")
    /\ UNCHANGED <<store, purge, ctx>>

-----------------------------------------------------------------------------
(* acquire_session_lock: a read, then one conditional write                 *)

\* Mutated form: the caller enters the session whatever the answer.
RefusedEnters(c) ==
    /\ session' = [session EXCEPT ![c] = target[c]]
    /\ Return(c)
    /\ UNCHANGED locked_session

(* The caller's branch on LockAcquire::Held.                                *)
Refused(c) == Return(c) /\ UNCHANGED ctx

(* Its branch on Acquired and Ours.                                         *)
Acquired(c) ==
    \/ /\ via[c] = "startup"
       /\ session' = [session EXCEPT ![c] = target[c]]
       /\ locked_session' = [locked_session EXCEPT ![c] = target[c]]
       /\ Return(c)
    \/ /\ via[c] = "create"
       /\ locked_session' = [locked_session EXCEPT ![c] = target[c]]
       /\ Return(c)
       /\ UNCHANGED session
    \/ /\ via[c] = "load"
       /\ Goto(c, IF locked_session[c] = target[c] THEN "fetch" ELSE "swap")
       /\ UNCHANGED ctx

ReadLockRow(c) ==
    /\ pc[c] = "acquire" /\ Undisturbed(c)
    /\ \/ lock[target[c]] = c /\ Goto(c, "touch")
       \/ lock[target[c]] = None /\ Goto(c, "insert")
       \/ /\ lock[target[c]] \notin {c, None}
          /\ ~Live(target[c], late[c])
          /\ Goto(c, "takeover")
       \/ /\ lock[target[c]] \notin {c, None}
          /\ Live(target[c], late[c])
          /\ Refused(c)
    /\ UNCHANGED <<store, purge, ctx>>

(* The row count of the touch is not looked at: the answer is Ours.         *)
TouchSessionLock(c) ==
    /\ pc[c] = "touch" /\ Undisturbed(c)
    /\ TouchOwn(target[c], c, late[c])
    /\ Acquired(c)
    /\ UNCHANGED <<rows, claims, purge>>

\* Mutated form: INSERT OR REPLACE.
InsertLockRowReplacing(c) ==
    /\ pc[c] = "insert" /\ Undisturbed(c)
    /\ Beat(target[c], c, late[c])
    /\ Acquired(c)
    /\ UNCHANGED <<rows, claims, purge>>

(* The primary key refuses a second row: then it is a takeover after all.   *)
InsertLockRow(c) ==
    /\ pc[c] = "insert" /\ Undisturbed(c)
    /\ \/ /\ lock[target[c]] = None
          /\ Beat(target[c], c, late[c])
          /\ Acquired(c)
       \/ /\ lock[target[c]] # None
          /\ Goto(c, "takeover")
          /\ UNCHANGED <<lock, age, ctx>>
    /\ UNCHANGED <<rows, claims, purge>>

\* Mutated form: the UPDATE does not check the beat again.
TakeoverUnchecked(c) ==
    /\ pc[c] = "takeover" /\ Undisturbed(c)
    /\ \/ /\ lock[target[c]] \notin {c, None}
          /\ Beat(target[c], c, late[c])
          /\ Acquired(c)
       \/ /\ lock[target[c]] \in {c, None}
          /\ Refused(c)
          /\ UNCHANGED <<lock, age>>
    /\ UNCHANGED <<rows, claims, purge>>

TakeoverSessionLock(c) ==
    /\ pc[c] = "takeover" /\ Undisturbed(c)
    /\ \/ /\ lock[target[c]] \notin {c, None} /\ ~Live(target[c], late[c])
          /\ Beat(target[c], c, late[c])
          /\ Acquired(c)
       \/ /\ lock[target[c]] \in {c, None} \/ Live(target[c], late[c])
          /\ Refused(c)
          /\ UNCHANGED <<lock, age>>
    /\ UNCHANGED <<rows, claims, purge>>

-----------------------------------------------------------------------------
(* The commands of the core task, taken while no reply streams              *)

NewSession(c) ==
    /\ pc[c] = "select" /\ Undisturbed(c)
    /\ ReleaseOwn(c)
    /\ session' = [session EXCEPT ![c] = None]
    /\ locked_session' = [locked_session EXCEPT ![c] = None]
    /\ UNCHANGED <<rows, claims, handler, purge>>

(* No trace of the id is left: to every client it is a fresh one.           *)
Fresh(s) ==
    /\ s \notin rows \cup claims /\ lock[s] = None
    /\ \A c \in Clients : /\ s \notin {target[c], session[c], locked_session[c]}
                          /\ s \notin spared[c] \cup orphans[c] \cup existing[c]

(* start_user_turn, the first prompt of a session: create_session inserts   *)
(* the row, then claims it; only then is its lock acquired.                 *)
InsertSession(c) == \E s \in Sessions :
    /\ pc[c] = "select" /\ session[c] = None /\ Fresh(s) /\ Undisturbed(c)
    /\ rows' = rows \cup {s}
    /\ pc' = [pc EXCEPT ![c] = "claim"]
    /\ target' = [target EXCEPT ![c] = s]
    /\ UNCHANGED <<claims, lock, age, via, late, purge, ctx>>

ClaimSession(c) ==
    /\ pc[c] = "claim" /\ Undisturbed(c)
    /\ claims' = claims \cup {target[c]}
    /\ session' = [session EXCEPT ![c] = target[c]]
    /\ BeginAcquire(c, target[c], "create")
    /\ UNCHANGED <<rows, lock, age, purge, locked_session>>

LoadSession(c) == \E s \in Sessions :
    /\ pc[c] = "select" /\ Stays(s) /\ Undisturbed(c)
    /\ BeginAcquire(c, s, "load")
    /\ UNCHANGED <<store, purge, ctx>>

(* release_active_lock, on the way into another session.                    *)
SwapLock(c) ==
    /\ pc[c] = "swap" /\ Undisturbed(c)
    /\ ReleaseOwn(c)
    /\ locked_session' = [locked_session EXCEPT ![c] = target[c]]
    /\ Goto(c, "fetch")
    /\ UNCHANGED <<rows, claims, purge, session>>

(* A session that is not stored any more leaves the client in the old one.  *)
FetchSession(c) ==
    /\ pc[c] = "fetch" /\ Undisturbed(c)
    /\ session' = [session EXCEPT ![c] = IF target[c] \in rows THEN target[c] ELSE @]
    /\ Return(c)
    /\ UNCHANGED <<store, purge, locked_session>>

(* locked_by_other; a session locked by another is refused, a no-op.        *)
DeleteSession(c) == \E s \in Sessions :
    /\ pc[c] = "select" /\ Undisturbed(c) /\ MayDelete(c, s)
    /\ lock[s] = c \/ ~Live(s, 0)
    /\ pc' = [pc EXCEPT ![c] = "delete"]
    /\ target' = [target EXCEPT ![c] = s]
    /\ UNCHANGED <<store, via, late, purge, ctx>>

DeleteRow(c) ==
    /\ pc[c] = "delete" /\ Undisturbed(c)
    /\ rows' = rows \ {target[c]}
    /\ Goto(c, "unlock")
    /\ UNCHANGED <<claims, lock, age, purge, ctx>>

(* The lock row goes whoever holds it.                                      *)
DeleteLock(c) ==
    /\ pc[c] = "unlock" /\ Undisturbed(c)
    /\ Unlock(target[c])
    /\ Goto(c, "unclaim")
    /\ UNCHANGED <<rows, claims, purge, ctx>>

Unclaim(c) ==
    /\ pc[c] = "unclaim" /\ Undisturbed(c)
    /\ claims' = claims \ {target[c]}
    /\ session' = [session EXCEPT ![c] = IF @ = target[c] THEN None ELSE @]
    /\ locked_session' = [locked_session EXCEPT ![c] = IF @ = target[c] THEN None ELSE @]
    /\ Return(c)
    /\ UNCHANGED <<rows, lock, age, purge>>

\* Mutated form: the touch does not compare the client id.
LockBeatAnyHolder(c) ==
    /\ pc[c] = "select" /\ locked_session[c] # None /\ Undisturbed(c)
    /\ age' = [age EXCEPT ![locked_session[c]] = 0]
    /\ UNCHANGED <<rows, claims, lock, handler, purge, ctx>>

(* A beat that finds its lock lost only forgets the lock, not the session.  *)
LockBeat(c) ==
    /\ pc[c] = "select" /\ locked_session[c] # None /\ Undisturbed(c)
    /\ TouchOwn(locked_session[c], c, 0)
    /\ locked_session' = [locked_session EXCEPT
                            ![c] = IF lock[@] = c THEN @ ELSE None]
    /\ UNCHANGED <<rows, claims, handler, purge, session>>

-----------------------------------------------------------------------------
(* The end of a client, and time                                            *)

Quit(c) ==
    /\ pc[c] = "select" /\ Undisturbed(c)
    /\ ReleaseOwn(c)
    /\ Goto(c, "down")
    /\ session' = [session EXCEPT ![c] = None]
    /\ locked_session' = [locked_session EXCEPT ![c] = None]
    /\ UNCHANGED <<rows, claims, purge>>

(* The process is killed anywhere.  The next one gets a client id of its    *)
(* own: to it the locks left behind are a stranger's.                       *)
Crash(c) ==
    /\ pc[c] # "down" /\ Undisturbed(c)
    /\ pc' = [pc EXCEPT ![c] = "down"]
    /\ via' = [via EXCEPT ![c] = "none"]
    /\ target' = [target EXCEPT ![c] = None]
    /\ late' = [late EXCEPT ![c] = 0]
    /\ spared' = [spared EXCEPT ![c] = {}]
    /\ orphans' = [orphans EXCEPT ![c] = {}]
    /\ existing' = [existing EXCEPT ![c] = {}]
    /\ session' = [session EXCEPT ![c] = None]
    /\ locked_session' = [locked_session EXCEPT ![c] = None]
    /\ lock' = [s \in Sessions |-> IF lock[s] = c THEN Gone ELSE lock[s]]
    /\ UNCHANGED <<rows, claims, age>>

(* The lease a client relies on: the one it believes it has, and the one it *)
(* has just taken on the way into a session.                                *)
Relies(c, s) == s = locked_session[c] \/ (pc[c] = "swap" /\ s = target[c])

\* Mutated form: nothing keeps a `now` from growing old.
TickUnbounded ==
    /\ \A c \in Clients \ Stalls, s \in Sessions :
           lock[s] = c /\ Relies(c, s) => age[s] < TTL
    /\ age' = [s \in Sessions |->
                 IF lock[s] # None /\ age[s] < MaxAge THEN age[s] + 1 ELSE age[s]]
    /\ late' = [c \in Clients |-> IF pc[c] \in Acquiring THEN late[c] + 1 ELSE 0]
    /\ UNCHANGED <<rows, claims, lock, pc, via, target, purge, ctx>>

(* Timeliness: the lease of a client that does not stall is renewed within  *)
(* the TTL, and a handler uses the `now` it read within the TTL.            *)
Tick ==
    /\ \A c \in Clients \ Stalls, s \in Sessions :
           lock[s] = c /\ Relies(c, s) => age[s] < TTL
    /\ \A c \in Clients : pc[c] \in Acquiring => late[c] < TTL
    /\ age' = [s \in Sessions |->
                 IF lock[s] # None /\ age[s] < MaxAge THEN age[s] + 1 ELSE age[s]]
    /\ late' = [c \in Clients |-> IF pc[c] \in Acquiring THEN late[c] + 1 ELSE 0]
    /\ UNCHANGED <<rows, claims, lock, pc, via, target, purge, ctx>>

Launch(c) ==
    \/ OpenGlobal(c) \/ ReadLocks(c) \/ ReadRows(c) \/ PurgeSessionRows(c)
    \/ PruneMissing(c) \/ StartFresh(c) \/ StartIn(c)

Acquire(c) ==
    ReadLockRow(c) \/ TouchSessionLock(c) \/ InsertLockRow(c) \/ TakeoverSessionLock(c)

Handler(c) ==
    \/ NewSession(c) \/ InsertSession(c) \/ ClaimSession(c)
    \/ LoadSession(c) \/ SwapLock(c) \/ FetchSession(c)
    \/ DeleteSession(c) \/ DeleteRow(c) \/ DeleteLock(c) \/ Unclaim(c)
    \/ LockBeat(c)

Next ==
    \/ \E c \in Clients : Launch(c) \/ Acquire(c) \/ Handler(c) \/ Quit(c) \/ Crash(c)
    \/ Tick

Spec == Init /\ [][Next]_vars

(* A client that runs goes on with its handler, and its interval fires; time *)
(* goes on.  The user need not do anything, and nothing has to crash.       *)
Continue(c) ==
    \/ Launch(c) /\ pc[c] # "down"
    \/ Acquire(c) \/ ClaimSession(c) \/ SwapLock(c) \/ FetchSession(c)
    \/ DeleteRow(c) \/ DeleteLock(c) \/ Unclaim(c)

FairSpec ==
    /\ Spec /\ SF_vars(Tick)
    /\ \A c \in Clients : WF_vars(Continue(c)) /\ SF_vars(LockBeat(c))

-----------------------------------------------------------------------------
(* Properties                                                               *)

Timely == Clients \ Stalls

(* The client is past the deletion of the lock of its own session.          *)
GivingUp(c, s) == pc[c] = "unclaim" /\ target[c] = s

(* A timely client that believes it has a session locked does have its lock *)
(* row, with a beat no other client can call stale.                         *)
Exclusive == \A c \in Timely, s \in Sessions :
    locked_session[c] = s /\ ~GivingUp(c, s) => lock[s] = c /\ age[s] <= TTL

(* Nobody deletes the session a timely client is in under its lock, by a    *)
(* delete or by the purge of a launch, or loses its claim.                  *)
InUseSurvives == \A c \in Timely, s \in Sessions :
    session[c] = s /\ locked_session[c] = s /\ pc[c] \notin Deleting => s \in rows

(* No two timely clients that take prompts are in the same session.         *)
OneWriter == \A c, d \in Timely :
    /\ c # d /\ pc[c] = "select" /\ pc[d] = "select"
    /\ session[c] # None
    => session[c] # session[d]

(* A claim goes with its session: no purge drops the claim of a session     *)
(* that stays, which would be an orphan at the next launch.                 *)
ClaimsKept == [][\A s \in claims \ claims' : s \notin rows']_vars

(* A lock passes from a client to another only when its beat is stale, even *)
(* if it was stale when read and has been renewed since.                    *)
LeaseHonoured == [][\A s \in Sessions :
    lock[s] \in Clients /\ lock'[s] \notin {lock[s], None, Gone} => age[s] > TTL]_vars

(* The lock of a client that is gone does not count for ever.               *)
StaleFrees == \A s \in Sessions :
    lock[s] = Gone /\ Live(s, 0) ~> lock[s] # Gone \/ ~Live(s, 0)

(* The session a client holds, for the other clients.                       *)
Held(c) == IF GivingUp(c, locked_session[c]) THEN None ELSE locked_session[c]

Holds == [c \in Timely |-> Held(c)]

(* The locks implement the lease of the timely clients: each is in a session *)
(* that no other of them holds.                                              *)
Lease == INSTANCE SessionLease WITH Clients <- Timely, holds <- Holds

LeaseSpec == Lease!Spec
=============================================================================
