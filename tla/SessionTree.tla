---------------------------- MODULE SessionTree ----------------------------
(* The message tree of one session: the rows of the messages table with     *)
(* their parents, the active leaf of the session's row, the copy of the     *)
(* active path the core task holds in memory, and the run that writes its   *)
(* reply into them.  Every operation of the core task on them is here:      *)
(* append, fork (/undo), branch delete, compaction, replay, resume, reload. *)
(*                                                                          *)
(* A handler does several writes, each of which may fail on its own; `how`  *)
(* names the one that does, "ok" none.  Nothing else touches the tree while *)
(* a handler runs, but a run that ends: its writes are steps of their own.  *)
(* Message contents are left out, except whose prompt a prompt repeats.     *)
EXTENDS Integers, Sequences, FiniteSets, FiniteSetsExt, Functions

CONSTANTS
    MaxId,      \* bound: rows ever written to the messages table
    MinTail,    \* MIN_TAIL_MESSAGES
    MaxFaults,  \* bound: failing writes and loads
    Faults,     \* which of them may fail
    Windows     \* which of the code's rarer situations happen

(* "insert": a row's INSERT.  "leaf": the leaf update behind it, or that of *)
(* a fork.  "reparent", "restore": the last two writes of a compaction.     *)
(* "load": a session load.  "refresh", "delete": the load behind a branch   *)
(* delete, and one of its row deletions.                                    *)
AllFaults == {"insert", "leaf", "reparent", "restore", "load", "refresh", "delete"}

(* "race": a fork while a run is in its terminal sequence.  "abort": a run  *)
(* is aborted inside the creation of its row.  "exhaust": a compacted run   *)
(* is not resumed.  "thought": a run fails after reasoning only.  "astray": *)
(* a deleted branch holds the tip in memory and not the stored leaf (which  *)
(* was never written, or a failed operation left the two apart).            *)
AllWindows == {"race", "abort", "exhaust", "thought", "astray"}

ASSUME SessionTreeAssumption ==
    /\ MaxId \in Nat /\ MinTail \in Nat \ {0} /\ MaxFaults \in Nat
    /\ Faults \subseteq AllFaults /\ Windows \subseteq AllWindows

Ids        == 1..MaxId
EMPTY_LEAF == 0     \* the leaf of a cleared path; also: no parent, no id
Unset      == -1    \* the leaf column is NULL
Roles      == {"user", "reply", "summary"}

VARIABLES
    live, parent, role, \* the messages table
    leaf,               \* sessions.leaf_id
    next,               \* the next AUTOINCREMENT id
    path,               \* Session.messages: the row of each, 0 if it has none
    mleaf,              \* Session.leaf_id
    known,              \* the last user node on the path of Session.nodes
    pc,                 \* where the run and the loop's interest in it are
    why,                \* how the run ends
    row, cont,          \* assistant_message_id, continuing_seq (from 1)
    base, slot,         \* the parent read by the commit, its place in path
    turn, turnOf,       \* history: the run's prompt, the prompt of each reply
    says,               \* history: whose words each prompt repeats
    covers,             \* history: the messages each summary stands for
    faults, clean       \* failures so far; none since memory was last loaded

table  == <<live, parent, role, leaf, next>>
memory == <<path, mleaf, known>>
run    == <<why, row, cont, base, turn>>
ghost  == <<turnOf, says, covers>>
vars   == <<table, memory, pc, slot, run, ghost, faults, clean>>

Places == {"idle", "streaming", "ending", "commit", "compact", "failed", "spliced"}
Reasons == {"done", "cut", "error", "overflow"}

(* While the run is at one of these, `finishing` is set.                    *)
Terminal == {"ending", "commit", "compact"}

TypeOK ==
    /\ live \subseteq Ids /\ parent \in [Ids -> 0..MaxId] /\ role \in [Ids -> Roles]
    /\ leaf \in Ids \cup {EMPTY_LEAF, Unset} /\ next \in 1..MaxId + 1
    /\ path \in Seq(0..MaxId) /\ mleaf \in 0..MaxId /\ known \in 0..MaxId
    /\ pc \in Places /\ why \in Reasons /\ row \in 0..MaxId /\ cont \in Nat
    /\ base \in 0..MaxId /\ slot \in Nat /\ turn \in 0..MaxId
    /\ turnOf \in [Ids -> 0..MaxId] /\ says \in [Ids -> 0..MaxId]
    /\ covers \in [Ids -> SUBSET Ids]
    /\ faults \in 0..MaxFaults /\ clean \in BOOLEAN

-----------------------------------------------------------------------------
(* Reading the tree                                                         *)

(* Where the active path ends: nowhere, at the leaf, or at the newest       *)
(* message when the leaf was never written or is gone.                      *)
Tip ==
    IF leaf = EMPTY_LEAF \/ live = {} THEN 0
    ELSE IF leaf \in live THEN leaf ELSE Max(live)

Above(m) == IF m \in live THEN parent[m] ELSE 0

(* The chain from the root to m.  A parent that is gone stays on it.        *)
PathTo(m) ==
    LET up[k \in 0..MaxId] == IF k = 0 THEN m ELSE Above(up[k-1])
        n == Cardinality({k \in 0..MaxId : up[k] # 0})
    IN [i \in 1..n |-> up[n - i]]

ActivePath == PathTo(Tip)

(* The rows among them: only where the chain breaks off can one be gone.    *)
StoredPath ==
    IF ActivePath = <<>> \/ Head(ActivePath) \in live THEN ActivePath ELSE Tail(ActivePath)

(* The last message of that role on a path; its place there.                *)
LastPlace(p, r) ==
    LET at == {i \in DOMAIN p : p[i] \in live /\ role[p[i]] = r}
    IN IF at = {} THEN 0 ELSE Max(at)

LastUser(p) == LET i == LastPlace(p, "user") IN IF i = 0 THEN 0 ELSE p[i]

(* d is m with all that hangs below it.                                     *)
IsSubtree(d, m) ==
    /\ m \in d
    /\ \A o \in live : parent[o] \in d => o \in d
    /\ \A o \in d \ {m} : parent[o] \in d

-----------------------------------------------------------------------------
(* Writing the tree                                                         *)

Outcomes == {"ok"} \cup IF faults < MaxFaults THEN Faults ELSE {}

(* The write `how` fails, if anything does.                                 *)
Fails(how, among) ==
    /\ how \in {"ok"} \cup among
    /\ faults' = IF how = "ok" THEN faults ELSE faults + 1

(* One row is inserted; nothing says yet where the leaf goes.               *)
Insert(r, p) ==
    /\ next \in Ids
    /\ live' = live \cup {next} /\ next' = next + 1
    /\ parent' = [parent EXCEPT ![next] = p]
    /\ role' = [role EXCEPT ![next] = r]

(* append_message and append_assistant_message: a row, then the leaf on it. *)
AppendRow(r, p, how) ==
    \/ how = "insert" /\ UNCHANGED table
    \/ how = "leaf" /\ Insert(r, p) /\ UNCHANGED leaf
    \/ how = "ok" /\ Insert(r, p) /\ leaf' = next

(* append_summary, and the row `below` hung from the summary.               *)
Splice(p, below) ==
    /\ next \in Ids
    /\ live' = live \cup {next} /\ next' = next + 1
    /\ parent' = [parent EXCEPT ![next] = p, ![below] = next]
    /\ role' = [role EXCEPT ![next] = "summary"]

(* What a summary of these messages stands for.                             *)
Covered(ms) == ms \cup UNION {covers[m] : m \in ms}

(* from_stored into the session in memory.                                  *)
Reload ==
    /\ mleaf' = Tip' /\ path' = PathTo(mleaf)' /\ known' = LastUser(path)'
    /\ slot' = 0 /\ clean' = TRUE

(* A failure leaves memory as it is.                                        *)
NoReload == UNCHANGED <<memory, slot>> /\ clean' = FALSE

(* The run is over, and its locals with it; t is the turn a retry resumes.  *)
Over(at, t) ==
    pc' = at /\ why' = "done" /\ row' = 0 /\ cont' = 0 /\ base' = 0 /\ turn' = t

(* The prompt of each reply row.                                            *)
Answers(how) == turnOf' = [turnOf EXCEPT ![next] = IF how = "insert" THEN 0 ELSE turn]

-----------------------------------------------------------------------------
(* A turn                                                                   *)

(* start_user_turn: the prompt goes to memory first; without a row there is *)
(* no request, and the prompt stays in memory.                              *)
SendMessage(how) ==
    /\ pc = "idle" /\ next \in Ids /\ Fails(how, {"insert", "leaf"})
    /\ AppendRow("user", mleaf, how)
    /\ says' = [says EXCEPT ![next] = next]
    /\ path' = Append(path, IF how = "ok" THEN next ELSE 0)
    /\ IF how = "ok"
       THEN /\ mleaf' = next /\ turn' = next /\ pc' = "streaming"
            /\ row' = 0 /\ cont' = 0 /\ UNCHANGED clean
       ELSE clean' = FALSE /\ UNCHANGED <<mleaf, turn, pc, row, cont>>
    /\ UNCHANGED <<known, why, base, slot, turnOf, covers>>

(* ensure_assistant_row, at the first tool call of the run; a call that     *)
(* finds it failed tries again.                                             *)
ToolStarts(how) ==
    /\ pc = "streaming" /\ row = 0 /\ next \in Ids
    /\ Fails(how, {"insert", "leaf"}) /\ AppendRow("reply", mleaf, how)
    /\ Answers(how)
    /\ IF how = "ok" THEN row' = next /\ mleaf' = next /\ UNCHANGED clean
                     ELSE clean' = FALSE /\ UNCHANGED <<row, mleaf>>
    /\ UNCHANGED <<path, known, pc, why, cont, base, slot, turn, says, covers>>

(* An item that ends the run sets `finishing`.                              *)
Finish(w) ==
    /\ pc = "streaming" /\ pc' = "ending" /\ why' = w
    /\ UNCHANGED <<table, memory, slot, row, cont, base, turn, ghost, faults, clean>>

(* The path with the run's reply: in place when the run continues a row.    *)
\* Mutated form: the continued row gets a second message.
WithReplyTwice(r) == Append(path, r)

WithReply(r) == IF cont \in DOMAIN path THEN path ELSE Append(path, r)

(* The commit of a finished reply: memory and the parent first...           *)
BeginCommit ==
    /\ pc = "ending" /\ why = "done" /\ pc' = "commit"
    /\ path' = WithReply(row) /\ base' = mleaf
    /\ slot' = IF row = 0 THEN Len(path') ELSE 0
    /\ UNCHANGED <<table, mleaf, known, why, row, cont, turn, ghost, faults, clean>>

(* ... then the row: the one there is, or a new one.                        *)
CommitReply(how) ==
    /\ pc = "commit" /\ Over("idle", 0) /\ slot' = 0
    /\ \/ /\ row # 0 /\ how = "ok"
          /\ UNCHANGED <<table, path, mleaf, turnOf, faults, clean>>
       \/ /\ row = 0 /\ next \in Ids /\ Fails(how, {"insert", "leaf"})
          /\ AppendRow("reply", base, how)
          /\ Answers(how)
          /\ IF how = "ok"
             THEN /\ mleaf' = next /\ UNCHANGED clean
                  /\ path' = IF slot = 0 THEN path ELSE [path EXCEPT ![slot] = next]
             ELSE clean' = FALSE /\ UNCHANGED <<path, mleaf>>
    /\ UNCHANGED <<known, says, covers>>

(* persist_interrupted_turn and persist_stream_error: the partial reply, if *)
(* there is any.  A failure that left reasoning alone gets a place in       *)
(* memory and no row; a cut gets a row for it.                              *)
Partial(w, how) ==
    \/ /\ row # 0 /\ how = "ok" /\ path' = WithReply(row)
       /\ UNCHANGED <<table, mleaf, turnOf, faults, clean>>
    \/ /\ row = 0 /\ how = "ok"
       /\ UNCHANGED <<table, path, mleaf, turnOf, faults, clean>>
    \/ /\ row = 0 /\ how = "ok" /\ w # "cut" /\ "thought" \in Windows
       /\ path' = WithReply(0) /\ UNCHANGED <<table, mleaf, turnOf, faults, clean>>
    \/ /\ row = 0 /\ next \in Ids /\ Fails(how, {"insert", "leaf"})
       /\ AppendRow("reply", mleaf, how)
       /\ Answers(how)
       /\ IF how = "ok"
          THEN mleaf' = next /\ path' = WithReply(next) /\ UNCHANGED clean
          ELSE /\ UNCHANGED mleaf /\ clean' = FALSE
               /\ path' = IF w = "cut" THEN path ELSE WithReply(0)

(* The run writes its own partial: cancelled, preempted or denied; failed,  *)
(* with a retry or without; overflowed, and then it compacts.               *)
Settle(how) ==
    /\ pc = "ending" /\ why # "done" /\ Partial(why, how)
    /\ \/ why \in {"cut", "error"} /\ Over("idle", 0)
       \/ why = "error" /\ Over("failed", turn)
       \/ why = "overflow" /\ pc' = "compact" /\ UNCHANGED run
    /\ UNCHANGED <<known, slot, says, covers>>

(* cut_running_stream: the loop aborts the run and writes its partial.      *)
CutRun(how) ==
    /\ pc = "streaming" /\ Partial("cut", how) /\ Over("idle", 0)
    /\ UNCHANGED <<known, slot, says, covers>>

(* The abort falls inside ensure_assistant_row, behind its insert or behind *)
(* its leaf: the loop knows nothing of the row and has nothing to write.    *)
CutInRow(how) ==
    /\ "abort" \in Windows /\ pc = "streaming" /\ row = 0 /\ how \in {"leaf", "ok"}
    /\ AppendRow("reply", mleaf, how)
    /\ Answers(how) /\ Over("idle", 0) /\ clean' = FALSE
    /\ UNCHANGED <<memory, slot, says, covers, faults>>

-----------------------------------------------------------------------------
(* Compaction                                                               *)

(* Where the newest summary is on a path, or else its start.                *)
Start(p) == Max({1, LastPlace(p, "summary")})

(* select_plan over the stored path: the first message of the kept tail.    *)
(* The token budget may put it at any stored one behind the newest summary. *)
Cuts(p) == {c \in Start(p) + 1..Len(p) : Len(p) > MinTail /\ p[c] \in live}

(* The messages that are summarized, when the tail starts at c.             *)
\* Mutated form: the last of them is left out.
SpanShort(p, c) == {p[i] : i \in Start(p)..c - 2}

Span(p, c) == {p[i] : i \in Start(p)..c - 1}

(* compact_active_path: the summary of the head is appended where the kept  *)
(* tail hangs, the tail is hung from it, the leaf goes back to the tip.     *)
(* The last two writes may fail unnoticed.                                  *)
\* Mutated form: the leaf stays on the summary.
CompactPathToSummary(p, c, how) ==
    LET first == p[c] IN
    /\ \/ how \in {"insert", "leaf"} /\ AppendRow("summary", parent[first], how)
       \/ /\ how = "reparent" /\ Insert("summary", parent[first]) /\ leaf' = Tip
       \/ /\ how = "restore" /\ Splice(parent[first], first) /\ leaf' = next
       \/ /\ how \in {"ok", "load"} /\ Splice(parent[first], first) /\ leaf' = next
    /\ covers' = [covers EXCEPT ![next] = Covered(Span(p, c))]

CompactPath(p, c, how) ==
    LET first == p[c] IN
    /\ \/ how \in {"insert", "leaf"} /\ AppendRow("summary", parent[first], how)
       \/ /\ how = "reparent" /\ Insert("summary", parent[first]) /\ leaf' = Tip
       \/ /\ how = "restore" /\ Splice(parent[first], first) /\ leaf' = next
       \/ /\ how \in {"ok", "load"} /\ Splice(parent[first], first) /\ leaf' = Tip
    /\ covers' = [covers EXCEPT ![next] = Covered(Span(p, c))]

Writes == {"insert", "leaf", "reparent", "restore"}

CompactSession(p, c, how) ==
    /\ pc = "idle" /\ next \in Ids /\ Fails(how, Writes \cup {"load"})
    /\ CompactPath(p, c, how)
    /\ IF how \in {"insert", "leaf", "load"} THEN NoReload ELSE Reload
    /\ UNCHANGED <<pc, why, row, cont, base, turn, turnOf, says>>

(* The compaction of an overflowed run; the loop reloads when it resumes.   *)
CompactRun(p, c, how) ==
    /\ pc = "compact" /\ next \in Ids /\ Fails(how, Writes)
    /\ CompactPath(p, c, how)
    /\ clean' = (clean /\ how = "ok")
    /\ IF how \in {"insert", "leaf"} THEN Over("idle", 0) ELSE Over("spliced", turn)
    /\ UNCHANGED <<memory, slot, turnOf, says>>

(* There is nothing to summarize, or no summary comes: the turn is over.    *)
NoCompaction ==
    /\ pc = "compact" /\ Over("idle", 0)
    /\ UNCHANGED <<table, memory, slot, ghost, faults, clean>>

(* The overflow budget is used up: the turn is over, compacted or not.      *)
Exhausted ==
    /\ "exhaust" \in Windows /\ pc = "spliced" /\ Over("idle", 0)
    /\ UNCHANGED <<table, memory, slot, ghost, faults, clean>>

(* resume_last_turn: the request goes on where the stored path ends, in the *)
(* reply row there if it is one.                                            *)
Resume(how) ==
    /\ pc \in {"failed", "spliced"} /\ Fails(how, {"load"})
    /\ UNCHANGED <<table, ghost>>
    /\ IF how = "load" \/ LastUser(ActivePath) = 0
       THEN /\ Over("idle", 0) /\ clean' = (clean /\ how = "ok")
            /\ UNCHANGED <<memory, slot>>
       ELSE LET open == role[Tip] = "reply" IN
            /\ Reload /\ pc' = "streaming"
            /\ row' = IF open THEN Tip ELSE 0
            /\ cont' = IF open THEN Len(ActivePath) ELSE 0
            /\ UNCHANGED <<why, base, turn>>

-----------------------------------------------------------------------------
(* The user's own operations                                                *)

(* A running turn is cut first (CutRun, which the grace also does alone);   *)
(* one in its terminal sequence is not, and is not waited for.              *)
\* Mutated form: the running turn is not cut first.
MayForkUncut == pc \in {"idle", "failed", "streaming"}

MayFork == pc \in {"idle", "failed"} \/ ("race" \in Windows /\ pc \in Terminal)

ClearRetry ==
    IF pc \in {"idle", "failed"} THEN Over("idle", 0) ELSE UNCHANGED <<pc, run>>

(* The messages a fork ends at: the target itself when it is walked to or   *)
(* is a marker, else its parent.                                            *)
ForkTip(t, after) == IF after \/ role[t] = "summary" THEN t ELSE parent[t]

(* The node a fork is about: the one given, or the last prompt of the path. *)
Targets(n) == IF n = 0 THEN {LastUser(ActivePath)} ELSE {n}

ForkSession(n, after, how) == \E t \in Targets(n) :
    /\ ClearRetry /\ Fails(how, {"leaf", "load"})
    /\ leaf' = IF t = 0 \/ how = "leaf" THEN leaf ELSE ForkTip(t, after)
    /\ UNCHANGED <<live, parent, role, next, ghost>>
    /\ IF how = "ok" THEN Reload ELSE NoReload

(* The same with a summary of what is forked away from.  It hangs where the *)
(* target hung; a turn is hung from it, a marker is not.                    *)
ForkSummarized(n, after, how) == \E t \in Targets(n) :
    LET marker == ~after /\ role[t] = "summary" IN
    /\ t # 0 /\ ForkTip(t, after) # 0 /\ next \in Ids
    /\ ClearRetry /\ Fails(how, {"insert", "leaf", "reparent", "load"})
    /\ \/ how \in {"insert", "leaf"} /\ AppendRow("summary", parent[t], how)
       \/ /\ how = "reparent" /\ ~marker
          /\ Insert("summary", parent[t]) /\ leaf' = next
       \/ /\ how \in {"ok", "load"} /\ leaf' = next
          /\ IF marker THEN Insert("summary", parent[t]) ELSE Splice(parent[t], t)
    /\ covers' = [covers EXCEPT ![next] = Covered(Range(PathTo(ForkTip(t, after))))]
    /\ UNCHANGED <<turnOf, says>>
    /\ IF how = "ok" THEN Reload ELSE NoReload

(* The branches the user may delete, each by its root.  A branch that holds *)
(* the tip in memory also holds the stored leaf, or the two have parted.    *)
Branches(m) == {d \in SUBSET live : IsSubtree(d, m)}

MayDelete(d) == mleaf \in d => leaf \in d \/ "astray" \in Windows

(* The leaf is compared as it is stored, before it is resolved.             *)
\* Mutated form: the leaf stays on a deleted row.
RewoundNever(m, d) == leaf

Rewound(m, d) == IF leaf \in d THEN parent[m] ELSE leaf

(* DeleteBranch: the leaf goes to the parent, the rows go; memory follows   *)
(* when the path lost its tail.                                             *)
DeleteBranch(m, d, how) ==
    /\ MayDelete(d) /\ Over("idle", 0) /\ Fails(how, {"load", "leaf", "refresh"})
    /\ UNCHANGED <<parent, role, next, ghost>>
    /\ IF how \in {"load", "leaf"}
       THEN UNCHANGED <<live, leaf>> /\ NoReload
       ELSE /\ live' = live \ d /\ leaf' = Rewound(m, d)
            /\ IF how = "refresh" THEN NoReload
               ELSE IF leaf \in d THEN Reload ELSE UNCHANGED <<memory, slot, clean>>

(* The store deletes the rows of a branch one by one, a parent before what  *)
(* hangs from it and one child's branch before the next one's.              *)
Begun(gone, d, m) ==
    /\ m \in gone /\ gone # d
    /\ \A o \in gone \ {m} : parent[o] \in gone
    /\ \A o, p \in gone : o # p /\ parent[o] = parent[p] =>
           \E x \in {o, p} : \A y \in d : x \in Range(PathTo(y)) => y \in gone

(* When one deletion fails the rest stays.                                  *)
DeleteFails(m, d) ==
    /\ MayDelete(d) /\ Over("idle", 0) /\ Fails("delete", {"delete"})
    /\ leaf' = Rewound(m, d)
    /\ \E gone \in SUBSET d : Begun(gone, d, m) /\ live' = live \ gone
    /\ UNCHANGED <<parent, role, next, ghost>> /\ NoReload

(* Replay: fork at the last prompt of the stored path and reload; here that *)
(* fails, or the copy of the tree in memory knew of no prompt.              *)
ReplayFork(how) ==
    /\ how \in {"leaf", "load"} \/ known = 0
    /\ ForkSession(0, FALSE, how)

(* Then the prompt that copy knew is sent as a new one.  The request goes   *)
(* out whether its row was written or not.                                  *)
Replay(how) ==
    /\ known # 0 /\ next \in Ids /\ Fails(how, {"insert", "leaf"})
    /\ \E t \in {LastUser(ActivePath)} : \E tip \in {IF t = 0 THEN Tip ELSE parent[t]} :
        /\ IF how = "insert" THEN UNCHANGED <<live, parent, role, next>>
                             ELSE Insert("user", tip)
        /\ leaf' = IF how = "ok" THEN next ELSE IF t = 0 THEN leaf ELSE tip
        /\ path' = Append(PathTo(tip), IF how = "ok" THEN next ELSE 0)
        /\ mleaf' = IF how = "ok" THEN next ELSE tip
        /\ known' = LastUser(PathTo(tip))
    /\ says' = [says EXCEPT ![next] = says[known]]
    /\ pc' = "streaming" /\ turn' = (IF how = "ok" THEN next ELSE 0)
    /\ row' = 0 /\ cont' = 0 /\ slot' = 0 /\ clean' = (how = "ok")
    /\ UNCHANGED <<why, base, turnOf, covers>>

(* The user cancels a retry that waits for its timer.                       *)
CancelRetry ==
    /\ pc = "failed" /\ Over("idle", 0)
    /\ UNCHANGED <<table, memory, slot, ghost, faults, clean>>

(* LoadSession, refused while a run is alive; and the load at the start of  *)
(* a process, which leaves nothing of the run its predecessor was in.       *)
LoadSession == Over("idle", 0) /\ UNCHANGED <<table, ghost, faults>> /\ Reload

-----------------------------------------------------------------------------
(* The whole                                                                *)

Init ==
    /\ live = {} /\ parent = [m \in Ids |-> 0] /\ role = [m \in Ids |-> "user"]
    /\ leaf = Unset /\ next = 1
    /\ path = <<>> /\ mleaf = 0 /\ known = 0
    /\ pc = "idle" /\ why = "done" /\ row = 0 /\ cont = 0
    /\ base = 0 /\ slot = 0 /\ turn = 0
    /\ turnOf = [m \in Ids |-> 0] /\ says = [m \in Ids |-> 0]
    /\ covers = [m \in Ids |-> {}]
    /\ faults = 0 /\ clean = TRUE

Turn(how) ==
    \/ SendMessage(how) \/ ToolStarts(how) \/ CommitReply(how) \/ Settle(how)
    \/ CutRun(how) \/ CutInRow(how) \/ Resume(how)

Compaction(how) ==
    /\ pc \in {"idle", "compact"}
    /\ \E p \in {StoredPath} : \E c \in Cuts(p) :
           CompactSession(p, c, how) \/ CompactRun(p, c, how)

Fork(how) ==
    /\ MayFork
    /\ \E n \in live \cup {0}, after \in BOOLEAN :
           /\ n = 0 => ~after
           /\ ForkSession(n, after, how) \/ ForkSummarized(n, after, how)

Delete(how) ==
    /\ pc \in {"idle", "failed"}
    /\ \E m \in live : \E d \in Branches(m) :
           DeleteBranch(m, d, how) \/ (how = "delete" /\ DeleteFails(m, d))

Resend(how) == pc \in {"idle", "failed"} /\ (ReplayFork(how) \/ Replay(how))

(* The commands by which the user leaves the path they are on.              *)
Rewind(how) == Fork(how) \/ Resend(how) \/ Delete(how)

Next ==
    \/ \E how \in Outcomes : Turn(how) \/ Compaction(how) \/ Rewind(how)
    \/ \E w \in Reasons : Finish(w)
    \/ BeginCommit \/ NoCompaction \/ Exhausted \/ CancelRetry \/ LoadSession

Spec == Init /\ [][Next]_vars

-----------------------------------------------------------------------------
(* Properties                                                               *)

(* What loading the session relies on, whatever writes have failed: every   *)
(* parent is still there, no chain of parents runs in a circle, and the     *)
(* leaf is one of the messages, as is the one the next append hangs from.   *)
TreeSound ==
    /\ \A m \in live : parent[m] \in live \cup {0}
    /\ \A s \in SUBSET live : s # {} => \E m \in s : parent[m] \notin s
    /\ leaf \in live \cup {EMPTY_LEAF, Unset} /\ mleaf \in live \cup {0}

(* Between turns the conversation the next request is built from is the one *)
(* that is stored, unless a write or a load failed since it was loaded.     *)
MemoryIsStore ==
    pc \in {"idle", "failed"} /\ clean => path = ActivePath /\ mleaf = Tip

(* A request starts at the newest summary on its path.  Whatever branch it  *)
(* is on, that summary stands for every prompt and reply before it, by      *)
(* itself or by an earlier summary; and the reply being written is in none. *)
(* (A replay whose prompt could not be stored runs without one; its retry   *)
(* goes on in the reply before, which a summary may hold.)                  *)
NothingForgotten ==
    /\ \A m \in live :
        LET p == PathTo(m)
            newest == LastPlace(p, "summary")
        IN \A i \in 1..newest - 1 : role[p[i]] = "summary" \/ p[i] \in covers[p[newest]]
    /\ pc = "streaming" /\ turn # 0 => \A m \in Range(ActivePath) : row \notin covers[m]

(* A reply stays on the branch of the prompt it answers, whichever way its  *)
(* row came to be written, while that branch reaches back to a root.        *)
ReplyUnderPrompt == \A m \in live : \A p \in {Range(PathTo(m))} :
    role[m] = "reply" /\ p \subseteq live /\ turnOf[m] \in live => turnOf[m] \in p

(* The messages of p are on q, in the same order.                           *)
Keeps(p, q) ==
    /\ Range(p) \subseteq Range(q)
    /\ \A i, j \in DOMAIN p : i < j =>
           \E k \in DOMAIN q : q[k] = p[i] /\ \E l \in DOMAIN q : k < l /\ q[l] = p[j]

(* While memory is in step with the store, only the user's rewinding takes  *)
(* a message off the active path: turns, compactions, resumes and reloads   *)
(* add to it, whatever fails in them.                                       *)
PathOnlyGrows == [][
    \/ ~clean \/ leaf = Unset \/ UNCHANGED table
    \/ \E p \in {ActivePath}, q \in {ActivePath'} : Keeps(p, q)
    \/ \E how \in Outcomes : Rewind(how)]_vars

(* A replay sends the last prompt of the path it forks.                     *)
ReplayResends == [][\A how \in Outcomes :
    pc \in {"idle", "failed"} /\ Replay(how) => says'[next] = says[LastUser(ActivePath)]]_vars
=============================================================================
