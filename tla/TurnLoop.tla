------------------------------ MODULE TurnLoop ------------------------------
(***************************************************************************)
(* The turn lifecycle of the core task (crates/core/src/core_task.rs and   *)
(* core_task/steer.rs): the `run` loop, which owns the conversation and    *)
(* takes one ready branch of its `select!` at a time, and the stream tasks *)
(* it spawns, one per request, which run on the other tokio workers.  They *)
(* share the steer signal, the deny cut, the flow-control handle and each  *)
(* run's TurnState, and a run reports how it ended over a channel of one.  *)
(*                                                                         *)
(* A run is one attempt at a turn: the first request of a prompt, or the   *)
(* request that resumes it after a failure or a compaction.  Prompts are   *)
(* numbered in the order the user submits them.                            *)
(***************************************************************************)
EXTENDS Integers, Sequences, FiniteSets

CONSTANTS
    MaxPrompts,         \* bound: prompts submitted (replays included)
    MaxFailures,        \* bound: runs that fail or overflow
    MaxTurnRetries,     \* config.retry.max_retries
    MaxOverflowRetries, \* MAX_OVERFLOW_RETRIES
    Commands,           \* the commands the user issues
    Endings,            \* what the provider and the permission rules may do
    Faults,             \* which of the loop's own steps may fail
    Windows             \* which scheduling windows of the code are open

AllCommands == {"Cancel", "Recall", "Fork", "New", "Load", "Delete",
                "DeleteBranch", "Replay", "Answer", "Quit"}

(* "outcome": a command is taken while a reported outcome still waits in   *)
(* the channel (`select!` picks any ready branch).  "abort": the run steps *)
(* between the guards of cut_running_stream and its abort.  "signal": the   *)
(* run claims its cut between the load and the store of SteerSignal::arm   *)
(* or disarm.  Both need two worker threads.                               *)
AllWindows == {"outcome", "abort", "signal"}

ASSUME TurnLoopAssumption ==
    /\ MaxPrompts \in Nat /\ MaxFailures \in Nat
    /\ MaxTurnRetries \in Nat /\ MaxOverflowRetries \in Nat
    /\ Commands \subseteq AllCommands
    /\ Endings \subseteq {"Error", "Overflow", "Deny"}
    /\ Faults \subseteq {"start", "resume"}
    /\ Windows \subseteq AllWindows

MaxRuns == MaxPrompts + MaxFailures
Runs    == 1..MaxRuns
NoRun   == 0
Prompts == 1..MaxPrompts

VARIABLES
    loop,            \* where the run loop is: its select!, inside a cut, ending
    cutFor,          \* the handler a cut in progress belongs to
    active,          \* ctx.active_stream: the run whose handle is held
    flow,            \* ctx.flow: the run whose flow control is held
    steered,         \* the queue of steered prompts
    pendingRetry,    \* a turn retry is scheduled
    turnRetries, overflowRetries,
    cancelDeadline,  \* the grace of a cooperative cancel is running
    asks,            \* pending responders: the runs whose tool waits on one
    sent, latest,    \* prompts submitted; the newest prompt given a turn
    steer,           \* SteerSignal
    denyCut,         \* DenyCut
    askq,            \* asks sent by a tool and not yet received by the loop
    done,            \* the stream_done channel, capacity one
    born,            \* runs spawned
    fails,           \* runs that failed or overflowed (bounds them only)
    pc,              \* the states of the runs
    phase,           \* ActionPhase of each run
    out,             \* what each run decided to report
    cancelled,       \* flow.cancel() was called for the run
    reply            \* what became of what the run streamed (its TurnState)

loopVars   == <<loop, cutFor>>
queueVars  == <<steered, sent, latest>>
retryVars  == <<pendingRetry, turnRetries, overflowRetries>>
askVars    == <<asks, askq>>
handleVars == <<active, flow>>
runVars    == <<fails, phase, out, cancelled, reply>>
vars == <<loop, cutFor, active, flow, steered, pendingRetry, turnRetries,
          overflowRetries, cancelDeadline, asks, sent, latest, steer, denyCut,
          askq, done, born, fails, pc, phase, out, cancelled, reply>>

(***************************************************************************)
(* States of a run                                                         *)
(***************************************************************************)
\* stream: consuming the provider's items; ask: blocked on a question or a
\* permission; cut: persisting its own cut; finish: in a terminal sequence,
\* `finishing` set; report: sending its outcome; over: the task returned.
RunStates == {"unborn", "stream", "ask", "cut", "finish", "report", "over", "aborted"}

\* ActionPhase, its Thinking and Text folded into Segment.
Phases == {"Fresh", "Segment", "Tools", "Between"}

SteerStates == {"idle", "armed", "finalizing"}

\* What a run decided to report; a denial cut reports Preempted like a steer cut.
Finishing == {"Finished", "Cancelled", "Failed", "Overflowed"}
Decisions == {"none", "Preempted", "Denied"} \cup Finishing

Outcomes == [run : Runs, kind : Decisions, flag : BOOLEAN]

\* The handle is not finished (AbortHandle::is_finished).
LiveStates == {"stream", "ask", "cut", "finish", "report"}
Live(t) == pc[t] \in LiveStates

Streaming == active # NoRun /\ Live(active)

\* Mutated form: a live handle forgotten by the busy check.
AgentBusyRetryOnly == pendingRetry

\* is_busy: prompts are steered while this holds.
AgentBusy == Streaming \/ pendingRetry

\* What became of a run's reply: nothing streamed yet, streamed, written once or
\* written again.
ReplyStates == {"empty", "partial", "saved", "twice"}
Streamed(r) == IF r = "empty" THEN "partial" ELSE r
Saved(r) == CASE r = "partial" -> "saved" [] r = "saved" -> "twice" [] OTHER -> r

Init ==
    /\ loop = "select" /\ cutFor = "none"
    /\ active = NoRun /\ flow = NoRun
    /\ steered = <<>> /\ sent = 0 /\ latest = 0
    /\ pendingRetry = FALSE /\ turnRetries = 0 /\ overflowRetries = 0
    /\ cancelDeadline = FALSE
    /\ asks = {} /\ askq = {}
    /\ steer = "idle" /\ denyCut = FALSE
    /\ done = <<>> /\ born = 0
    /\ pc = [t \in Runs |-> "unborn"]
    /\ phase = [t \in Runs |-> "Fresh"]
    /\ out = [t \in Runs |-> "none"]
    /\ cancelled = [t \in Runs |-> FALSE]
    /\ reply = [t \in Runs |-> "empty"]
    /\ fails = 0

(***************************************************************************)
(* Pieces the run loop's branches are built from.  `pcs` is the run states *)
(* as the rest of the handler leaves them.                                 *)
(***************************************************************************)
AtSelect == loop = "select"

\* A command is taken from the channel; the outcome branch may be ready too.
TakeCommand == AtSelect /\ (done = <<>> \/ "outcome" \in Windows)

\* Dropping the responders errors the waiting tools back into their runs.
Dismissed == [t \in Runs |-> IF t \in asks /\ pc[t] = "ask" THEN "stream" ELSE pc[t]]

\* self_replay_send, once nothing stops it: the request's task is spawned and
\* its handle, its flow control and a fresh deny cut replace the old ones.
SpawnRun(pcs) ==
    /\ born < MaxRuns
    /\ born' = born + 1
    /\ active' = born + 1 /\ flow' = born + 1
    /\ denyCut' = FALSE
    /\ pc' = [pcs EXCEPT ![born + 1] = "stream"]

\* Mutated form: the fresh turn does not reset the signal.
StartUserTurnKeepsSignal(p, pcs, signal) ==
    /\ latest' = p
    /\ SpawnRun(pcs)
    /\ UNCHANGED steer

\* start_user_turn for prompt p, `signal` being what the handler leaves the
\* steer signal at.  A failure to create or persist leaves no run at all (a
\* flow control it leaves behind belongs to a spent run and is never read).
StartUserTurn(p, pcs, signal) ==
    /\ latest' = p
    /\ steer' = signal
    /\ \/ SpawnRun(pcs)
       \/ /\ "start" \in Faults
          /\ active' = NoRun /\ flow' = NoRun
          /\ pc' = pcs
          /\ UNCHANGED <<born, denyCut>>

\* Mutated form: the newest queued prompt is dispatched first.
DispatchNewest(pcs, signal) ==
    /\ steered' = SubSeq(steered, 1, Len(steered) - 1)
    /\ StartUserTurn(steered[Len(steered)], pcs, signal)
    /\ UNCHANGED sent

\* The front of the queue becomes the next turn.
DispatchSteered(pcs, signal) ==
    /\ steered' = Tail(steered)
    /\ StartUserTurn(Head(steered), pcs, signal)
    /\ UNCHANGED sent

\* resume_last_turn: re-sends the path's last turn, or returns with nothing
\* started (an unreadable session, no plan, an unusable provider).
ResumeLastTurn ==
    \/ SpawnRun(pc)
    \/ /\ "resume" \in Faults
       /\ flow' = NoRun
       /\ UNCHANGED <<born, active, denyCut, pc>>

\* disarm where no run can claim a cut meanwhile: a finalizing cut is left alone.
Disarmed == IF steer = "finalizing" THEN steer ELSE "idle"

\* arm and disarm beside a running stream: a cut claimed behind the load is
\* overwritten by the store.
Stored(value) ==
    {IF steer = "finalizing" THEN steer ELSE value}
        \cup (IF "signal" \in Windows THEN {value} ELSE {})

\* Mutated form of arm: the prompt is queued and the stream never told.
ArmedNever == {steer}
Armed == Stored("armed")

\* clear_steered, and the end of a scheduled retry.
QueueCleared == steered' = <<>> /\ steer' = Disarmed
RetryDropped == pendingRetry' = FALSE /\ turnRetries' = 0

(***************************************************************************)
(* cut_running_stream: its guards, then the abort.  The handler it belongs *)
(* to continues in AbortCut.                                               *)
(***************************************************************************)
\* Mutated forms: one of the two guards is missing.
CutGuardedBySteer     == steer = "finalizing"
CutGuardedByFinishing == out[active] \in Finishing

CutGuarded == steer = "finalizing" \/ out[active] \in Finishing

\* Mutated form: the caller goes on without a cut.
NothingToCutEver == TRUE

NothingToCut == Streaming => CutGuarded

\* The guards let the abort through.
BeginCut(why) ==
    /\ Streaming /\ ~CutGuarded
    /\ loop' = "cut" /\ cutFor' = why
    /\ UNCHANGED <<active, flow, queueVars, retryVars, askVars, steer, denyCut, done,
                   born, pc, runVars>>

\* The guards hold: the run's own terminal sequence is left to land.  A spent
\* handle is dropped.
HandleAfterNoCut == IF Streaming THEN active ELSE NoRun

\* Mutated form: the abort drops the partial.
PartialDropped == reply

\* persist_interrupted_turn, called by the loop for the run it aborts.
PartialPersisted == [reply EXCEPT ![active] = Saved(@)]

\* handle.abort(), persist_interrupted_turn of the partial, and the rest of the
\* handler that asked for the cut.
AbortCut ==
    LET pcs == [Dismissed EXCEPT ![active] = IF Live(active) THEN "aborted" ELSE pc[active]]
    IN  /\ loop = "cut"
        /\ loop' = IF cutFor = "quit" THEN "ended" ELSE "select"
        /\ cutFor' = "none"
        /\ asks' = {}
        /\ reply' = PartialPersisted
        /\ IF cutFor \in {"cancel", "grace"} /\ steered # <<>>
           THEN DispatchSteered(pcs, "idle")
           ELSE /\ active' = NoRun /\ flow' = NoRun
                /\ pc' = pcs
                /\ steer' = IF cutFor = "quit" THEN steer ELSE "idle"
                /\ steered' = IF cutFor = "fork" THEN <<>> ELSE steered
                /\ UNCHANGED <<sent, latest, born, denyCut>>
        /\ IF cutFor = "fork"
           THEN pendingRetry' = FALSE /\ turnRetries' = 0
           ELSE UNCHANGED <<pendingRetry, turnRetries>>
        /\ UNCHANGED <<overflowRetries, cancelDeadline, askq, done, fails, phase, out, cancelled>>

(***************************************************************************)
(* Commands                                                                *)
(***************************************************************************)
\* Command::SendMessage: steered behind a busy agent, a turn of its own
\* otherwise.
SendMessage ==
    /\ TakeCommand /\ sent < MaxPrompts
    /\ sent' = sent + 1
    /\ \/ /\ AgentBusy
          /\ steered' = Append(steered, sent + 1)
          /\ steer' \in Armed
          /\ UNCHANGED <<latest, retryVars, handleVars, born, denyCut, pc>>
       \/ /\ ~AgentBusy
          /\ overflowRetries' = 0 /\ turnRetries' = 0 /\ pendingRetry' = FALSE
          /\ StartUserTurn(sent + 1, pc, "idle")
          /\ UNCHANGED steered
    /\ UNCHANGED <<loopVars, cancelDeadline, askVars, done, runVars>>

\* Mutated form: the cooperative cancel starts no grace.
CancelFlowWithoutGrace ==
    /\ TakeCommand /\ "Cancel" \in Commands
    /\ Streaming /\ flow # NoRun
    /\ cancelled' = [cancelled EXCEPT ![flow] = TRUE]
    /\ asks' = {} /\ pc' = Dismissed
    /\ UNCHANGED <<loopVars, handleVars, queueVars, retryVars, cancelDeadline, steer, denyCut,
                   askq, done, born, fails, phase, out, reply>>

\* Command::CancelStream with a live run and its flow control at hand: ask the
\* run to stop at its next boundary and start the grace.
CancelFlow ==
    /\ TakeCommand /\ "Cancel" \in Commands
    /\ Streaming /\ flow # NoRun
    /\ cancelled' = [cancelled EXCEPT ![flow] = TRUE]
    /\ cancelDeadline' = TRUE
    /\ asks' = {} /\ pc' = Dismissed
    /\ UNCHANGED <<loopVars, handleVars, queueVars, retryVars, steer, denyCut, askq, done,
                   born, fails, phase, out, reply>>

\* Command::CancelStream with no flow control for the live run.
CancelCut ==
    /\ TakeCommand /\ "Cancel" \in Commands
    /\ flow = NoRun
    /\ BeginCut("cancel")
    /\ UNCHANGED cancelDeadline

\* Command::CancelStream with no run it may cut.  A scheduled retry ends
\* instead: that agent-loop window is over and the next steered prompt takes
\* over.
CancelRetry ==
    /\ TakeCommand /\ "Cancel" \in Commands
    /\ Streaming => flow = NoRun /\ CutGuarded
    /\ \/ /\ pendingRetry /\ steered # <<>>
          /\ pendingRetry' = FALSE /\ turnRetries' = 0
          /\ DispatchSteered(pc, "idle")
       \/ /\ pendingRetry => steered = <<>>
          /\ pendingRetry' = FALSE
          /\ turnRetries' = IF pendingRetry THEN 0 ELSE turnRetries
          /\ steer' = IF pendingRetry THEN "idle" ELSE steer
          /\ active' = HandleAfterNoCut
          /\ UNCHANGED <<queueVars, flow, born, denyCut, pc>>
    /\ UNCHANGED <<loopVars, overflowRetries, cancelDeadline, askVars, done, runVars>>

\* Command::RecallSteered: the newest queued prompt goes back to the input.
RecallSteered ==
    /\ TakeCommand /\ "Recall" \in Commands
    /\ steered' = IF steered = <<>> THEN <<>> ELSE SubSeq(steered, 1, Len(steered) - 1)
    /\ IF steered' = <<>> THEN steer' \in Stored("idle") ELSE UNCHANGED steer
    /\ UNCHANGED <<loopVars, handleVars, sent, latest, retryVars, cancelDeadline, askVars,
                   denyCut, done, born, pc, runVars>>

\* Command::ForkSession that must cut a run first (AbortCut finishes it).
ForkCut ==
    /\ TakeCommand /\ "Fork" \in Commands
    /\ BeginCut("fork")
    /\ UNCHANGED cancelDeadline

\* Command::ForkSession with no run to cut, or one whose terminal sequence the
\* cut leaves alone: the queue is wiped and the path rewound all the same.
ForkSession ==
    /\ TakeCommand /\ "Fork" \in Commands
    /\ NothingToCut
    /\ active' = HandleAfterNoCut
    /\ QueueCleared /\ RetryDropped
    /\ UNCHANGED <<loopVars, flow, sent, latest, overflowRetries, cancelDeadline, askVars,
                   denyCut, done, born, pc, runVars>>

\* The session-level transitions below are refused while a run streams
\* (stream_busy).
\* Command::NewSession: the queue, the asks and the retry belong to the old one.
NewSession ==
    /\ TakeCommand /\ "New" \in Commands
    /\ ~Streaming
    /\ overflowRetries' = 0 /\ RetryDropped
    /\ QueueCleared
    /\ asks' = {} /\ pc' = Dismissed
    /\ UNCHANGED <<loopVars, handleVars, sent, latest, cancelDeadline, denyCut, askq, done,
                   born, runVars>>

\* Command::LoadSession: a session another process holds costs the scheduled
\* retry only.
LoadSession ==
    /\ TakeCommand /\ "Load" \in Commands
    /\ ~Streaming
    /\ RetryDropped
    /\ \/ QueueCleared /\ asks' = {} /\ pc' = Dismissed
       \/ UNCHANGED <<steered, steer, asks, pc>>
    /\ UNCHANGED <<loopVars, handleVars, sent, latest, overflowRetries, cancelDeadline, denyCut,
                   askq, done, born, runVars>>

\* Command::DeleteSession: the asks stay.
DeleteSession ==
    /\ TakeCommand /\ "Delete" \in Commands
    /\ ~Streaming
    /\ RetryDropped /\ QueueCleared
    /\ UNCHANGED <<loopVars, handleVars, sent, latest, overflowRetries, cancelDeadline, askVars,
                   denyCut, done, born, pc, runVars>>

\* Command::DeleteBranch: the queue goes when the active path lost its tail with
\* the branch.
DeleteBranch ==
    /\ TakeCommand /\ "DeleteBranch" \in Commands
    /\ ~Streaming
    /\ RetryDropped
    /\ QueueCleared \/ UNCHANGED <<steered, steer>>
    /\ UNCHANGED <<loopVars, handleVars, sent, latest, overflowRetries, cancelDeadline, askVars,
                   denyCut, done, born, pc, runVars>>

\* Command::Replay: the last user prompt is sent again as a fresh turn (it
\* takes a prompt number; the queue is untouched).
Replay ==
    /\ TakeCommand /\ "Replay" \in Commands
    /\ ~Streaming /\ latest # 0 /\ sent < MaxPrompts
    /\ RetryDropped
    /\ steer' = "idle"
    /\ \/ /\ sent' = sent + 1 /\ latest' = sent + 1
          /\ SpawnRun(pc)
       \/ /\ "start" \in Faults
          /\ flow' = NoRun
          /\ UNCHANGED <<sent, latest, active, born, denyCut, pc>>
    /\ UNCHANGED <<loopVars, steered, overflowRetries, cancelDeadline, askVars, done, runVars>>

\* Command::AnswerQuestion and Command::PermissionDecide: the responder is taken
\* and the tool goes on, or is denied.
Answer(t) ==
    /\ TakeCommand /\ "Answer" \in Commands
    /\ t \in asks
    /\ asks' = asks \ {t}
    /\ pc' = [pc EXCEPT ![t] = IF @ = "ask" THEN "stream" ELSE @]
    /\ \/ UNCHANGED denyCut
       \/ "Deny" \in Endings /\ pc[t] = "ask" /\ denyCut' = TRUE
    /\ UNCHANGED <<loopVars, handleVars, queueVars, retryVars, cancelDeadline, steer, askq,
                   done, born, runVars>>

\* The command channel closes: a run is cut, or its terminal sequence awaited.
Quit ==
    /\ AtSelect /\ "Quit" \in Commands
    /\ \/ BeginCut("quit") /\ UNCHANGED cancelDeadline
       \/ /\ NothingToCut
          /\ loop' = IF Streaming THEN "closing" ELSE "ended"
          /\ active' = HandleAfterNoCut
          /\ UNCHANGED <<cutFor, flow, queueVars, retryVars, cancelDeadline, askVars, steer,
                         denyCut, done, born, pc, runVars>>

\* The bounded wait of the shutdown: the outcome, or the timeout.
Close ==
    /\ loop = "closing"
    /\ loop' = "ended"
    /\ done' = <<>>
    /\ UNCHANGED <<cutFor, handleVars, queueVars, retryVars, cancelDeadline, askVars, steer,
                   denyCut, born, pc, runVars>>

(***************************************************************************)
(* The other branches of the select!                                       *)
(***************************************************************************)
\* A question or a permission ask reaches the loop, whatever became of its run.
ReceiveAsk(t) ==
    /\ AtSelect /\ t \in askq
    /\ askq' = askq \ {t} /\ asks' = asks \cup {t}
    /\ UNCHANGED <<loopVars, handleVars, queueVars, retryVars, cancelDeadline, steer, denyCut,
                   done, born, pc, runVars>>

\* Mutated form: the rest of the queue is left unarmed.
RestUnarmed == "idle"

DispatchDue == steered # <<>>
RestArmed == IF Len(steered) > 1 THEN "armed" ELSE "idle"

\* A run ended for good: the front of the queue is the next turn and the rest
\* stays armed behind it.
HandleEnd ==
    /\ done[1].kind \in {"Finished", "Preempted", "Denied", "Cancelled"}
    /\ overflowRetries' = 0 /\ turnRetries' = 0
    /\ asks' = {}
    /\ \/ /\ DispatchDue
          /\ DispatchSteered(Dismissed, RestArmed)
       \/ /\ ~DispatchDue
          /\ active' = NoRun /\ flow' = NoRun
          /\ steer' = "idle" /\ pc' = Dismissed
          /\ UNCHANGED <<queueVars, born, denyCut>>
    /\ UNCHANGED pendingRetry

\* The context overflowed: resume behind the compacted history, a few times.
HandleOverflow ==
    /\ done[1].kind = "Overflowed"
    /\ \/ /\ done[1].flag /\ overflowRetries < MaxOverflowRetries
          /\ overflowRetries' = overflowRetries + 1
          /\ ResumeLastTurn
          /\ UNCHANGED steer
       \/ /\ ~(done[1].flag /\ overflowRetries < MaxOverflowRetries)
          /\ overflowRetries' = 0 /\ steer' = "idle" /\ flow' = NoRun
          /\ UNCHANGED <<active, born, denyCut, pc>>
    /\ UNCHANGED <<pendingRetry, turnRetries, queueVars, asks>>

\* The attempts counted against the budget: an attempt that progressed starts a
\* new chain (next_turn_retry).
Attempt == (IF done[1].flag THEN 0 ELSE turnRetries) + 1

\* Mutated form: one attempt too many.
RetryAllowedOneMore == Attempt <= MaxTurnRetries + 1
RetryAllowed == Attempt <= MaxTurnRetries

HandleFailure ==
    /\ done[1].kind = "Failed"
    /\ flow' = NoRun
    /\ \/ /\ RetryAllowed
          /\ turnRetries' = Attempt /\ pendingRetry' = TRUE
          /\ UNCHANGED steer
       \/ /\ ~RetryAllowed
          /\ turnRetries' = 0 /\ steer' = "idle"
          /\ UNCHANGED pendingRetry
    /\ UNCHANGED <<overflowRetries, active, queueVars, asks, born, denyCut, pc>>

\* stream_done_rx: whatever the outcome, the grace and the flow control are spent.
HandleOutcome ==
    /\ AtSelect /\ done # <<>>
    /\ done' = <<>> /\ cancelDeadline' = FALSE
    /\ HandleEnd \/ HandleOverflow \/ HandleFailure
    /\ UNCHANGED <<loopVars, askq, runVars>>

\* The retry delay elapsed.
RetryFires ==
    /\ AtSelect /\ pendingRetry
    /\ pendingRetry' = FALSE
    /\ ResumeLastTurn
    /\ UNCHANGED <<loopVars, queueVars, turnRetries, overflowRetries, cancelDeadline, askVars,
                   steer, done, runVars>>

\* The cancel grace elapsed: fall back to the hard cut.
GraceFires ==
    /\ AtSelect /\ cancelDeadline
    /\ cancelDeadline' = FALSE
    /\ \/ BeginCut("grace")
       \/ /\ NothingToCut
          /\ active' = HandleAfterNoCut
          /\ UNCHANGED <<loopVars, flow, queueVars, retryVars, askVars, steer, denyCut, done,
                         born, pc, runVars>>

(***************************************************************************)
(* The stream task (stream_stream_to_events)                               *)
(***************************************************************************)
Scheduled == loop # "ended" /\ (loop # "cut" \/ "abort" \in Windows)

StreamStep(t) == Scheduled /\ pc[t] = "stream"

\* begin_preempt: the task claims the cut of a steered prompt.
ClaimCut(t) ==
    /\ steer = "armed" /\ steer' = "finalizing"
    /\ pc' = [pc EXCEPT ![t] = "cut"]
    /\ out' = [out EXCEPT ![t] = "Preempted"]
    /\ UNCHANGED denyCut

\* A denial ends the turn at the next item.
TakeDenial(t) ==
    /\ denyCut /\ denyCut' = FALSE
    /\ pc' = [pc EXCEPT ![t] = "cut"]
    /\ out' = [out EXCEPT ![t] = "Denied"]
    /\ UNCHANGED steer

\* The checks behind every item, which left the turn in phase ph: a settled
\* batch lets a steered prompt in, unless a worker's result is straggling;
\* then comes the denial.
AfterItem(t, ph, straggling) ==
    LET boundary == ph = "Between" /\ ~straggling /\ steer = "armed"
    IN  /\ phase' = [phase EXCEPT ![t] = ph]
        /\ reply' = [reply EXCEPT ![t] = Streamed(@)]
        /\ \/ boundary /\ ClaimCut(t)
           \/ ~boundary /\ TakeDenial(t)
           \/ ~boundary /\ ~denyCut /\ UNCHANGED <<pc, out, steer, denyCut>>

\* An item that starts an action: text or reasoning, or a tool call.  Behind a
\* completed action it is the boundary where a steered prompt cuts in.
StartAction(t, ph) ==
    /\ StreamStep(t)
    /\ phase[t] # "Tools" /\ ph \in {"Segment", "Tools"}
    /\ IF phase[t] \in {"Segment", "Between"} /\ steer = "armed"
       THEN ClaimCut(t) /\ UNCHANGED <<phase, reply>>
       ELSE AfterItem(t, ph, FALSE)
    /\ UNCHANGED <<loopVars, handleVars, queueVars, retryVars, cancelDeadline, askVars, done,
                   born, fails, cancelled>>

\* A result of the running batch arrives: the last one settles it.
ToolResult(t, ph) ==
    /\ StreamStep(t)
    /\ phase[t] = "Tools" /\ ph \in {"Tools", "Between"}
    /\ \E straggling \in BOOLEAN : AfterItem(t, ph, straggling)
    /\ UNCHANGED <<loopVars, handleVars, queueVars, retryVars, cancelDeadline, askVars, done,
                   born, fails, cancelled>>

\* A rule denies a running call.
RuleDenies(t) ==
    /\ StreamStep(t) /\ "Deny" \in Endings
    /\ phase[t] = "Tools" /\ ~denyCut
    /\ denyCut' = TRUE
    /\ UNCHANGED <<loopVars, handleVars, queueVars, retryVars, cancelDeadline, askVars, steer,
                   done, born, pc, runVars>>

\* A running call asks the user and waits.
AskUser(t) ==
    /\ StreamStep(t) /\ "Answer" \in Commands
    /\ phase[t] = "Tools"
    /\ pc' = [pc EXCEPT ![t] = "ask"]
    /\ askq' = askq \cup {t}
    /\ UNCHANGED <<loopVars, handleVars, queueVars, retryVars, cancelDeadline, asks, steer,
                   denyCut, done, born, runVars>>

\* The item that ends the stream sets `finishing` with what will be reported.
Ends(t, kind) ==
    /\ StreamStep(t)
    /\ pc' = [pc EXCEPT ![t] = "finish"]
    /\ out' = [out EXCEPT ![t] = kind]
    /\ UNCHANGED <<loopVars, handleVars, queueVars, retryVars, cancelDeadline, askVars, steer,
                   denyCut, done, born, phase, cancelled>>

\* StreamItem::Done: the reply is complete.
ReplyDone(t) ==
    /\ phase[t] # "Tools"
    /\ reply' = [reply EXCEPT ![t] = Streamed(@)]
    /\ UNCHANGED fails
    /\ Ends(t, "Finished")

\* StreamItem::Cancelled: the run reached a hook boundary after its cancel.
StopAtBoundary(t) == cancelled[t] /\ Ends(t, "Cancelled") /\ UNCHANGED <<fails, reply>>

\* StreamItem::Error and StreamItem::Overflow.
ProviderFails(t) ==
    /\ fails < MaxFailures /\ fails' = fails + 1
    /\ \/ "Error" \in Endings /\ Ends(t, "Failed")
       \/ "Overflow" \in Endings /\ Ends(t, "Overflowed")
    /\ UNCHANGED reply

\* The commit, the error or overflow persist with its compaction, or
\* persist_interrupted_turn of a cut: the run's own write of its reply.
Persist(t) ==
    /\ Scheduled /\ pc[t] \in {"cut", "finish"}
    /\ pc' = [pc EXCEPT ![t] = "report"]
    /\ reply' = [reply EXCEPT ![t] = Saved(@)]
    /\ UNCHANGED <<loopVars, handleVars, queueVars, retryVars, cancelDeadline, askVars, steer,
                   denyCut, done, born, fails, phase, out, cancelled>>

\* stream_done_tx.send, the task's last act.  A failure tells whether the
\* attempt progressed, an overflow whether compaction spliced anything.  The
\* task's own state goes with it.
Report(t) ==
    /\ Scheduled /\ pc[t] = "report" /\ done = <<>>
    /\ \E compacted \in BOOLEAN :
        done' = <<[run |-> t, kind |-> out[t],
                   flag |-> IF out[t] = "Overflowed" THEN compacted ELSE reply[t] # "empty"]>>
    /\ pc' = [pc EXCEPT ![t] = "over"]
    /\ phase' = [phase EXCEPT ![t] = "Fresh"]
    /\ out' = [out EXCEPT ![t] = "none"]
    /\ cancelled' = [cancelled EXCEPT ![t] = FALSE]
    /\ UNCHANGED <<loopVars, handleVars, queueVars, retryVars, cancelDeadline, askVars, steer,
                   denyCut, born, fails, reply>>

(***************************************************************************)
(* The specification                                                       *)
(***************************************************************************)
Command ==
    \/ SendMessage \/ CancelFlow \/ CancelCut \/ CancelRetry \/ RecallSteered
    \/ ForkCut \/ ForkSession \/ NewSession \/ LoadSession \/ DeleteSession \/ DeleteBranch
    \/ Replay \/ Quit
    \/ \E t \in Runs : Answer(t)

LoopStep ==
    \/ AbortCut \/ Close \/ HandleOutcome \/ RetryFires \/ GraceFires
    \/ \E t \in Runs : ReceiveAsk(t)

\* What the provider and the tools do to a run.
Stream(t) ==
    \/ \E ph \in Phases : StartAction(t, ph) \/ ToolResult(t, ph)
    \/ RuleDenies(t) \/ AskUser(t) \/ ReplyDone(t) \/ StopAtBoundary(t) \/ ProviderFails(t)

\* The run's own terminal sequence.
Terminal(t) == Persist(t) \/ Report(t)

Next == Command \/ LoopStep \/ \E t \in Runs : Stream(t) \/ Terminal(t)

Spec == Init /\ [][Next]_vars

\* The select! takes every ready branch some time, an abort in progress ends,
\* and a run's own writes and its report complete.  Nothing is asked of the
\* provider, of a tool or of the user.
LoopFairness ==
    /\ WF_vars(AbortCut) /\ WF_vars(HandleOutcome)
    /\ WF_vars(RetryFires) /\ WF_vars(GraceFires) /\ WF_vars(Close)
    /\ \A t \in Runs : WF_vars(Terminal(t))

\* A provider that answers, tools that return and a user who answers their
\* asks; a batch asks a bounded number of times, hence the strong fairness.
\* Nothing says that the agent's loop of batches ever ends.
ServiceFairness ==
    \A t \in Runs : /\ SF_vars(ReplyDone(t) \/ \E ph \in Phases : ToolResult(t, ph))
                    /\ WF_vars(ReceiveAsk(t)) /\ WF_vars(Answer(t))

FairSpec   == Spec /\ LoopFairness
ServedSpec == FairSpec /\ ServiceFairness

Queued(p) == \E i \in DOMAIN steered : steered[i] = p

(***************************************************************************)
(* Properties                                                              *)
(***************************************************************************)
\* Every variable has its type, in the groups the proofs take them in.
FlagsTypeOK ==
    /\ loop \in {"select", "cut", "closing", "ended"}
    /\ cutFor \in {"none", "cancel", "grace", "fork", "quit"}
    /\ steer \in SteerStates
    /\ pendingRetry \in BOOLEAN /\ cancelDeadline \in BOOLEAN /\ denyCut \in BOOLEAN
    /\ asks \subseteq Runs /\ askq \subseteq Runs

CountersTypeOK ==
    /\ active \in 0..MaxRuns /\ flow \in 0..MaxRuns /\ born \in 0..MaxRuns
    /\ sent \in 0..MaxPrompts /\ latest \in 0..MaxPrompts
    /\ turnRetries \in 0..MaxTurnRetries /\ overflowRetries \in 0..MaxOverflowRetries
    /\ fails \in 0..MaxFailures

ChannelsTypeOK ==
    /\ steered \in Seq(Prompts)
    /\ done = <<>> \/ \E o \in Outcomes : done = <<o>>

RunsTypeOK ==
    /\ pc \in [Runs -> RunStates] /\ phase \in [Runs -> Phases]
    /\ out \in [Runs -> Decisions] /\ cancelled \in [Runs -> BOOLEAN]
    /\ reply \in [Runs -> ReplyStates]

TypeOK == FlagsTypeOK /\ CountersTypeOK /\ ChannelsTypeOK /\ RunsTypeOK

\* Only the run whose handle the loop holds is live: no request streams that a
\* cancel, a fork or the busy check cannot see.
OneStream == \A t \in Runs : Live(t) => t = active

\* A run is never aborted inside a terminal sequence, nor inside the cut it
\* claimed for a steered prompt.
TerminalNotTorn ==
    \A t \in Runs : pc[t] = "aborted" => out[t] \notin Finishing \cup {"Preempted"}

\* What a run streamed is written before the run is gone, whoever ended it.
ReplyNotLost == \A t \in Runs : pc[t] \in {"over", "aborted"} => reply[t] # "partial"

\* ... and written once: by the run's own terminal sequence or by the cut.
ReplySavedOnce == ReplyNotLost /\ \A t \in Runs : reply[t] # "twice"

\* FINALIZING is always some run's cut on its way to the loop: the guard it
\* puts on CancelStream cannot stick.
FinalizingOwned ==
    steer = "finalizing" /\ loop # "ended" =>
        \/ done # <<>> /\ done[1].kind = "Preempted"
        \/ \E t \in Runs : out[t] = "Preempted" /\ pc[t] \in {"cut", "report"}

\* The grace of a cancel runs against a cancelled run only.
GraceTargetsCancelled == cancelDeadline /\ Streaming => cancelled[active]

\* A stream that may still reach an action boundary knows of the prompts queued
\* behind it.
QueueArmed ==
    steered # <<>> /\ Streaming /\ pc[active] \in {"stream", "ask"} => steer = "armed"

\* No queued prompt is older than the turn the agent was last given.
NoOvertaking == \A i \in DOMAIN steered : steered[i] > latest

\* When the loop is gone no stream is dropped with its partial unsaved.
QuitSaves == loop = "ended" => \A t \in Runs : pc[t] \notin {"stream", "ask"}

\* A cancelled run ends, whatever the provider or its tools do.
CancelledEnds == \A t \in Runs : cancelled[t] ~> ~Live(t) \/ loop = "ended"

\* A steered prompt leaves the queue, in whatever state it finds the agent.
SteeredLeaves ==
    \A p \in Prompts : Queued(p) ~> ~Queued(p) \/ loop = "ended"
(***************************************************************************)
(* The inductive invariant behind OneStream, TerminalNotTorn,              *)
(* ReplySavedOnce and QuitSaves, with both windows shut.                   *)
(***************************************************************************)
NoneLive == \A t \in Runs : ~Live(t)

\* Nothing lives while an outcome waits or a retry is scheduled, so whoever
\* spawns the next run replaces a spent handle.
SoleRun ==
    /\ OneStream
    /\ done # <<>> => NoneLive /\ ~pendingRetry
    /\ pendingRetry => NoneLive
    /\ loop = "cut" => Streaming

\* What a run has decided follows from where it is.
Decided ==
    \A t \in Runs :
        /\ t > born => pc[t] = "unborn"
        /\ pc[t] \in {"unborn", "stream", "ask"} => out[t] = "none"
        /\ pc[t] = "cut" => out[t] \in {"Preempted", "Denied"}
        /\ pc[t] = "finish" => out[t] \in Finishing
        /\ pc[t] = "report" => out[t] # "none"

\* A run that claimed its cut is under the FINALIZING guard until it is over.
CutsKnown ==
    /\ \A t \in Runs : Live(t) /\ out[t] = "Preempted" => steer = "finalizing"
    /\ loop = "cut" => ~CutGuarded
    /\ TerminalNotTorn

\* A reply is unwritten up to the terminal sequence and written once after it.
RepliesSettled ==
    \A t \in Runs :
        /\ pc[t] \in {"unborn", "stream", "ask", "cut", "finish"} => reply[t] \in {"empty", "partial"}
        /\ pc[t] \in {"report", "over", "aborted"} => reply[t] \in {"empty", "saved"}

NoDenial == ~denyCut /\ \A t \in Runs : out[t] # "Denied"

\* The shutdown leaves no run that is still streaming.
Closed == loop \in {"closing", "ended"} => \A t \in Runs : pc[t] \notin {"stream", "ask"}

(***************************************************************************)
(* The inductive invariants behind NoOvertaking and QueueArmed, where      *)
(* nothing fails.                                                          *)
(***************************************************************************)
Failures == {"Failed", "Overflowed"}

NothingFails ==
    /\ ~pendingRetry
    /\ \A t \in Runs : out[t] \notin Failures
    /\ done # <<>> => done[1].kind \notin Failures

\* A queued prompt waits behind a run or behind the outcome of one, so that no
\* prompt starts a turn past it.
QueueAwaits ==
    /\ steered # <<>> /\ loop \in {"select", "cut"} => Streaming \/ done # <<>>
    /\ loop = "cut" => cutFor # "none"

\* The queue holds prompts newer than the turn last given, oldest first.
QueueOrdered ==
    /\ latest <= sent
    /\ \A i \in DOMAIN steered : latest < steered[i] /\ steered[i] <= sent
    /\ \A i, j \in DOMAIN steered : i < j => steered[i] < steered[j]

\* Nobody cancels, so a queue that waits has armed the signal.
QueueSignals ==
    /\ ~cancelDeadline /\ cutFor \notin {"cancel", "grace"}
    /\ steered # <<>> /\ loop \in {"select", "cut"} => steer \in {"armed", "finalizing"}

=============================================================================
