# A TLA+ model of shuvarie

shuvarie is a terminal coding agent: a Rust TUI around an agent loop that
streams replies from a language model, runs the tools it calls, and keeps every
conversation as a tree of messages in a database shared by all its processes.
This directory holds TLA+ modules for the parts of it whose correctness is a
matter of order and concurrency, the TLC configurations that check them on small
instances, and TLAPS proofs of the properties that matter most for instances of
any size.  Paths below are relative to the repository; `core_task.rs` is
`crates/core/src/core_task.rs`.

## The system

| Component | State | Operations | What is hard | Module |
|---|---|---|---|---|
| Turn loop (`core_task.rs`, `run`) | the running stream's handle, its flow control, the queue of steered prompts, retry and overflow budgets, the cancel grace, pending asks | some fifty commands, stream outcomes, two timers, asks, heartbeat; one `select!` branch at a time | a `select!` takes any ready branch; handlers await in the middle; they act on "the current run", which may not be the one an event is about | `TurnLoop` |
| Stream task (`stream_stream_to_events`) | `TurnState` (the partial reply, `finishing`), `ActionPhase` | one step per stream item, checks behind each item, a terminal sequence, a report | runs on another worker thread; can be aborted at any await | `TurnLoop`, `ToolBatch` |
| Steer signal (`core_task/steer.rs`) | one atomic byte: idle, armed, finalizing | arm, disarm, reset, begin_preempt | shared by the two above without a lock | `TurnLoop` |
| Session tree (`session.rs`, `store.rs`, `compaction.rs`) | messages with parents, the active leaf, the in-memory path | append, fork, delete a branch, compact, replay, resume, reload | several writes per operation, each of which may fail; a copy in memory | `SessionTree` |
| Context budget (`context_hook.rs`, `compaction.rs`, `session.rs`) | the measured cost of the last request, the usage restored from rows, the overflow budget | decide, trim, stop, plan and splice a summary, resume | the number a request is judged by is older than the request | `Compaction` |
| Session store and locks (`store.rs`, `dir_map.rs`) | session rows, lock rows with a heartbeat, the directory map of claims | open and purge, create, load, touch, release, delete | several processes interleave at single SQL statements and file writes; crashes | `SessionStore` |
| Tool batches (`core_task.rs` `ToolGate`, `tool.rs`, `provider.rs`) | the calls of a batch, the merged stream, slots and queue, open calls | dispatch, worker agents, return, record | results out of order, calls inside calls, a cancel or a steer in the middle | `ToolBatch` |
| Permission gate and asks (`permissions.rs`, `question.rs`) | deny cut, pending responders, the popup, session grants | ask, answer, dismiss, deny | a tool blocks on an answer that a cancel or an abort may take away | `ToolBatch`, `TurnLoop` |
| Session screen (`session.rs`, `chat.rs`, `virtualizer.rs` under `src/tui`) | turns, the reply in flight, busy row, queued prompts | one reducer step per core event | never reads the session; everything must arrive by events, in step with the store | `Conversation` |
| Tabs and render loop (`src/tui/app.rs`, `tabs.rs`, `src/tui.rs`, `spawn.rs`) | the strip, working slots, parked screens, channels and cores per tab | open, close, switch, stage, fan out, spawn and stop cores | events of a background tab go through the active tab's slots; bounded channels both ways | `Tabs` |
| LSP manager (`crates/lsp`, the pump in `core_task.rs`) | servers per language behind a mutex, documents, diagnostics | ensure, change, analyze, start/stop/restart, pump, shut down | processes that crash or never answer; calls dropped with their run; the run loop takes the same mutex | `LspServers` |
| LLM client (`crates/llm`) | a stream of items, a cancel flag | start, cancel, map provider events | I/O | inputs of `TurnLoop`, `ToolBatch` |
| Decisions, scenes, skills, attachments, configuration, documents, highlighting, code mode, MCP manager, pickers and forms | see `PROJECT.json` | | I/O, parsing, formatting, layout | none |

The TUI sends commands to the run loop over a channel and reads events back; the
run loop spawns one stream task per request and holds its abort handle; a stream
task shares the steer signal, the deny cut and its `TurnState` with the loop, and
its last act is to send its outcome over a channel of capacity one.  Tools run
inside the stream task's own stream and reach the user through ask channels that
end in the run loop.

### What each component must keep

* Turn loop and stream tasks: one live request at a time, always the one a cancel
  can reach; no abort inside a terminal sequence; every partial reply written
  exactly once by whoever ends its run; prompts dispatched in the order they
  were queued, none left behind; a cancel that always ends the run; a shutdown
  that loses nothing.
* Session store and locks: one writer per session while its heartbeat comes
  through; a session in use is never purged; a created session stays claimed.
* Session tree: the parents form a forest of stored messages and the leaf is one
  of them whatever write fails; memory and store agree when no operation runs; a
  reply stays on its prompt's branch; nothing leaves the path unless the user
  rewinds; what a summary folds in is accounted for.
* Context budget: a request accounts for the whole conversation; a run is stopped
  by a number that measures it; a turn keeps its one reply and comes to an end.
* Tool batches: what the screen says of a call is true; each call it showed is
  recorded, twice only where an abort tears a handler; a steered prompt kills no
  call; an ask is settled.
* Session screen: once it has read its events it shows what a reload would show,
  is busy exactly when the core is, and lists the core's queue.
* Tabs: each screen is told all its own core said and nothing else; a command
  reaches the core it was typed for; a picked model reaches every core; closing
  a tab ends.
* LSP: no server process outside the manager's map; a server has the content of
  the files it was opened; what it finds is reported; the run loop is never stuck
  on the manager.

`PROJECT.json` lists the hazards at their lines, with the property that covers
each or the reason none does yet.

## Plan

1. `TurnLoop` (done): the turn lifecycle, checked, and its safety proved.
2. `SessionStore` and `SessionLease` (done): rows, claims and locks of several
   clients, with purge, crash and takeover, and the lease they implement; safety
   and refinement proved under timely heartbeats.
3. `SessionTree` (done): messages, leaf, fork, branch delete, compaction splice
   with failing writes, against the copy in memory; every safety property of the
   runs proved, up to named windows and faults.
4. `ToolBatch` (done): slots and queues, worker agents, recording, asks; its
   safety proved without hypotheses.
5. `Tabs` and `LspServers` (done): the process around the turn loop; their safety
   proved.
6. `Conversation` (done): the screen against the store.  It repeats the turn
   loop's states at the grain the screen sees, one step per handler (two for a
   compaction in a run).  Its three
   invariants proved, each without the situations that break it.
7. `Compaction` (done): sizes, usage and summaries along one path; its three
   invariants proved, two of them without the situations that break them.
8. To model next: an abstract turn queue that `TurnLoop` implements; worker
   sessions and their rows; the order of writes inside one terminal sequence with
   the run loop beside it (`TurnLoop` and `SessionTree` each have a half of it).

## TurnLoop

### State

| Variable | Code |
|---|---|
| `loop`, `cutFor` | where the run loop is: at its `select!`, between the guards and the abort of `cut_running_stream` (and for which handler), in the shutdown's bounded wait, ended |
| `active`, `flow` | `ctx.active_stream`, `ctx.flow`: the run whose handle, whose flow control is held |
| `steered`, `sent`, `latest` | the queue; prompts are numbered as they are submitted; the newest given a turn |
| `pendingRetry`, `turnRetries`, `overflowRetries`, `cancelDeadline` | the locals of `run` of the same names |
| `asks`, `askq` | pending responders by the run that waits on them; asks on their way to the loop |
| `steer`, `denyCut` | `SteerSignal`, `DenyCut` |
| `done` | the channel `stream_done` |
| `pc`, `phase`, `out`, `cancelled`, `reply` | per run: where its task is, its `ActionPhase`, the outcome it decided on (with `finishing`), whether its flow was cancelled, what became of its reply |

A run is one request: a prompt's first, or the one that resumes it after a
failure or a compaction.  Session identity, message contents, models, usage and
attachments are abstracted away; `Thinking` and `Text` are one phase, since they
differ only in what they display and in which item starts a new action (either
one can).

### Actions

One action per command that changes this state, one per other `select!` branch,
one per kind of stream item, and two for a run's end:

* commands: `SendMessage`, `CancelFlow`/`CancelCut`/`CancelRetry` (the three ways
  through `CancelStream`), `RecallSteered`, `ForkCut`/`ForkSession`, `NewSession`,
  `LoadSession`, `DeleteSession`, `DeleteBranch`, `Replay`, `Answer`, `Quit`;
* other branches: `HandleOutcome` (with `HandleEnd`, `HandleOverflow`,
  `HandleFailure`), `RetryFires`, `GraceFires`, `ReceiveAsk`, `Close`, and
  `AbortCut`, the second half of any handler that cuts a run;
* items: `StartAction`, `ToolResult`, `RuleDenies`, `AskUser`, `ReplyDone`,
  `StopAtBoundary`, `ProviderFails`; then `Persist` and `Report`.

A handler is one step, because the loop takes one branch at a time and stream
tasks read only the signal, the deny cut, the flow flag and the abort; the
handlers that cut a run are two steps, since the run may act between the guards
and the abort.  `Report` merges the send of the outcome with the end of the
task: between the two the handle still counts as live although nothing of the
run is left to do.  `ReplyDone` covers the drain of stragglers behind `Done`:
none of them starts a main action, so no check behind them can fire.

`Windows` opens the scheduling windows that need two worker threads:
`"outcome"` (a command is taken while an outcome waits), `"abort"` (a run acts
between the guards and the abort) and `"signal"` (a run claims its cut between
the load and the store of `arm` or `disarm`).  The code has all three.  The
properties that survive them are checked with all open; those that do not are
checked and proved with them shut, and a run of its own shows how each window
breaks one.

### Runs

Bounds: `MaxPrompts` submissions (a replay counts), `MaxFailures` failed or
overflowed runs, retry budgets of one where the code has `max-retries` and
three.  Two prompts are a running turn and one queued behind it; a third (or a
fourth) puts two in the queue, which is what order and re-arming need; two
failures are a retry chain that is used up.  `Commands`, `Endings` and `Faults`
choose what the environment does; leaving some out is how a passing run stays
clear of a disagreement a witness shows.

| Run | Question | Result |
|---|---|---|
| `turn_safety` | `OneStream`, `TerminalNotTorn`, `ReplySavedOnce`, `QuitSaves` and, under the loop's fairness alone, `CancelledEnds`: every command, two failures, both faults, windows shut | hold |
| `turn_windows` | `ReplyNotLost` with every window and ending open | holds |
| `turn_queue` | `NoOvertaking`, `QueueArmed`; `SteeredLeaves` with a provider that answers, no failures, no hard cuts | hold |

Five more configurations are kept as witnesses: they are not part of the list of
runs, and TLC finds the property violated in each.

| Witness | Shows |
|---|---|
| `turn_stale_outcome.cfg` | `OneStream` with `"outcome"` open: the outcome of a run drops the handle of the next |
| `turn_deny_cut.cfg` | `ReplySavedOnce` with denials: a denial cut is under no guard, the grace aborts it and writes again |
| `turn_stale_grace.cfg` | `GraceTargetsCancelled` with forks: a hard cut leaves the grace running against the next run |
| `turn_overtaken.cfg` | `NoOvertaking` with failures: a turn that fails for good leaves its queue behind |
| `turn_torn_signal.cfg` | `TerminalNotTorn` with `"signal"` open: `arm` overwrites `FINALIZING` |

`QueueArmed` is checked without hard cuts: a hard cut dispatches the front of the
queue and leaves the rest waiting behind an unarmed stream
(`core_task.rs:1025`), which is a slower queue and not a lost prompt.  Deadlock
is not checked: a session with nothing left to submit, and a loop that ended,
stop.

### Fairness

`LoopFairness`: a `select!` polls every branch, so an outcome, an elapsed timer
or a shutdown wait is handled some time; an abort in progress completes; a run's
own writes and its report complete.  Nothing is asked of the provider, the tools
or the user, and `CancelledEnds` holds under it: the grace bounds them.
`ServiceFairness` is added for `SteeredLeaves` only: a provider that answers,
tools that return, a user who answers asks.  It does not say that an agent's
series of tool batches ends; a prompt gets in at a boundary.

### Proofs

`TurnLoop_proofs` proves `TypeCorrect`, the type invariant, with every constant
arbitrary.  It needs no strengthening: counters are bounded by the guards.  Then it
proves the safety properties; none is inductive alone.

* `OneStream` needs `SoleRun`: a new request replaces the held handle without
  looking, so it must be known that nothing lives whenever one is spawned, that
  is, while an outcome waits, while a retry is scheduled, and where the busy
  check found no live handle.
* `TerminalNotTorn` needs to know, when the abort comes, that the guards still
  hold (`CutsKnown`), which takes two facts: what a run has decided follows from
  where it is (`Decided`), and a run that claimed its cut is under FINALIZING
  until its report is read (`CutsKnown`, `FinalizingOwned`).
* `QuitSaves` needs `Closed`, the same for the shutdown.
* `SafetyInv == TypeOK /\ SoleRun /\ CutInv` is inductive under `Windows = {}`;
  `OneStreamSafe`, `TerminalNotTornSafe`, `FinalizingOwnedSafe` and
  `QuitSavesSafe` follow from it.
* `ReplyNotLostSafe` assumes nothing about windows, endings or faults: a run's
  own last step and the loop's abort both write what they end.
* `ReplySavedOnceSafe` assumes `Windows = {}` and that nobody denies a call
  (`"Deny" \notin Endings`), the case `turn_deny_cut` shows to break it; it adds
  `RepliesSettled` and `NoDenial`.

* `NoOvertakingSafe` and `QueueArmedSafe` are about the queue of steered prompts.
  `QueueInv` adds to `SafetyInv` that a queue waits only behind a live run or the
  outcome of one (`QueueAwaits`: so the busy check can never let a new prompt past
  it) and that it is newer than the turn last given and in order (`QueueOrdered`);
  `QueueSignals` adds that the signal is armed while it waits.  Their hypotheses
  are the situations of `turn_queue`, and each is needed: a retry whose budget is
  used up and a turn that fails to start leave their queue behind
  (`turn_overtaken`), hence no failing ending (`Endings \subseteq {"Deny"}`) and
  no `"start"` fault; the hard cut of a cancel's grace leaves the queue behind an
  unarmed stream, hence no `"Cancel"` for `QueueArmed`; the windows are shut for
  `SafetyInv`.

All theorems hold for any number of prompts, failures and retries.
Liveness (`CancelledEnds`, `SteeredLeaves`) is out of the prover's reach.

## SessionStore and SessionLease

Every shuvarie process (and every tab of one) has a core task with its own
`Store`.  They share the sessions of all workspaces: rows in `data.db`, the
claims of `session-dir.kdl`, and one lock row per session somebody is in, kept
alive by a heartbeat.  `SessionStore` models any number of clients over any
number of sessions, one SQL statement or map rewrite per step.

### State

| Variable | Code |
|---|---|
| `rows` | the main sessions in the `sessions` table |
| `claims` | the session ids in the map file, whichever directory claims them |
| `lock`, `age` | `session_locks`: the holder's client id, and how long ago its `beat` is |
| `session`, `locked_session` | `CoreCtx` (the session a client is in, the one it believes it has locked) |
| `pc`, `via`, `target`, `late` | a handler between two awaits: what comes next, why it acquires a lock, the session it is about, how long ago it read `now_ms()` |
| `spared`, `orphans`, `existing` | the snapshots `purge_orphans` works with |

Time is kept as ages, so the clock never wraps and the state is finite: a beat
is live for a handler that read `now` `n` ticks ago if `age <= n + TTL`, which is
the code's `beat >= cutoff`.  `Gone` is a client id that nobody has any more: a
process that is killed leaves its lock, and the next one has a new id.

### Actions

| Code | Actions |
|---|---|
| `open_global_in`, `purge_orphans` | `OpenGlobal`, `ReadLocks`, `ReadRows`, `PurgeSessionRows`, `PruneMissing` |
| `load_startup_session` | `StartFresh`, `StartIn` |
| `acquire_session_lock` | `ReadLockRow`, then `TouchSessionLock`, `InsertLockRow` or `TakeoverSessionLock`; how it ends depends on the caller (`Acquired`, `Refused`) |
| the first prompt of a session | `InsertSession`, `ClaimSession`, and the acquisition |
| `LoadSession` | `LoadSession`, the acquisition, `SwapLock`, `FetchSession` |
| `DeleteSession` | `DeleteSession` (the check), `DeleteRow`, `DeleteLock`, `Unclaim` |
| `NewSession`, the heartbeat, the end of `run` | `NewSession`, `LockBeat`, `Quit` |
| a kill at any point, the clock | `Crash`, `Tick` |

### What is assumed, and the windows

The lease rests on time.  The heartbeat comes every 10 s and the TTL is 30 s
(`store.rs:22`), so `Tick` lets a beat of a client outside `Stalls` never grow
older than the TTL, and no handler use a `now` older than that; a client in
`Stalls` (a suspended laptop, a blocked disk) may be late at will.  The
properties about lock holders are about the timely clients; the stalling ones
are there to take over, and to be taken over from.

Four sequences of statements have no protection in the code but that they are
short.  `Windows` names the ones others may step into:

| Window | Between | Broken when it is open |
|---|---|---|
| `"create"` | the insert of a session and its lock | `InUseSurvives`, `OneWriter` |
| `"delete"` | the check for another's lock and the last deletion | `Exclusive`, `InUseSurvives`, `OneWriter` |
| `"purge"` | the load of the map at launch and its pruning | `Exclusive`, `InUseSurvives`, `OneWriter` |
| `"gone"` | a session is listed or loaded, and is locked | `Exclusive`, `InUseSurvives`, `OneWriter` |

So what the code promises depends on each of them, and the runs say which
promise needs which: `LeaseHonoured` and `StaleFrees` hold with all four open,
the rest are checked and proved with all four shut, and `session_purge.cfg` is a
witness of the one a comment of the code rules out (a launch purges a session
that was created and locked after its snapshots).  A shut window restricts only steps of
other clients; the client in it may still be killed there.

### The abstract lease

`SessionLease` is what a caller of the lock functions counts on: each timely
client holds at most one session, enters one only when no other timely client
holds it, and leaves whenever it likes.  `LeaseSpec` maps `holds` to
`locked_session`, except that a client deleting its own session has given it up
once the lock row is gone.  Beats, ages, rows and handlers are stutters.

### Runs

| Run | Question | Result |
|---|---|---|
| `session_lease` | `Exclusive`, `InUseSurvives`, `OneWriter`, `ClaimsKept`, and `LeaseSpec`, the refinement; two timely clients, two sessions, TTL of one tick, windows shut | hold |
| `session_stall` | `LeaseHonoured`, `StaleFrees`; a timely and a stalling client, one session, TTL of two ticks, every window open | hold |

Two clients are enough for every conflict (a conflict has one holder and one
intruder), two sessions for a swap and for a deletion beside a session in use;
with one tick of TTL a beat is fresh, at its limit, or stale for a fresh `now`
and live for an old one, and with two a takeover can race a renewal.  The proofs
remove the bounds.  Deadlock is not checked: the user may stop.

`FairSpec`: a handler that runs goes on (weak fairness of `Continue`), a ticking
interval is served although commands come too (strong fairness of `LockBeat`),
and time passes.  `StaleFrees` needs only the last: nobody has to launch.

### Proofs

`SessionStore_proofs` proves for all constants allowed by
`SessionStoreAssumption`:

* `TypeCorrect`, with every window open and any client stalling: besides the
  types that no `now` is used later than the TTL.
* `ExclusiveSafe`, `InUseSurvivesSafe`, `OneWriterSafe`, `ClaimsKeptSafe` and
  `LeaseImplemented`, under `Windows = {}`, from one inductive invariant
  (`LeaseInvariant`).  Its parts: `Shape`, which locals a place of a handler
  has; `Stored`, what the store still holds of the session a handler is about
  (one that is being entered is a row, which is what shutting `"gone"` buys);
  `Calm`, that nobody is entering a session that is being deleted, or any while
  there is a purge; `Spares`, that nothing about to be deleted is locked by a
  timely client; `Kept`, that a purge's snapshots still cover the claims; and
  `Hold`, that whatever lease a timely client relies on, held or freshly taken,
  is its own row, within the TTL, over a stored session.  `Exclusive` alone
  is not inductive: between the acquisition and `SwapLock` a client relies on two
  leases, one of which `locked_session` does not show yet.
* `LeaseHonouredSafe`, with every window open: it follows from the code's own
  double check (the read, then the conditional update).

`StaleFrees` is a liveness property and stays with TLC.

## SessionTree

One session of the store with the copy of its active path the core holds, under
every operation that writes either.

| Variable | Code |
|---|---|
| `live`, `parent`, `role`, `next` | the `messages` table: rows, their parents, prompt, reply or summary, the next id |
| `leaf` | `sessions.leaf_id`; `EMPTY_LEAF` for a cleared path, `Unset` for NULL |
| `path`, `mleaf`, `known` | `Session.messages` (the row of each, 0 without one), `Session.leaf_id`, the last prompt of `Session.nodes` |
| `pc`, `why`, `row`, `cont`, `base`, `slot`, `turn` | the run: its place, how it ends, its reply's row, the row it continues, what its commit has read |
| `turnOf`, `says`, `covers` | history: the prompt a reply answers, whose words a prompt repeats, what a summary stands for |
| `faults`, `clean` | failures so far; none since memory was loaded |

A handler does several writes and each may fail alone; the parameter `how` of an
action names the one that does (`"insert"`, `"leaf"`, `"reparent"`, `"restore"`,
`"load"`, `"refresh"`, `"delete"`), and the action says what the code does then,
which is mostly to log it and go on.  Actions: `SendMessage`, `ToolStarts` (the
row of a reply is created at its first call), `BeginCommit`/`CommitReply`,
`Settle` (a run writes its own partial), `CutRun` and `CutInRow` (the loop aborts
it, in the second inside the creation of its row), `CompactSession`, `CompactRun`,
`NoCompaction`, `Exhausted`, `Resume`, `ForkSession`, `ForkSummarized`,
`DeleteBranch`, `DeleteFails`, `ReplayFork`, `Replay`, `CancelRetry`,
`LoadSession`.  `Tip`, `PathTo` and `Cuts` are how the store finds the path and
`select_plan` the tail that is kept; the token budget may put the cut anywhere
(the sizes are `Compaction`'s).

| Run | Question | Result |
|---|---|---|
| `session_tree` | `TreeSound`, `MemoryIsStore`, `ReplyUnderPrompt`, `PathOnlyGrows`: four rows, one failing insert, leaf update, reparent or load, an abort inside the creation of a row | hold |
| `tree_faults` | `NothingForgotten`: four rows, every failure but those of a branch delete, every window but the race and the astray tip | holds |

Four rows are a prompt, its reply, a second turn or a summary with a tail: enough
for a fork beside a turn, a summary of a summary, and a branch below a branch,
with one message of tail.  One failure is enough to bring the two copies apart,
and `clean` falls with it; the proofs below remove the bounds on both.

`NothingForgotten` has a second half, that the row being written is under no
summary.  It is about a turn whose prompt has a row.  Without that condition the
code does not keep it, which a run with five rows shows: a replay whose prompt
could not be stored sends its request all the same (`core_task.rs`, `Replay`), the
run fails, its retry resumes the stored path, where the tip is the reply of the
turn before, and goes on in that row; a summary on another branch may stand for
it already.

What does not hold, by `Windows` and `Faults`: a fork while a run is in its
terminal sequence (`"race"`) breaks `ReplyUnderPrompt`, `MemoryIsStore` and
`NothingForgotten`; a compacted run whose overflow budget is used up (`"exhaust"`)
and a failure after reasoning alone (`"thought"`) break `MemoryIsStore`, for memory
is not loaded again or gets a message without a row; a failed row deletion or a
failed reload behind a branch delete breaks `TreeSound`, and `Session::from_stored` panics on a
parent that is gone.  Witnesses: `tree_replay.cfg` (`ReplayResends`: the prompt a
replay sends comes from the copy of the tree, which is only refreshed by a load,
not from the stored path it forks) and `tree_restore.cfg` (`PathOnlyGrows`: a
compaction whose last leaf update fails leaves the path at the summary, without
the kept tail).

### Proof

`SessionTree_proofs` has `TypeCorrect`, without hypotheses, and five theorems, for
any number of messages and failures and any `MinTail`.  All assume `Survivable`: no
fault `"refresh"` or `"delete"` and no window `"astray"` (a branch that holds the
tip in memory and not the stored leaf), the situations that cost the tree itself.

| Theorem | Assumes besides | Inductive invariant |
|---|---|---|
| `TreeSoundSafe` | nothing | `IInv == TableSound /\ Anchored` |
| `MemoryIsStoreSafe` | `Orderly`: no `"race"`, `"exhaust"`, `"thought"` | `MemInv` |
| `PathOnlyGrowsSafe` | `Orderly`, no fault `"restore"` | `MemInv`, for the step |
| `ReplyUnderPromptSafe` | no `"race"`, no fault `"restore"` | `AnswerInv` |
| `NothingForgottenSafe` | no `"race"` | `CoverInv` |

* `TreeSound` is strengthened by `Numbered` (ids are handed out in order, so a new
  row is in nobody's chain) and `Anchored` (what a commit has read is still a row
  when it uses it, since rows only go while no run is there).  Three lemmas about
  any sound table carry it: an insert, a summary spliced between a row and its
  parent, and a subtree taken out keep every parent stored and every set of rows
  with one that hangs from none of them, which is acyclicity without recursion.
* Of a sound table every path is a `Chain`: it starts at a root, each message hangs
  from the one before, it ends where it should, and there is only one such
  sequence.  `PathTo` is a recursive function; what it computes is proved by the
  least step at which it would go wrong, since the library's induction theorems
  cannot be instantiated.  From then on only `Routes` (the path to each row) is
  used, with one lemma per write: an insert adds a path and changes none, a splice
  puts the new row into the paths through the row below, a deletion leaves the
  others alone.
* `MemInv` says what memory is at each place of a run, not only between turns:
  in step, ahead of the store by the reply being committed, or short of the row
  that was made at the first tool call (`Writing`, `Committing`); and that a run
  has a prompt on the path, or its resume would not reload.
* `PathOnlyGrows` is an action property: with `MemInv` the run writes at the tip,
  and a compaction's splice keeps every path's messages; that their order stays
  follows from there being one path to each message (`OrderKept`).
* `AnswerInv` follows the run's prompt: it is on the stored path and on the path to
  wherever the next row will hang from, at every place of the run, in step or not.
* `CoverInv` says of every summary, on whatever branch, that it stands for all
  prompts and replies above it (`Covering`), that what summaries stand for is older
  than they are (`Bounded`), and that the leaf of a run that is under way is in none
  (`Aside`).  A compaction starts at the newest summary, so it is that summary's
  `Covering` that makes the next one's.

The other hypotheses are the situations named above, each with what it breaks;
`"restore"` breaks `ReplyUnderPrompt` as it does `PathOnlyGrows`: a run that
overflowed is resumed behind the summary, where the prompt before its own is the
last.  `ReplayResends` is not a theorem: the code does not keep it.

## ToolBatch

One batch of calls of an assistant message, with the worker agents among them,
from the request that asks for it to the end of the run.

| Variable | Code |
|---|---|
| `stage`, `phase` | rig: the request, and each call (`unsaid`, `said`, `runs`, `asks`, `freed`, `refused`, `back`) |
| `pipes` | the parts of the merged stream: the provider's own items, early results, worker activity |
| `cancel`, `armed`, `deny` | `FlowControl.cancel`, the steer signal, `DenyCut` |
| `core`, `hand` | where the stream loop is: polling, inside the handler of an item (`started`, `written`, `settled`, with the call it is about), behind it (`check`), or writing the rows of a denial's cut (`cut`) |
| `gate`, `open`, `rows`, `action`, `done`, `end` | `ToolGate`, `pending_tools`, the rows recorded (with a result, and as killed), `ActionPhase`, the final item, how the run ended |
| `asks`, `pending`, `popup`, `shown` | the permission channel, `pending_permissions`, the popup, what the screen says of each call |

Actions: rig's `Request`, `Halt`, `Dispatch`, `Ask`, `Return`, `WorkerTurn`,
`WorkerFails`; the stream loop's `Take` (one item of any pipe), the rest of its
handler (`Settle`, `Tell`), `Check` (what is looked at behind it), the cut for a
denial (`Cut`, `CutEnd`) and `Commit`; the run loop's `HearAsk`, `Answer`, `Cancel`,
`Steer` and `Abort`.  Calls run inside the poll of the merged stream, so none moves
between a `Take` and its `Check`.  The run loop does move there: the handlers are cut
up at the awaits where an abort makes a difference.  A call joins `pending_tools`,
and then the screen hears of it; a result's row is written (`Finished`), then the
call leaves `pending_tools` and its gate (`Settle`), then the screen hears of it
(`Tell`); the cut for a denial writes one row after the other.

| Run | Question | Result |
|---|---|---|
| `tools` | `ShownTrue`, `RecordedOnce`, `SteerKillsNothing`, and `AskSettles` under `FairSpec`: three tools and a worker with a call of its own over two slots, one call that asks, one (the worker's) that is denied, a steer, a cancel and an abort at any await | hold |

A tool, a worker with a call of its own and two more tools over two slots: calls
wait and are promoted, and settle out of order, the worker's beside the manager's.
A worker's second call would be the same again one after the other, and has no room
beside the handlers' steps; the proofs are about any number.
`FairSpec` is weak fairness of the runtime (`Rig`, `Stream`, `HearAsk`) and of a
user who answers; nothing is asked of tools that ask nothing.

Kept out of what holds: a worker's own batch is given as many slots on the screen
as the manager's although rig runs it one by one, so `ShownTrue` is about the
manager's; a worker's call that returned has no row, only its inner calls have.
`RecordedOnce` says what the row has when the run is over, an abort's damage
included: one record of each call that was heard of, and two only where the abort
came between a result's row and the lock behind it (the call is there with its
result and as killed) or inside the cut for a denial (killed by both cuts).  That
this does happen is the witness `tools_torn.cfg`: `OneRecord`, one record and no more,
fails on an abort behind `append_tool_call`.
Other witnesses: `tools_asks.cfg` (`AskSettles` with two calls that ask at once: the
popup holds one ask, the second overwrites the first, which is answered by nobody)
and `tools_denial.cfg` (`DenialShown`: the cut for a denial inside a worker comes
before the denied call's result is recorded).

### Proof

`ToolBatch_proofs` proves `TypeCorrect`, `RecordedOnceSafe`, `ShownTrueSafe` and
`SteerKillsNothingSafe` for any batch, any workers in it, any number of slots and
every act of the user, with no hypothesis but those on the constants (a call id
names one call, of the manager or of one worker).

* `Life` follows one call from its announcement to its row: what the merged stream
  has yet to say of it (`Due`, each item once), where rig has it (`phase`), whether
  the gate has it, what the screen shows or will show once it hears of the call in
  hand (`View`), and what the row has.  The five agree at every step, which is
  `CallInv`, `GateInv`, `RowsInv` and their like.  `RowsInv` holds inside the handlers
  too: while the run works a call has its result's row exactly from `written` on,
  and is killed only in a denial's cut.  `Abort` adds a killed row for whatever is in
  `pending_tools` there and then, which gives `RecordedOnce` with its two exceptions.
* `InSlots` adds the order: the manager's calls are shown in call order
  (`OrderInv`), a queue is there only when the slots are full, and what is queued
  is behind all that runs (`SlotsInv`); so the call that is shown running is one rig
  has started or starts next.
* `Boundaries` says why a steered prompt cuts into nothing of the manager's: only
  the provider's own part of the stream starts such a call, nothing behind the
  batch starts one (`MainInOrder`), and between two actions none is open (`Between`).

The proof showed two things the first version of the model left open and the code
does: `ToolGate`'s running calls are a set, and a worker's call is dispatched only
while its worker runs.  `AskSettles` is liveness and
stays with TLC.

It starts with what it needs of queues as sequences: joining, taking the first,
leaving from any place, and naming nothing twice.

## Conversation

What the chat screen of a session shows, against what a reload of the session
would show.

| Variable | Code |
|---|---|
| `path`, `running`, `waiting`, `run`, `progressed`, `cancelled` | the stored path with the running turn's blocks; `pending_tools`, and those of them that wait for an answer; the run (live, compacting, or the outcome it left) |
| `queue`, `retry`, `budget` | `steered`, `pending_retry`, `turn_retries` and `overflow_retries` |
| `asks`, `events` | the question and permission channels; the event channel |
| `screen` | the session screen: `turns`, `inflight`, `streaming`, `steered`, `busy` (`busy_kind` but `Idle`), `compacting` (the status line is a compaction's) |
| `popup` | the ask each of the two popups shows |

The core side is `CoreCtx` and the stream task at the grain of whole handlers, each
with the events it sends, its refusals and its errors; a compaction inside a run is
two steps (`Overflows`, `CompactionEnds`), since commands come in between.  `Show`
applies one event as the screen's reducers do (`Shown`, with one operator per event:
`ToolStarted`, `CommitInterrupted`, `RetryScheduled`, `CompactionSaid`, `ShowError`,
`Forked`, ..., and `PopupAfter`).  `HearAsk` takes an ask out of its channel,
whether its run is alive or not; `Answer` and `Escape` are the popups' keys, with the
words they leave in the status row; `StatusLine` is any other line there.  A fork is
`ForkPlain`, `ForkSummarized` (with the two events of a compaction before its reload)
or `ForkFails`.

Conversations are compared by `Grouped`: order between blocks of different kinds
and between prompts is kept; the order inside a run of calls, the boundary between
two assistant turns in a row, and the split of text into thinking and answer are
not compared, since a reload does not keep them either.

| Run | Question | Result |
|---|---|---|
| `chat` | `PaneIsStore`, `BusyTrue`, `SteeredTrue`: two prompts, one call (which asks a question), two failed or overflowed requests, one command, five unread events | hold |

The invariants are about a screen that has read every event, and the run lets it
lag behind by up to five (a cut, a wiped queue and a fork with a summary send that
many at once), so commands are taken by a core the screen has not caught up with.
Two companions hold too and are too large to be runs: `chat_queue.cfg` (three
prompts, so two in the queue, two commands, no call) and `chat_calls.cfg` (two calls,
one behind each popup).

`Upsets` names what the core does not tell the screen, or tells it wrongly, as far
as we know; the run has none of them.  Each alone breaks at least one property, which
TLC shows with `chat.cfg` and that one situation allowed:

| Upset | Code | Breaks |
|---|---|---|
| `"attach"`, `"refused"` | a `StreamError` for an unreadable attachment or a refused command commits the live turn as interrupted and sets the screen idle | `PaneIsStore`, `BusyTrue` |
| `"new"` | `/new` while a reply streams blanks the screen; the core refuses it | all three |
| `"wait"` | a load, a branch delete, a replay, or a fork that walks or fails drops a scheduled retry without an event: "Waiting" stays | `PaneIsStore`, `BusyTrue` |
| `"start"` | a queued prompt that cannot be stored leaves its row in the list | `SteeredTrue` |
| `"resume"` | `resume_last_turn` returns without an event | `PaneIsStore`, `BusyTrue` |
| `"exhaust"` | a compacted run out of budget is not followed by a reload | `PaneIsStore` |
| `"calls"` | `RetryScheduled` drops the running calls; `persist_stream_error` stored them as killed | `PaneIsStore` |
| `"final"` | a reply that comes only with the last item is stored and not shown | `PaneIsStore` |
| `"replay"` | a replayed prompt is not shown, and the screen is idle until the first token | `PaneIsStore`, `BusyTrue` |
| `"summary"` | a fork with a summary that recalls no prompt: `CompactionFinished` says "Resuming after compaction...", and `Forked` without a prompt leaves it, over an idle core | `BusyTrue` |
| `"ask"` | an ask that comes out of its channel behind its run's end, or is answered there, makes the screen wait or call a tool for nobody | `BusyTrue` |
| `"compact"` | a command that fails while a run compacts, or before the run resumed from there has said anything: `ShowError` takes the status for that of a `/compact` and ends the wait | `BusyTrue` |
| `"status"` | another status line between the events of a `/compact` hides that it is one, and the error that ends it does not end the wait | `BusyTrue` |
| `"reload"` | a fork, a branch delete, a replay or a `/compact` changed the store and cannot load it again: an error and no reload | `PaneIsStore` |

### Proof

`Conversation_proofs` is about any buffer, any budgets and any bounds.  The three
properties speak of a screen that has read every event, and no step reads them all;
what holds at every step is about the screen to come, the one that the unread
events will make of the present one:

    Follows == \E s : Fits(s, path, running, Mode, queue, retry) /\ Reads(screen, events, s)

`Reads` says it with the function of the screens on the way, one per event read;
`Fits` says of that screen what the properties do, and a little more (a compaction's
status is only there while a run compacts, or before it goes on from there, or when
it is over; what is in flight is a live run's or waits for its retry).  `Mode` is
the run, with one that has said nothing told from one that has: an error ends the
busy row over the first and not over the second, for its events overwrite the
status.  `IInv` adds types and that a retry waits only without a run (`Alone`).
Then

* the screen's own step takes an event off the channel and applies it: the screen
  to come stays the same one (`ReadsFirst`), whatever the event is;
* a step of the core adds its events at the end: the screen to come is what they
  make of the old one (`ReadsOn`), and it must fit the core after the step.  So each
  handler is compared with what the screen makes of this handler's events, and with
  nothing else; how far the screen lags does not matter.

`Grouped` cuts blocks into runs; the lemmas about it are about one block more on
one side or both, about the calls that run beside the blocks, and about a change of
every block that keeps its kind (calls that are killed).  They are proved by a least
counterexample, on the recursive function that `Grouped` is.

| Theorem | Says | Without |
|---|---|---|
| `QueueCorrect` | `SteeredTrue` | `"start"`, `"new"` |
| `BusyCorrect` | `BusyTrue` | `"attach"`, `"refused"`, `"new"`, `"wait"`, `"resume"`, `"replay"`, `"summary"`, `"ask"`, `"compact"`, `"status"` |
| `PaneCorrect` | `PaneIsStore` | all but `"start"`, `"summary"`, `"ask"`, `"compact"`, `"status"` |

What each theorem is proved without is what the table above says breaks its property,
no more: the other situations may happen in any number and any order.  No theorem
says that the list is complete of the program; each is about every history the model
has.  What the model has not is a fork beside a compaction inside a run (the fork does
not wait for it; `SessionTree`'s `"race"`).

The proof changed the form of two operators and of no action: `Grouped` and
`DropActive` are recursive functions now, since nothing can be proved of the
library's `FoldLeft` and `SelectSeq`.

## Compaction

How a session stays inside its model's context window.  Each request sends the
conversation again, and is judged by what the provider reported for the one
before: the tracker of a run (`tracker`, `seen`), and for the first call of a run
the usage restored from stored rows (`anchor`).  Over the budget the run stops
(`Stop`) or old results are trimmed (`Trimmed`); a stopped or rejected run is
compacted (`CompactActivePath`, with `PlanStart` and `PlanCut` for `select_plan`)
and resumed (`ResumeLastTurn`) in the same reply row, `overflows` times at most.

| Variable | Code |
|---|---|
| `rows`, `path` | the stored messages: kind, the results of their calls, text, usage, and (history) what a summary folds in; the active path |
| `memory`, `anchor` | `Session.messages`, `Session.last_usage` |
| `run` | the running request: where it is, what it sends (`base`), the row it goes on in, what it has gathered |
| `tracker`, `seen` | `UsageTracker.last_request_tokens`, `ContextHook.last_request_chars` |
| `overflows` | `overflow_retries` of `run` |

Sizes are tokens.  The code estimates them as a quarter of the characters; here
the estimate is exact but for the preamble, which the code leaves out too.  The
usage of a measured request carries, as history, the summary that request opened
with (`under`): this is what tells a number that still measures the conversation
from one that does not.  The path is a line, and no write fails.

| Run | Question | Result |
|---|---|---|
| `compaction` | `RequestCovers`, `StopIsMeasured`, `OneReply`, and `Settles` under weak fairness of `Work`: two prompts, one call per request, a failure, a `/compact`, a reload or a cancel | hold |

A window of six with three reserved makes one result of two tokens the difference
between a request that fits, one that is trimmed and one that is over; a kept tail
of three tokens and three messages leaves a head to fold.  In this run a stop, a
rejected request, a trim, a plan with nothing to compact and an overflow budget
that is used up all occur; `MaxRows` is never reached.  `MinTail` is 3 for 4 and
`MaxOverflows` 2 for 3.  The fairness is that of the runtime and of a provider
that answers one way or another; `Settles` is what the counter is for, and the
mutant without the count loops for ever.

Two situations are named by `Upsets` and shut in the run, because the code's own
account of them fails:

* `"full"` (`compaction_full.cfg`, `StopIsMeasured`): `Session::from_stored` takes
  the usage of the last reply that stands behind the summary, which includes
  replies of the kept tail that were measured before the compaction, although the
  field's doc (`session.rs:140`) says that only requests made after the newest
  summary count.  A reply that was over the budget re-arms the stop: the resumed
  run stops without a call until the budget of overflows is used up, and so does
  each prompt after it while that reply stays in the tail.
* `"long"` (`compaction_long.cfg`, `RequestCovers`): where the reply alone fills
  the kept tail, the summary takes the prompt in; `last_turn_resume`
  (`session.rs:547`) then finds no prompt in what is sent and replays the turn over
  the history before the summary, uncompacted.

### Proof

`Compaction_proofs` is about any window, reserve, tail, sizes of texts and of
results, any budget of overflows and any bounds.  Three invariants, each on top of
the one before.

* `LineInv`: types; the path starts with a prompt and ends with a prompt or with the
  very reply that the request goes on in (`EndsWell`); between two replies there is a
  prompt.  A splice keeps all three wherever it cuts, since the summary it puts in is
  neither.  `OneReplyCorrect` follows, without hypotheses.
* `CoverInv`: every summary of a path folds all that stands before it (`FoldedIn`);
  while a turn is not answered, the path ends with its prompt or with its prompt and
  a part of a reply that does not fill the tail (`PartialIn`); so the cut is behind
  the prompt (`PlanShort`), the prompt is in what is sent, and the turn goes on from
  the newest summary.  `CoverCorrect` follows.  It assumes `TailTold`: `"long"` does
  not occur, and the floor of the tail is more than one message (`MIN_TAIL_MESSAGES`
  is 4, `compaction.rs:26`): with a floor of one the cut would separate even a short
  reply from its prompt.
* `MeasureInv`: no row has a usage over the budget; a measure over the budget, in the
  session or in the run's tracker, was taken under the newest summary of the
  conversation in memory, and the running request opens with that summary.
  `StopCorrect` follows.  It assumes `MeasureTold`: neither `"long"` nor `"full"`.

Both hypotheses are the run's own (`Upsets = {}`), and the two witnesses above show
what goes wrong without them.

Rows are compared by operators of rows and paths (`NewestIn`, `UnderIn`,
`FoldedIn`, ...), so that one lemma speaks of the rows before and behind a step: rows
only grow, and none changes its kind (`Grown`).  The proof changed the form of some
operators and of no action: what looks for the last of something is `Latest` of the
places where it is, and `OneReply` says that there is a prompt between two replies,
where it said that no reply is followed by another once the summaries are left out.

## Tabs

The App with its tabs, one core per tab, and the render loop between them.

| Variable | Code |
|---|---|
| `app` | the strip, the active tab, the working slots (`slot`), the parked screens, the sender commands go to, the next tab id |
| `overlay`, `picker`, `tree`, `conn` | the dialog with the keys; the session picker and the tree popup with the tab their list came from; the model read last |
| `cmds`, `events` | each core's two bounded channels |
| `core`, `prefs`, `file` | each core: up, ending, ended; its turn; what it has said and has yet to say; its settings; the files it saves them to |
| `live`, `render` | `Cores.live`; whether the render loop selects, spawns or closes |

User: `GotoTab`, `NewTab`, `CloseActive`, `Prompt`, `OpenPicker`, `OpenTree`,
`CloseOverlay`, `Dismiss`, `PickSession`, `Fork`, `DeleteBranch`, `PickModel`,
`SetCodemode`.  Core: the `Take...` actions, `Say`, `Token`, `TurnEnds`,
`CutAndEnd`, `End`.  Render loop: `ReadStream` (a background tab is staged into
the slots, told, and parked again), `ReadReply`, `ReadList`, `ReadTree`,
`ReadSaved`, `PickerRefresh`, `Spawned`, `SpawnFails`, `Joined`.

| Run | Question | Result |
|---|---|---|
| `tabs` | `OwnStream`, `CommandsAtHome`, `PicksReachAll`, and `CloseEnds` under `FairSpec`: two tabs, two commands and three events of buffer, two things the user does, one failing listing | hold |

Two tabs are the staged and the parked one; full command channels happen, event
channels fill only where no tab is being closed (`"full"` shut).  `FairSpec`: the
tasks run, the loop takes every channel's events in turn, the picker's timer
fires; the user owes nothing.

Windows that are shut, and the witnesses beside the run (a fourth window,
`"flood"`, is a pick made while a command channel is full: the core it cannot be
sent to keeps its old model, against `PicksReachAll`):

| Witness | Shows |
|---|---|
| `tabs_answers.cfg` (`"late"`) | `CommandsAtHome`: a list asked for by a tab that was left opens over the next tab, and what is picked or deleted in it goes to that tab's core |
| `tabs_close.cfg` (`"full"`) | `CloseEnds`: `Cores::close` waits for the core with its events unread; a core with more to say than the channel holds never ends |
| `tabs_spawn.cfg` (`"spawn"`) | `PicksReachAll`: a tab opened while a pick is on its way starts on the old model |
| `tabs_sidebar.cfg` | `SidebarTrue`: the sidebar of a tab shows a model its core does not run on |
| `tabs_codemode.cfg` | `ChoiceKept`: every core saves the whole settings file, with what it last knew of the others' settings |

### Proofs

`Tabs_proofs` is about any number of tabs, and any channel and counter bounds.

* `TypeCorrect` and `OwnStreamSafe` hold with every window open.  A background
  tab's event is applied by staging its screen into the working slots and parking
  it again, so what must be shown first is that no move of the App loses or
  doubles a screen (`Staged`, in `StripInv`, one lemma per move); then what a
  screen heard, what is on its way and what the core has yet to say always add up
  to what the core said (`StreamInv`).
* `CommandsAtHomeSafe` assumes that no tab is left with an answer on its way
  (`"late" \notin Windows`; `tabs_answers` shows why): `AnswersInv` says that only
  the active tab can have asked, and that the dialog that is up is its.
* `PicksReachAllSafe` assumes that no tab opens while a pick is on its way and that
  no pick meets a full channel (`"spawn"`, `"flood"` shut; `tabs_spawn` shows the
  first): `PicksInv` says that each core has the model or a pick of it in its
  channel, and that the file has it once no pick is on its way.

`CloseEnds` is liveness.

## LspServers

The language servers of one core: `queue` is the manager's mutex (its holder, then
those who wait), `actor` the tool calls and the run loop with the phase of what
they do under it, `servers` and `diags` the manager's maps, `proc` the server
processes with what each was told of its documents, `channel` what they have
published and nobody has pumped, `disk` the files.

Actions of a call: `Edit`, `Analyze`, `Manage`, then `Ensure`, `Initialized` or
`InitFails`, `NotifyEdit`, `Opens`, `Stop`, `Killed`, `Leave`, `Poll`, `Look`,
`GiveUp`, `Return`, and `Abort` (the run that made it is cut); of the run loop:
`Arm`, `Tick`, `Otherwise`, `Pump`, `Quit`, `ShutdownAll`; of the servers:
`Publish`, `Crash`.

| Run | Question | Result |
|---|---|---|
| `lsp` | `NoOrphan`, `InStep`, and `Reported`, `LoopReturns` under `FairSpec`: one language, one file in two versions, two calls at a time, two processes, a crash, a dropped call | hold |

Two processes are a server and the one that replaces it; two calls and the loop
contend for the mutex; a restart can race an edit, a crash and a shutdown.
`FairSpec`: tasks run, timers fire, a server publishes in the end and answers
`initialize`; strong fairness where the `select!` or a timeout competes with other
branches.

Kept out: `"deaf"`, a server that never answers `initialize`, holds the manager
for ever, since that wait has no timeout (`lsp_deaf.cfg`, `LoopReturns`: the run
loop is stuck in its pump); `"abort"`, a call dropped between its write and its
notification, leaves the server with the old content (`InStep`).  Other witnesses:
`lsp_stale.cfg` (`AnalyzeFresh`: analyze may return what an older version gave),
`lsp_unseen.cfg` (`EditSeen`: an edit of a file the server was never opened is not
told), `lsp_manual.cfg` (`InStep`: servers that do not start by themselves are
never told of edits).

### Proofs

`LspServers_proofs` is about any number of languages, files, calls, versions and
processes.

* `TypeCorrect` and `NoOrphanSafe` hold with every window open.  The mutex is a
  line of actors and only its head is past it (`LineInv`); a process that is
  starting or stopping is in the hands of the head (`HandsInv`), one that is up is
  in the map, under its language, and after the shutdown none is (`ProcsInv`).
  A call that is dropped gives up what it holds in the same step, which is why no
  window is needed.
* `InStepSafe` assumes `Carried`: a server starts with the first edit
  (`Langs \subseteq AutoStart`) and no call is dropped between its write and its
  notification (`"abort"` shut); `lsp_manual` and the window's own mutant show both
  to be needed.  An edit carries what its file holds and no two edit one file
  (`EditsInv`), and documents are of a process that is or was up (`DocsInv`).

`Reported` and `LoopReturns` are liveness.

## What no run shows as a violation

`PROJECT.json` lists no findings: the runs are the properties that hold.  The
disagreements met while modelling are the witness configurations named above, each
of which TLC refutes, and these smaller ones read off the code: `select_plan`'s
doc promises `None` when there is nothing new since the previous summary, but a
tail that starts right behind it summarises the summary alone; `overflow_retries`
is reset neither by progress nor by a turn that fails for good; a completed worker
call has no record of its own and its inner calls are replayed to the model as the
manager's.

## Proved, and only checked

Every safety property that a run checks is a theorem, in some cases under
hypotheses, which are the ones its run makes too and which the sections above
justify one by one.  TLC alone vouches for:

* the liveness properties (`CancelledEnds`, `SteeredLeaves`, `StaleFrees`,
  `AskSettles`, `Settles`, `CloseEnds`, `Reported`, `LoopReturns`): fairness and
  `ENABLED` are out of the prover's reach;
* that the bounds are large enough for each witness to appear.

Two limits shape the proofs.  Theorems of the library that take an operator as a
parameter (induction over the naturals or over sequences, facts about `SelectSeq`)
cannot be instantiated; induction is done by a least counterexample instead
(`LeastIsIn`), and the folds and filters of the community modules are avoided where
something has to be proved of them.  And `RECURSIVE` operators cannot be used: where
the code recurses over the tree the model has a recursive function (`PathTo`) or
says what the result is (`IsSubtree`).

## Not modelled

Much of the source has no state of its own to get wrong over time: parsing and
writing configuration (`crates/config`, some 13,000 lines with its tests),
rendering, layout, key handling and forms (most of `src/tui`), highlighting,
document conversion, the wording of tool results, provider formats and HTTP, and
unit tests inside the source files.  The map therefore covers a small share of the
implementation's lines, and will stay well below a third of them; it covers the
code that decides what happens next.

* Turn loop: usage and cost, titles, search, scenes, attachments and MCP share no
  state with the turn lifecycle.  `SwitchScene` is refused while the agent is busy
  and changes none of the variables.  The clock is abstract: a timer may fire any
  time after it is set, so a repeated cancel that keeps moving the grace is not
  distinguished.  The writes of a terminal sequence are one step in `TurnLoop`
  (`Persist`); their order and failures are in `SessionTree`.
* Session store: worker sessions (they are purged with their parent), imports,
  scroll positions, titles; statements that fail (the code goes on without a lock
  when one does, a hazard `PROJECT.json` lists); the read and the rename inside one
  rewrite of the map; a clock that jumps.
* Session tree: contents, titles, search, the rows of calls and records.
* Tool batches: what a tool does; more than one batch per run (the gate is empty
  between them); MCP tools, which are calls like the others here.
* Compaction: branches, failing writes, a change of model (and so of window)
  between requests, media, the fallback from per-request to aggregated usage.
* Screen: layout, scrolling, selection, the composer, the sidebar beyond the
  model, usage, todos, media.
* Tabs: branch labels, scene sets, the settings screen; what a turn does.
* LSP: the protocol beyond open, change and diagnostics; the registry of servers.
  The MCP manager has the same shape without documents and is not modelled.
