---------------------------- MODULE Conversation ----------------------------
(* What the chat screen shows of a session: the run loop and the stream     *)
(* task change the session and tell the screen by events, in one FIFO       *)
(* channel, and the screen never reads the session again unless a reload is *)
(* sent to it.  So every step of the core has to be matched by what the     *)
(* screen makes of its events, however late it reads them.                  *)
(*                                                                          *)
(* A conversation is a sequence of blocks: prompts, runs of text (thinking  *)
(* is text here), tool calls, summaries.  `path` is what a reload would     *)
(* show: the stored messages with what the running turn has gathered.       *)
(* A handler is one step with all its events, and so is the terminal        *)
(* sequence of a run, but for a compaction in it: the ways they interleave  *)
(* are the matter of TurnLoop.  What an answer does to the call that asked  *)
(* is the matter of ToolBatch; here it is the screen's word that counts.    *)
EXTENDS Integers, Sequences, FiniteSets, SequencesExt

CONSTANTS
    EventBuffer,  \* EVENT_BUFFER
    MaxRetries,   \* retry.max-retries
    MaxOverflows, \* MAX_OVERFLOW_RETRIES
    MaxPrompts,   \* bound: prompts typed
    MaxCalls,     \* bound: tool calls
    MaxFailures,  \* bound: requests that fail or overflow
    MaxCommands,  \* bound: commands that are not prompts
    Questions,    \* the calls, by number, that ask the user a question
    Permissions,  \* those a rule stops to ask for permission
    Upsets        \* which of the situations below occur

(* What the screen is not told of, or told wrongly, as far as we know:      *)
(* "attach":  a prompt whose attachment cannot be read, sent to a busy core.*)
(* "refused": a command refused because a reply streams.                    *)
(* "new":     /new while a reply streams or its last events are unread.     *)
(* "wait":    a command that drops a scheduled retry without a word.        *)
(* "start":   a queued prompt that cannot be stored.                        *)
(* "resume":  a session that cannot be resumed.                             *)
(* "exhaust": a run compacted once too often to be continued.               *)
(* "calls":   a request that fails for a retry while its calls run.         *)
(* "final":   a reply that comes with its last item only.                   *)
(* "replay":  a prompt that /replay sends.                                  *)
(* "summary": a fork that summarizes and recalls no prompt.                 *)
(* "ask":     an ask heard, or answered, when its run is over.              *)
(* "compact": a command that fails while a run compacts, or before the run  *)
(*            that goes on from there has said anything.                    *)
(* "status":  a status line over a compaction whose events are unread.      *)
(* "reload":  a session changed in the store that cannot be loaded again.   *)
AllUpsets == {"attach", "refused", "new", "wait", "start", "resume", "exhaust", "calls",
              "final", "replay", "summary", "ask", "compact", "status", "reload"}

ASSUME ConversationAssumption ==
    /\ EventBuffer \in Nat /\ MaxRetries \in Nat /\ MaxOverflows \in Nat
    /\ MaxPrompts \in Nat /\ MaxCalls \in Nat
    /\ MaxFailures \in Nat /\ MaxCommands \in Nat
    /\ Questions \subseteq Nat /\ Permissions \subseteq Nat
    /\ Upsets \subseteq AllUpsets

VARIABLES
    path,       \* the active path, with the running turn's own blocks
    running,    \* pending_tools: calls started and not returned
    waiting,    \* those of them that wait for an answer
    run,        \* the run: none, live, compacting, or the outcome it left in
                \* stream_done
    progressed, \* the request got somewhere
    cancelled,  \* flow.cancel() was called on the run
    queue,      \* the run loop's steered
    retry,      \* pending_retry
    budget,     \* turn_retries, overflow_retries
    asks,       \* the question and permission channels: the calls that asked
    events,     \* the event channel
    screen,     \* the session screen
    popup,      \* its popups: the call each shows the ask of
    prompts, calls, failures, commands \* how many so far

turn   == <<running, waiting, run, progressed, cancelled>>
core   == <<path, turn, queue, retry, budget>>
ui     == <<screen, popup>>
bounds == <<prompts, calls, failures, commands>>
vars   == <<core, asks, events, ui, bounds>>

-----------------------------------------------------------------------------
(* Conversations                                                            *)

Prompt(n)   == [kind |-> "prompt", id |-> n, state |-> "sent"]
Text        == [kind |-> "text", id |-> 0, state |-> "said"]
Summary     == [kind |-> "summary", id |-> 0, state |-> "said"]
Tool(c, st) == [kind |-> "tool", id |-> c, state |-> st]

IsPrompt(b) == b.kind = "prompt"
IsActive(b) == b.state = "running"

(* Blocks of one kind that follow each other, but prompts, are one group:   *)
(* the screen has calls in the order they started in, a reload in the order *)
(* they returned in; a turn continued after an overflow is two turns on the *)
(* screen and one row in the store.                                         *)
Joined(groups, b) ==
    IF groups # <<>> /\ ~IsPrompt(b) /\ \A x \in Last(groups) : x.kind = b.kind
    THEN [groups EXCEPT ![Len(groups)] = @ \cup {b}]
    ELSE Append(groups, {b})

Grouped(blocks) ==
    LET grouped[n \in 0..Len(blocks)] ==
            IF n = 0 THEN <<>> ELSE Joined(grouped[n - 1], blocks[n])
    IN grouped[Len(blocks)]

(* append_text, and the runs of the stored reply: text goes on where text   *)
(* was the last thing.                                                      *)
WithText(blocks) ==
    IF blocks # <<>> /\ Last(blocks) = Text THEN blocks ELSE Append(blocks, Text)

Calls(cs, st) == [i \in 1..Cardinality(cs) |-> Tool(SetToSeq(cs)[i], st)]

(* Each active call of a turn in another state; a turn without them.        *)
KillRunning(blocks) ==
    [i \in DOMAIN blocks |->
        IF IsActive(blocks[i]) THEN [blocks[i] EXCEPT !.state = "killed"] ELSE blocks[i]]
Kept(blocks, b) == IF IsActive(b) THEN blocks ELSE Append(blocks, b)
DropActive(blocks) ==
    LET kept[n \in 0..Len(blocks)] ==
            IF n = 0 THEN <<>> ELSE Kept(kept[n - 1], blocks[n])
    IN kept[Len(blocks)]
Finish(blocks, c) ==
    [i \in DOMAIN blocks |-> IF blocks[i] = Tool(c, "running") THEN Tool(c, "ok") ELSE blocks[i]]

-----------------------------------------------------------------------------
(* The screen: what it makes of each event                                  *)

(* `busy` is busy_kind but Idle, `compacting` that the status line is the   *)
(* one of a compaction.                                                     *)
Blank == [turns |-> <<>>, inflight |-> <<>>, streaming |-> FALSE, busy |-> FALSE,
          compacting |-> FALSE, steered |-> <<>>]

Idle(s) == [s EXCEPT !.busy = FALSE, !.compacting = FALSE]
Busy(s) == [s EXCEPT !.busy = TRUE, !.compacting = FALSE]

Live(s, blocks) == Busy([s EXCEPT !.inflight = blocks, !.streaming = TRUE])

TokenReceived(s)  == Live(s, WithText(s.inflight))
ToolStarted(s, c) == Live(s, Append(s.inflight, Tool(c, "running")))

ToolFinished(s, c) ==
    IF Tool(c, "running") \in Range(s.inflight)
    THEN [s EXCEPT !.inflight = Finish(@, c), !.compacting = FALSE]
    ELSE [s EXCEPT !.turns = Finish(@, c), !.compacting = FALSE]

Commit(s, blocks) ==
    Idle([s EXCEPT !.turns = @ \o blocks, !.inflight = <<>>, !.streaming = FALSE])
CommitDone(s) == Commit(s, s.inflight)

\* Mutated form: the calls that were running keep their spinners.
CommitInterruptedAsIs(s) == CommitDone(s)
CommitInterrupted(s) == Commit(s, KillRunning(s.inflight))

RetryScheduled(s) == Busy([s EXCEPT !.inflight = DropActive(@)])

BeginUserTurn(s, n, steered) ==
    Busy([s EXCEPT !.turns = Append(@, Prompt(n)),
                   !.steered = IF steered /\ @ # <<>> THEN Tail(@) ELSE @])

ApplySession(s, blocks) ==
    [s EXCEPT !.turns = blocks, !.inflight = <<>>, !.streaming = FALSE]
SessionLoaded(s, blocks) == [ApplySession(s, blocks) EXCEPT !.compacting = FALSE]
Forked(s, blocks, prompt) ==
    IF prompt THEN Idle(ApplySession(s, blocks)) ELSE ApplySession(s, blocks)
SessionCompacted(s, blocks) == Idle(ApplySession(s, blocks))

(* An error ends the wait for a compaction, and nothing else.               *)
\* Mutated form: it ends whatever the screen is busy with.
ShowErrorAlways(s) == Idle(s)
ShowError(s) == IF s.compacting THEN Idle(s) ELSE s
CompactionSaid(s) == [s EXCEPT !.busy = TRUE, !.compacting = TRUE]

SteeredQueued(s, n) == [s EXCEPT !.steered = Append(@, n)]
SteeredRecalled(s)  == [s EXCEPT !.steered = IF @ = <<>> THEN @ ELSE Front(@)]
SteeredCleared(s)   == [s EXCEPT !.steered = <<>>]

(* What the screen is after the event.                                      *)
Shown(s, e) ==
    CASE e.is = "TokenReceived"    -> TokenReceived(s)
      [] e.is = "ToolStarted"      -> ToolStarted(s, e.id)
      [] e.is = "ToolFinished"     -> ToolFinished(s, e.id)
      [] e.is = "StreamDone"       -> CommitDone(s)
      [] e.is \in {"StreamError", "StreamCancelled"} -> CommitInterrupted(s)
      [] e.is = "RetryScheduled"   -> RetryScheduled(s)
      [] e.is \in {"CompactionStarted", "CompactionFinished"} -> CompactionSaid(s)
      [] e.is = "SessionError"     -> ShowError(s)
      [] e.is = "Asked"            -> Busy(s)
      [] e.is = "TurnStarted"      -> BeginUserTurn(s, e.id, FALSE)
      [] e.is = "SteeredStarted"   -> BeginUserTurn(s, e.id, TRUE)
      [] e.is = "SessionLoaded"    -> SessionLoaded(s, e.blocks)
      [] e.is = "Forked"           -> Forked(s, e.blocks, e.prompt)
      [] e.is = "SessionCompacted" -> SessionCompacted(s, e.blocks)
      [] e.is = "PromptSteered"    -> SteeredQueued(s, e.id)
      [] e.is = "SteeredRecalled"  -> SteeredRecalled(s)
      [] e.is = "SteeredCleared"   -> SteeredCleared(s)

(* The popups: an ask opens its own, over another's; only a cancelled turn  *)
(* closes both.  0: closed.                                                 *)
Popup(c) == IF c \in Permissions THEN "permission" ELSE "question"
NoPopup  == [question |-> 0, permission |-> 0]
PopupAfter(e) ==
    CASE e.is = "Asked"           -> [popup EXCEPT ![Popup(e.id)] = e.id]
      [] e.is = "StreamCancelled" -> NoPopup
      [] e.is = "SessionLoaded"   -> [popup EXCEPT !.permission = 0]
      [] OTHER                    -> popup

(* The screen takes the next event.                                         *)
Show ==
    /\ events # <<>>
    /\ screen' = Shown(screen, Head(events)) /\ events' = Tail(events)
    /\ popup' = PopupAfter(Head(events))
    /\ UNCHANGED <<core, asks, bounds>>

-----------------------------------------------------------------------------
(* The core: what its handlers share                                        *)

Event(is)          == [is |-> is]
EventOf(is, id)    == [is |-> is, id |-> id]
Reload(is, blocks) == [is |-> is, blocks |-> blocks]
Fork(blocks, prompt) == [is |-> "Forked", blocks |-> blocks, prompt |-> prompt]

Emit(es) == Len(events) + Len(es) <= EventBuffer /\ events' = events \o es
Silent   == UNCHANGED events

Streaming == run \in {"live", "compacting"}
IsBusy    == Streaming \/ retry
Reporting == run \in {"ended", "failed", "compacted", "overflowed"}

Spend      == commands < MaxCommands /\ commands' = commands + 1
Allowed(u) == u \in Upsets

(* The partial turn as a cut persists it: its open calls are killed.        *)
CutPath == path \o Calls(running, "killed")

Request(r) == /\ run' = r /\ running' = {} /\ waiting' = {}
              /\ progressed' = FALSE /\ cancelled' = FALSE
NewRequest == Request("live")
NoRequest  == Request("none")

NoRetries == [turn |-> 0, overflow |-> 0]

(* start_user_turn on a path, after the events of its caller: the prompt is *)
(* stored and shown, and a request made unless no provider is set; or it    *)
(* cannot be stored.                                                        *)
StartUserTurn(p, n, name, before) ==
    \/ /\ path' = Append(p, Prompt(n)) /\ NewRequest
       /\ Emit(before \o <<EventOf(name, n)>>)
    \/ /\ path' = Append(p, Prompt(n)) /\ NoRequest
       /\ Emit(before \o <<EventOf(name, n), Event("StreamError")>>)
    \/ /\ Allowed("start")
       /\ path' = p /\ NoRequest
       /\ Emit(before \o <<Event("StreamError")>>)

(* The run on p is over: the front of the queue gets the next turn.         *)
DispatchNext(p, before) ==
    IF queue = <<>>
    THEN path' = p /\ NoRequest /\ Emit(before) /\ UNCHANGED queue
    ELSE queue' = Tail(queue) /\ StartUserTurn(p, Head(queue), "SteeredStarted", before)

\* clear_steered: the queue is wiped, and the screen told so.
\* Mutated form: it is not told.
ClearedSilently == <<>>
Cleared == IF queue = <<>> THEN <<>> ELSE <<Event("SteeredCleared")>>

(* A command that stream_busy refuses.                                      *)
Refused ==
    /\ Streaming /\ Allowed("refused") /\ Emit(<<Event("StreamError")>>)
    /\ UNCHANGED <<core, asks, ui>>

(* A command that fails, and changes nothing.                               *)
Failed ==
    /\ run = "compacting" \/ (run = "live" /\ ~progressed) => Allowed("compact")
    /\ Emit(<<Event("SessionError")>>)

(* The store has the path p, but the session cannot be loaded from it.      *)
NotReloaded(p, before) ==
    /\ Allowed("reload")
    /\ path' = p /\ Emit(before \o <<Event("SessionError")>>)

-----------------------------------------------------------------------------
(* Commands                                                                 *)

(* A prompt whose attachments cannot be resolved is reported and gone.      *)
SendMessage ==
    /\ prompts < MaxPrompts /\ prompts' = prompts + 1
    /\ ~Reporting
    /\ IF IsBusy
       THEN /\ queue' = Append(queue, prompts') /\ Emit(<<EventOf("PromptSteered", prompts')>>)
            /\ UNCHANGED <<path, turn, retry, budget>>
       ELSE /\ StartUserTurn(path, prompts', "TurnStarted", <<>>)
            /\ budget' = NoRetries /\ UNCHANGED <<queue, retry>>
    /\ UNCHANGED <<asks, ui, calls, failures, commands>>

AttachmentFails ==
    /\ prompts < MaxPrompts /\ prompts' = prompts + 1
    /\ IsBusy \/ Reporting => Allowed("attach")
    /\ Emit(<<Event("StreamError")>>)
    /\ UNCHANGED <<core, asks, ui, calls, failures, commands>>

(* Escape twice, or a question dismissed, while the screen believes in a    *)
(* reply.  The asks heard so far come back unanswered.                      *)
Escape ==
    /\ screen.streaming
    /\ \/ UNCHANGED popup
       \/ /\ popup.question # 0 /\ popup.permission = 0
          /\ popup' = [popup EXCEPT !.question = 0]

CancelFlow ==
    /\ Escape /\ Streaming
    /\ cancelled' = TRUE /\ waiting' = waiting \cap asks /\ Silent
    /\ UNCHANGED <<path, running, run, progressed, queue, retry, budget, asks, screen, bounds>>

CancelRetry ==
    /\ Escape /\ retry
    /\ retry' = FALSE /\ budget' = [budget EXCEPT !.turn = 0]
    /\ DispatchNext(path, <<Event("StreamError")>>)
    /\ UNCHANGED <<asks, screen, bounds>>

(* A popup is answered: the permission's is in front.  The screen says it   *)
(* calls the tool; a question dismissed over a run that is gone only closes.*)
Answer ==
    /\ \E k \in DOMAIN popup :
        /\ popup[k] # 0 /\ (k = "question" => popup.permission = 0)
        /\ popup' = [popup EXCEPT ![k] = 0]
        /\ \/ /\ ~screen.busy \/ screen.compacting => Allowed("ask")
              /\ screen' = Busy(screen) /\ waiting' = waiting \ {popup[k]}
           \/ /\ k = "question" /\ screen.streaming /\ ~IsBusy
              /\ UNCHANGED <<screen, waiting>>
    /\ UNCHANGED <<path, running, run, progressed, cancelled, queue, retry, budget, asks,
                   events, bounds>>

(* Another line over the status of a compaction: an attachment's notice, an *)
(* export, a viewer that opens.                                             *)
StatusLine ==
    /\ screen.compacting
    /\ events # <<>> => Allowed("status")
    /\ screen' = [screen EXCEPT !.compacting = FALSE]
    /\ UNCHANGED <<core, asks, events, popup, bounds>>

RecallSteered ==
    /\ Spend
    /\ queue # <<>>
    /\ queue' = Front(queue) /\ Emit(<<Event("SteeredRecalled")>>)
    /\ UNCHANGED <<path, turn, retry, budget, asks, ui, prompts, calls, failures>>

(* The path before each prompt, and behind each turn.                       *)
BeforeAPrompt(p) == {SubSeq(p, 1, i - 1) : i \in {j \in DOMAIN p : IsPrompt(p[j])}}
BehindATurn(p) ==
    {SubSeq(p, 1, i) : i \in {j \in DOMAIN p : j = Len(p) \/ IsPrompt(p[j + 1])}}

(* The path before each row that is no prompt: a reply, or a summary.       *)
BeforeARow(p) ==
    {SubSeq(p, 1, i - 1) : i \in {j \in DOMAIN p :
        ~IsPrompt(p[j]) /\ (p[j] # Summary /\ j > 1 => IsPrompt(p[j - 1]) \/ p[j - 1] = Summary)}}

CompactionEvents == <<Event("CompactionStarted"), Event("CompactionFinished")>>

(* A fork before a prompt, which is recalled unless it is blank, or a walk  *)
(* to the end of a turn.                                                    *)
ForkPlain(p, before) ==
    \/ \E q \in BeforeAPrompt(p) : path' = q /\ Emit(before \o <<Fork(q, TRUE)>>)
    \/ \E q \in BehindATurn(p) \cup BeforeAPrompt(p) :
          /\ retry => Allowed("wait")
          /\ path' = q /\ Emit(before \o <<Fork(q, FALSE)>>)

(* The same with a summary, which takes the place of the row forked at.     *)
ForkSummarized(p, before) ==
    \/ \E q \in BeforeAPrompt(p) :
          /\ q # <<>> /\ path' = Append(q, Summary)
          /\ Emit(before \o CompactionEvents \o <<Fork(Append(q, Summary), TRUE)>>)
    \/ \E q \in BeforeAPrompt(p) \cup BeforeARow(p) :
          /\ Allowed("summary") /\ path' = Append(q, Summary)
          /\ Emit(before \o CompactionEvents \o <<Fork(Append(q, Summary), FALSE)>>)
    \/ /\ retry => Allowed("wait")
       /\ path' = p /\ Emit(before \o CompactionEvents \o <<Event("SessionError")>>)

(* No session, no summarizer, or a fork or a reload that fails.             *)
ForkFails(p, before) ==
    /\ retry => Allowed("wait")
    /\ \/ path' = p /\ \E word \in {<<>>, <<Event("SessionError")>>} : Emit(before \o word)
       \/ \E q \in BehindATurn(p) \cup BeforeAPrompt(p) : NotReloaded(q, before)

(* A fork cuts the run, drops the queue and a retry, and reloads.  (One that*)
(* comes while the run compacts goes on beside it: SessionTree's "race".)   *)
ForkSession ==
    /\ Spend /\ ~Reporting /\ run # "compacting"
    /\ LET p      == IF Streaming THEN CutPath ELSE path
           cut    == IF Streaming THEN <<Event("StreamCancelled")>> ELSE <<>>
           before == cut \o Cleared
       IN ForkPlain(p, before) \/ ForkSummarized(p, before) \/ ForkFails(p, before)
    /\ NoRequest
    /\ queue' = <<>> /\ retry' = FALSE /\ budget' = [budget EXCEPT !.turn = 0]
    /\ UNCHANGED <<asks, ui, prompts, calls, failures>>

(* Another session is loaded: one with an old prompt and its reply.  Its    *)
(* lock may be held by somebody else, which ends the command; or it is gone.*)
OtherSession == <<Prompt(0), Text>>

LoadSession ==
    /\ Spend /\ ~Reporting
    /\ \/ Refused
       \/ /\ ~Streaming /\ (retry => Allowed("wait"))
          /\ \/ /\ path' = OtherSession /\ queue' = <<>>
                /\ Emit(Cleared \o <<Reload("SessionLoaded", OtherSession)>>)
             \/ /\ path' = path /\ queue' = <<>>
                /\ Emit(Cleared \o <<Event("SessionError")>>)
             \/ Silent /\ UNCHANGED <<path, queue>>
          /\ retry' = FALSE /\ budget' = [budget EXCEPT !.turn = 0]
          /\ UNCHANGED <<turn, asks, ui>>
    /\ UNCHANGED <<prompts, calls, failures>>

(* A branch is deleted, and the active leaf with it or not; or the deletion *)
(* fails.                                                                   *)
DeleteBranch ==
    /\ Spend /\ ~Reporting
    /\ \/ Refused
       \/ /\ ~Streaming /\ (retry => Allowed("wait"))
          /\ \/ \E q \in BehindATurn(path) \cup BeforeAPrompt(path) :
                   \/ /\ path' = q /\ queue' = <<>>
                      /\ Emit(Cleared \o <<Fork(q, FALSE)>>)
                   \/ NotReloaded(q, <<>>) /\ UNCHANGED queue
             \/ Silent /\ UNCHANGED <<path, queue>>
             \/ Failed /\ UNCHANGED <<path, queue>>
          /\ retry' = FALSE /\ budget' = [budget EXCEPT !.turn = 0]
          /\ UNCHANGED <<turn, asks, ui>>
    /\ UNCHANGED <<prompts, calls, failures>>

(* /new blanks the screen at once; a core that streams goes on as it was.   *)
NewSession ==
    /\ Spend /\ ~Reporting
    /\ screen' = Blank /\ popup' = [popup EXCEPT !.permission = 0]
    /\ \/ /\ Streaming /\ Allowed("new")
          /\ Emit(<<Event("StreamError")>>) /\ UNCHANGED core
       \/ /\ ~Streaming /\ (events # <<>> => Allowed("new"))
          /\ path' = <<>> /\ queue' = <<>> /\ Emit(Cleared)
          /\ retry' = FALSE /\ budget' = NoRetries
          /\ UNCHANGED turn
    /\ UNCHANGED <<asks, prompts, calls, failures>>

(* The path is forked before its last prompt, and the prompt is stored again *)
(* there: one that the session's tree knows.  The tree is read by reloads   *)
(* only, so there may be none, and then nothing is sent.                    *)
Replay ==
    /\ Spend /\ ~Reporting
    /\ \/ Refused
       \/ /\ ~Streaming /\ (retry => Allowed("wait"))
          /\ \/ \E i \in DOMAIN path :
                   LET q == SubSeq(path, 1, i - 1) IN
                   /\ IsPrompt(path[i]) /\ \A j \in DOMAIN path : j > i => ~IsPrompt(path[j])
                   /\ \/ /\ Emit(<<Fork(q, FALSE)>>)
                         /\ \/ path' = q /\ UNCHANGED turn
                            \/ Allowed("replay") /\ path' = Append(q, path[i]) /\ NewRequest
                      \/ NotReloaded(q, <<>>) /\ UNCHANGED turn
             \/ Failed /\ UNCHANGED <<path, turn>>
          /\ retry' = FALSE /\ budget' = [budget EXCEPT !.turn = 0]
          /\ UNCHANGED <<queue, asks, ui>>
    /\ UNCHANGED <<prompts, calls, failures>>

(* The head of a path replaced by a summary, as far as a prompt; what went  *)
(* before stays above it.                                                   *)
Compacted(p) ==
    {SubSeq(p, 1, i - 1) \o <<Summary>> \o SubSeq(p, i, Len(p)) :
        i \in {j \in DOMAIN p : j > 1 /\ IsPrompt(p[j]) /\ p[j - 1] # Summary}}

(* /compact, refused while busy; there may be no summarizer, nothing to     *)
(* compact, or no success.                                                  *)
CompactSession ==
    /\ Spend /\ ~Reporting
    /\ \/ IsBusy /\ Failed /\ UNCHANGED path
       \/ /\ ~IsBusy
          /\ \/ \E p \in Compacted(path) :
                   \/ path' = p /\ Emit(CompactionEvents \o <<Reload("SessionCompacted", p)>>)
                   \/ NotReloaded(p, CompactionEvents)
             \/ /\ path' = path
                /\ \E before \in {<<>>, CompactionEvents} :
                      Emit(before \o <<Event("SessionError")>>)
    /\ UNCHANGED <<turn, queue, retry, budget, asks, ui, prompts, calls, failures>>

(* A command of another kind that fails: a list, a title, a tree, an export.*)
CommandFails ==
    /\ Spend /\ ~Reporting /\ Failed
    /\ UNCHANGED <<core, asks, ui, prompts, calls, failures>>

-----------------------------------------------------------------------------
(* The stream task                                                          *)

Unfailing == UNCHANGED <<cancelled, queue, retry, budget, ui, prompts, failures, commands>>

(* The first token of a run of text; the others change nothing more.        *)
Token ==
    /\ run = "live" /\ running = {}
    /\ WithText(path) # path \/ ~progressed
    /\ path' = WithText(path) /\ progressed' = TRUE
    /\ Emit(<<Event("TokenReceived")>>)
    /\ UNCHANGED <<running, waiting, run, asks, calls>> /\ Unfailing

(* A call may ask the user, and waits for the answer.                       *)
ToolStart ==
    /\ run = "live" /\ calls < MaxCalls
    /\ calls' = calls + 1 /\ running' = running \cup {calls'} /\ progressed' = TRUE
    /\ LET asking == {calls'} \cap (Questions \cup Permissions)
       IN waiting' = waiting \cup asking /\ asks' = asks \cup asking
    /\ Emit(<<EventOf("ToolStarted", calls')>>)
    /\ UNCHANGED <<path, run>> /\ Unfailing

ToolResult ==
    /\ run = "live"
    /\ \E c \in running \ waiting :
          /\ running' = running \ {c} /\ path' = Append(path, Tool(c, "ok"))
          /\ Emit(<<EventOf("ToolFinished", c)>>)
    /\ progressed' = TRUE
    /\ UNCHANGED <<waiting, run, asks, calls>> /\ Unfailing

(* How a run ends: its outcome, what it persists, what it reports.          *)
End(outcome, p, es) ==
    /\ run' = outcome /\ path' = p /\ running' = {} /\ waiting' = {} /\ Emit(es)
    /\ UNCHANGED <<progressed, cancelled, queue, retry, budget, asks, ui, prompts, calls, commands>>

(* The commit.  A provider may give the whole reply with its last item.     *)
ReplyDone ==
    /\ run = "live" /\ running = {}
    /\ \/ End("ended", path, <<Event("StreamDone")>>)
       \/ Allowed("final") /\ ~progressed /\ End("ended", WithText(path), <<Event("StreamDone")>>)
    /\ UNCHANGED failures

(* A queued prompt cuts in, a call is denied, or the flow was cancelled.    *)
CutAtBoundary ==
    /\ run = "live"
    /\ cancelled \/ progressed
    /\ End("ended", CutPath, <<Event("StreamCancelled")>>)
    /\ UNCHANGED failures

(* persist_stream_error, and the failure is left to the run loop.           *)
Fails ==
    /\ run = "live" /\ failures < MaxFailures /\ failures' = failures + 1
    /\ running # {} => Allowed("calls")
    /\ End("failed", CutPath, <<>>)

(* The context is full: the same, then a compaction, unless there is no way *)
(* to make one; it fails, finds nothing to do, or succeeds.                 *)
Overflows ==
    /\ run = "live" /\ failures < MaxFailures /\ failures' = failures + 1
    /\ \/ End("overflowed", CutPath, <<Event("StreamError")>>)
       \/ End("compacting", CutPath, <<Event("StreamError"), Event("CompactionStarted")>>)

CompactionEnds ==
    /\ run = "compacting"
    /\ \/ \E said \in {<<>>, <<Event("CompactionFinished")>>} :
             End("overflowed", path, said \o <<Event("StreamError")>>)
       \/ \E p \in Compacted(path) : End("compacted", p, <<Event("CompactionFinished")>>)
    /\ UNCHANGED failures

-----------------------------------------------------------------------------
(* The run loop's other branches                                            *)

(* resume_last_turn, after the events of its caller.                        *)
Resume(es) ==
    \/ path' = path /\ NewRequest /\ Emit(es)
    \/ path' = path /\ NoRequest /\ Emit(es \o <<Event("StreamError")>>)
    \/ Allowed("resume") /\ path' = path /\ NoRequest /\ Silent

HandleEnd ==
    /\ run = "ended"
    /\ budget' = NoRetries /\ DispatchNext(path, <<>>)
    /\ UNCHANGED <<retry, asks, ui, bounds>>

HandleOverflow ==
    /\ run \in {"compacted", "overflowed"}
    /\ IF run = "compacted" /\ budget.overflow < MaxOverflows
       THEN /\ budget' = [budget EXCEPT !.overflow = @ + 1]
            /\ Resume(<<Fork(path, FALSE)>>)
       ELSE /\ run = "compacted" => Allowed("exhaust")
            /\ budget' = [budget EXCEPT !.overflow = 0]
            /\ path' = path /\ NoRequest /\ Emit(<<Event("StreamError")>>)
    /\ UNCHANGED <<queue, retry, asks, ui, bounds>>

(* A request that got somewhere starts a new series of retries.             *)
HandleFailure ==
    /\ run = "failed"
    /\ LET spent == IF progressed THEN 0 ELSE budget.turn
       IN IF spent < MaxRetries
          THEN /\ budget' = [budget EXCEPT !.turn = spent + 1] /\ retry' = TRUE
               /\ Emit(<<Event("RetryScheduled")>>)
          ELSE /\ budget' = [budget EXCEPT !.turn = 0] /\ retry' = FALSE
               /\ Emit(<<Event("StreamError")>>)
    /\ path' = path /\ NoRequest
    /\ UNCHANGED <<queue, asks, ui, bounds>>

RetryFires ==
    /\ retry /\ retry' = FALSE
    /\ Resume(<<>>)
    /\ UNCHANGED <<queue, budget, asks, ui, bounds>>

(* The hard cut of a cancelled run; one that compacts is left alone.        *)
GraceFires ==
    /\ run = "live" /\ cancelled
    /\ DispatchNext(CutPath, <<Event("StreamCancelled")>>)
    /\ UNCHANGED <<retry, budget, asks, ui, bounds>>

(* An ask comes out of its channel, whether its run is alive or not.        *)
HearAsk ==
    /\ IsBusy \/ run \in {"failed", "compacted"} \/ Allowed("ask")
    /\ \E c \in asks : asks' = asks \ {c} /\ Emit(<<EventOf("Asked", c)>>)
    /\ UNCHANGED <<core, ui, bounds>>

-----------------------------------------------------------------------------

Init ==
    /\ path = <<>> /\ running = {} /\ waiting = {} /\ run = "none"
    /\ progressed = FALSE /\ cancelled = FALSE
    /\ queue = <<>> /\ retry = FALSE /\ budget = NoRetries
    /\ asks = {} /\ events = <<>> /\ screen = Blank /\ popup = NoPopup
    /\ prompts = 0 /\ calls = 0 /\ failures = 0 /\ commands = 0

Command ==
    \/ SendMessage \/ AttachmentFails \/ CancelFlow \/ CancelRetry \/ RecallSteered
    \/ ForkSession \/ LoadSession \/ DeleteBranch \/ NewSession \/ Replay \/ CompactSession
    \/ CommandFails

Stream ==
    \/ Token \/ ToolStart \/ ToolResult \/ ReplyDone \/ CutAtBoundary \/ Fails
    \/ Overflows \/ CompactionEnds

Loop == HandleEnd \/ HandleOverflow \/ HandleFailure \/ RetryFires \/ GraceFires \/ HearAsk

Next == Show \/ Answer \/ StatusLine \/ Command \/ Stream \/ Loop

Spec == Init /\ [][Next]_vars

-----------------------------------------------------------------------------

(* A screen that has read every event shows what a reload would show, and   *)
(* the running calls besides: no block is lost, doubled, or out of order,   *)
(* no spinner turns for a call that is gone.  (Behind a compaction inside a *)
(* run it waits for the reload that comes with the continuation.)           *)
PaneIsStore ==
    events = <<>> /\ run # "compacted" =>
        Grouped(screen.turns \o screen.inflight) = Grouped(path \o Calls(running, "running"))

(* Such a screen is busy exactly while a reply runs, waits for a retry, or  *)
(* is about to go on; and only then takes a double Escape for a cancel.     *)
BusyTrue ==
    events = <<>> =>
        /\ screen.busy <=> (IsBusy \/ run \in {"failed", "compacted"})
        /\ screen.streaming => screen.busy

(* The queued prompts below the conversation are the core's queue.          *)
SteeredTrue == events = <<>> => screen.steered = queue

=============================================================================
