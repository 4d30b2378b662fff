----------------------------- MODULE Compaction -----------------------------
(* How a session is kept inside its model's context window.  Each call of   *)
(* the model sends the whole conversation again; the cost the provider      *)
(* reports for it is the number the next call is judged by.  Over the       *)
(* budget the run stops, the head of the conversation is folded into a      *)
(* summary, and the turn goes on from where it was: the same reply row, a   *)
(* shorter request.  What is measured is thus older than what is sent, in   *)
(* the running turn, in the rows of earlier turns, and across a reload.     *)
(*                                                                          *)
(* Sizes are tokens; the estimate (a quarter of the characters) is exact    *)
(* but for the preamble.  The path is a line: its branches, and writes that *)
(* fail, are the matter of SessionTree.  One user, one run at a time.       *)
EXTENDS Integers, Sequences, FiniteSets, SequencesExt

CONSTANTS
    Window,       \* the model's context length
    Reserved,     \* context.reserved
    Keep,         \* context.keep-recent-tokens
    MinTail,      \* MIN_TAIL_MESSAGES
    Preamble,     \* tokens of the system preamble
    SummarySize,  \* tokens of a summary
    Texts,        \* tokens of a prompt or of a reply's text
    Outputs,      \* tokens of a call's result
    MaxOverflows, \* MAX_OVERFLOW_RETRIES
    Reports,      \* whether a provider reports a call's usage
    MaxPrompts,   \* bound: prompts
    MaxCalls,     \* bound: tool calls of a request
    MaxFailures,  \* bound: requests and summaries that fail
    MaxCommands,  \* bound: /compact, reloads and cancels
    MaxRows,      \* bound: stored messages, more than a run that ends can write
    Upsets        \* which of the situations below occur

(* "full": a reply whose last request was over the budget.                  *)
(* "long": a turn whose reply alone fills the tail that is kept.            *)
AllUpsets == {"full", "long"}

ASSUME CompactionAssumption ==
    /\ {Window, Reserved, Keep, MinTail, Preamble, SummarySize} \subseteq Nat
    /\ {MaxOverflows, MaxPrompts, MaxCalls, MaxFailures, MaxCommands, MaxRows} \subseteq Nat
    /\ Texts \subseteq Nat \ {0} /\ Outputs \subseteq Nat
    /\ Reserved <= Window /\ MinTail > 0
    /\ Reports \subseteq BOOLEAN /\ Reports # {}
    /\ Upsets \subseteq AllUpsets

VARIABLES
    rows,      \* the stored messages
    path,      \* the active path, as stored
    memory,    \* the active path, as the core's session has it
    anchor,    \* its last_usage
    run,       \* the running request
    tracker,   \* UsageTracker.last_request_tokens
    seen,      \* last_request_chars, 0 before the first call
    overflows, \* overflow_retries
    prompts, failures, commands \* how many so far

session == <<rows, path, memory, anchor>>
request == <<run, tracker, seen>>
bounds  == <<prompts, failures, commands>>
vars    == <<session, request, overflows, bounds>>

Usable == Window - Reserved

-----------------------------------------------------------------------------
(* Conversations                                                            *)

\* A measured cost, and the summary the request it was reported for opens
\* with: the second half is what no code knows.
NoUsage == [tokens |-> 0, under |-> 0]

\* (A recursive function: the folds of the library are slow to evaluate.)
Sum(s) == LET sum[n \in 0..Len(s)] == IF n = 0 THEN 0 ELSE sum[n - 1] + s[n] IN sum[Len(s)]

Row(kind, calls, text, usage, folds) ==
    [kind |-> kind, calls |-> calls, text |-> text, usage |-> usage, folds |-> folds]

Cost(id) == rows[id].text + Sum(rows[id].calls)

\* The messages a row is sent as: the calls of a reply, then its text.
Results(calls) == [i \in DOMAIN calls |-> [size |-> calls[i], tool |-> TRUE]]
Messages(row) == Results(row.calls) \o
    IF row.text = 0 THEN <<>> ELSE <<[size |-> row.text, tool |-> FALSE]>>

Size(messages) == Sum([i \in DOMAIN messages |-> messages[i].size])

\* The last of some places of a path, or 0.
Latest(places) ==
    IF places = {} THEN 0 ELSE CHOOSE i \in places : \A j \in places : j <= i

\* The place of the newest summary among the first `end` of a path, or 0.
Newest(p, end) == Latest({i \in 1..end : rows[p[i]].kind = "summary"})

\* What a path's first `end` messages are sent as: from the newest summary on.
HistoryUntil(p, end) ==
    SubSeq(p, IF Newest(p, end) = 0 THEN 1 ELSE Newest(p, end), end)

\* The summary a request opens with, or 0.
Opening(ids) == IF rows[Head(ids)].kind = "summary" THEN Head(ids) ELSE 0

\* What a loaded session takes for its last request: the usage of the last
\* reply behind the newest summary that has one.
LastUsage(p) ==
    LET n == Latest({i \in Newest(p, Len(p)) + 1..Len(p) : rows[p[i]].usage.tokens > 0})
    IN IF n = 0 THEN NoUsage ELSE rows[p[n]].usage

-----------------------------------------------------------------------------
(* Compaction                                                               *)

\* (Mutant: the span starts behind the previous summary.)
PlanStartPast(p) == Newest(p, Len(p)) + 1

\* Where the span to summarise starts and where the tail that is kept does.
PlanStart(p) == IF Newest(p, Len(p)) = 0 THEN 1 ELSE Newest(p, Len(p))

PlanCut(p) ==
    LET tail(i) == Sum([k \in 1..Len(p) - i + 1 |-> Cost(p[i + k - 1])])
        reach == {i \in PlanStart(p)..Len(p) : tail(i) >= Keep}
    IN IF reach = {} THEN Len(p) - MinTail + 1 ELSE Latest(reach)

HasPlan(p) == Len(p) > MinTail /\ PlanStart(p) < PlanCut(p)

\* The head is folded into a summary that takes its place before the tail.
Span(p) == {p[i] : i \in PlanStart(p)..PlanCut(p) - 1}
Summary(p) ==
    Row("summary", <<>>, SummarySize, NoUsage,
        Span(p) \union UNION {rows[id].folds : id \in Span(p)})
Spliced(p) ==
    SubSeq(p, 1, PlanCut(p) - 1) \o <<Len(rows) + 1>> \o SubSeq(p, PlanCut(p), Len(p))

-----------------------------------------------------------------------------
(* Requests                                                                 *)

Idle == [at |-> "idle", base |-> <<>>, reply |-> 0, own |-> <<>>, usage |-> NoUsage]

\* A request starts with what the session last measured, if it fits the model.
Start(base, reply, seed) ==
    /\ run' = [Idle EXCEPT !.at = "ready", !.base = base, !.reply = reply]
    /\ tracker' = IF seed.tokens <= Window THEN seed ELSE NoUsage
    /\ seen' = 0

Request ==
    FlattenSeq([i \in DOMAIN run.base |-> Messages(rows[run.base[i]])]) \o Results(run.own)

Forecast(size) ==
    IF tracker.tokens = 0 THEN size + Preamble
    ELSE LET n == tracker.tokens + size - (IF seen = 0 THEN size ELSE seen)
         IN IF n < 0 THEN 0 ELSE n

\* Old results are left out, but for the newest messages that fit the tail.
Trimmed(messages) ==
    LET n == Len(messages) - 1
        old(i) == i <= n /\ Size(SubSeq(messages, i, n)) > Keep
    IN [i \in DOMAIN messages |->
            IF messages[i].tool /\ old(i) THEN [messages[i] EXCEPT !.size = 0] ELSE messages[i]]

Sent(messages) == IF Forecast(Size(messages)) < Usable THEN messages ELSE Trimmed(messages)

Stop == tracker.tokens > Usable

Init ==
    /\ rows = <<>> /\ path = <<>> /\ memory = <<>> /\ anchor = NoUsage
    /\ run = Idle /\ tracker = NoUsage /\ seen = 0
    /\ overflows = 0
    /\ prompts = 0 /\ failures = 0 /\ commands = 0

-----------------------------------------------------------------------------
(* Commands                                                                 *)

\* SendMessage: the prompt joins the path, and the history before it is sent.
SendMessage ==
    /\ run.at = "idle" /\ prompts < MaxPrompts
    /\ \E size \in Texts :
        rows' = Append(rows, Row("prompt", <<>>, size, NoUsage, {}))
    /\ path' = Append(path, Len(rows'))
    /\ memory' = Append(memory, Len(rows'))
    /\ Start(Append(HistoryUntil(memory, Len(memory)), Len(rows')), 0, anchor)
    /\ prompts' = prompts + 1
    /\ UNCHANGED <<anchor, overflows, failures, commands>>

\* CompactSession: refused while busy; the session is reloaded behind it.
CompactSession ==
    /\ run.at = "idle" /\ commands < MaxCommands
    /\ HasPlan(path)
    /\ rows' = Append(rows, Summary(path))
    /\ path' = Spliced(path)
    /\ memory' = path'
    /\ anchor' = LastUsage(path)'
    /\ commands' = commands + 1
    /\ UNCHANGED <<request, overflows, prompts, failures>>

\* LoadSession, or a new process.
LoadSession ==
    /\ run.at = "idle" /\ commands < MaxCommands
    /\ memory' = path
    /\ anchor' = LastUsage(path)
    /\ overflows' = 0
    /\ commands' = commands + 1
    /\ UNCHANGED <<rows, path, request, prompts, failures>>

-----------------------------------------------------------------------------
(* A request                                                                *)

\* Whether the partial reply leaves the turn's prompt in the tail.
Short(calls) == "long" \in Upsets \/ Sum(calls) < Keep

Earlier == IF run.reply = 0 THEN <<>> ELSE rows[run.reply].calls

\* The hook stops the run, or the call is sent and the provider rejects it,
\* or takes it and may report what it cost.
CallModel ==
    /\ run.at = "ready"
    /\ \/ /\ Stop
          /\ run' = [run EXCEPT !.at = "stopped"]
          /\ UNCHANGED <<tracker, anchor, seen>>
       \/ /\ ~Stop
          /\ \E messages \in {Request} : \E size \in {Size(Sent(messages))} :
                LET usage == [tokens |-> size + Preamble, under |-> Opening(run.base)]
                IN /\ seen' = size
                   /\ \/ /\ usage.tokens > Window
                         /\ run' = [run EXCEPT !.at = "rejected"]
                         /\ UNCHANGED <<tracker, anchor>>
                      \/ /\ usage.tokens <= Window /\ TRUE \in Reports
                         /\ run' = [run EXCEPT !.at = "called", !.usage = usage]
                         /\ tracker' = usage
                         /\ anchor' = usage
                      \/ /\ usage.tokens <= Window /\ FALSE \in Reports
                         /\ run' = [run EXCEPT !.at = "called"]
                         /\ UNCHANGED <<tracker, anchor>>
    /\ UNCHANGED <<rows, path, memory, overflows, bounds>>

\* The model calls a tool, and the next call will send the result.
CallTool ==
    /\ run.at = "called"
    /\ Len(run.own) < MaxCalls \/ Stop
    /\ \E size \in Outputs :
        /\ Short(Earlier \o Append(run.own, size))
        /\ run' = [run EXCEPT !.at = "ready", !.own = Append(@, size)]
    /\ UNCHANGED <<session, tracker, seen, overflows, bounds>>

\* The reply row of this request: the one it continues, or a new one.
Reply == IF run.reply = 0 THEN Len(rows) + 1 ELSE run.reply

\* The row is written with what the request gathered; the path gets a new one.
Write(text, usage) ==
    LET row == Row("reply", Earlier \o run.own, text, usage, {})
    IN IF run.reply # 0
       THEN /\ rows' = [rows EXCEPT ![Reply] = row]
            /\ UNCHANGED <<path, memory>>
       ELSE /\ rows' = Append(rows, row)
            /\ path' = Append(path, Reply)
            /\ memory' = Append(memory, Reply)

\* persist_stream_error, persist_interrupted_turn: a request that produced
\* nothing leaves no row; the row has no usage.
Persist ==
    IF Earlier \o run.own = <<>> THEN UNCHANGED <<rows, path, memory>> ELSE Write(0, NoUsage)

\* The final text: the reply is committed with its last request's usage.
ReplyDone ==
    /\ run.at = "called"
    /\ "full" \in Upsets \/ run.usage.tokens <= Usable
    /\ \E size \in Texts : Write(size, run.usage)
    /\ run' = Idle
    /\ overflows' = 0
    /\ UNCHANGED <<anchor, tracker, seen, bounds>>

CancelStream ==
    /\ run.at \in {"ready", "called"} /\ commands < MaxCommands
    /\ Persist
    /\ run' = Idle
    /\ overflows' = 0
    /\ commands' = commands + 1
    /\ UNCHANGED <<anchor, tracker, seen, prompts, failures>>

\* The request fails; it is retried, or the retries are used up.
RequestFails ==
    /\ run.at \in {"ready", "called"} /\ failures < MaxFailures
    /\ run.at = "ready" => ~Stop
    /\ Persist
    /\ \/ run' = [run EXCEPT !.at = "failed"]
       \/ run' = Idle
    /\ failures' = failures + 1
    /\ UNCHANGED <<anchor, tracker, seen, overflows, prompts, commands>>

-----------------------------------------------------------------------------
(* Going on                                                                 *)

\* The terminal sequence of an overflow: the partial reply, then the summary.
PersistOverflow ==
    /\ run.at \in {"stopped", "rejected"}
    /\ Persist
    /\ run' = [run EXCEPT !.at = "compacting"]
    /\ UNCHANGED <<anchor, tracker, seen, overflows, bounds>>

CompactActivePath ==
    /\ run.at = "compacting"
    /\ \/ /\ HasPlan(path) /\ Len(rows) < MaxRows
          /\ rows' = Append(rows, Summary(path))
          /\ path' = Spliced(path)
          /\ run' = [run EXCEPT !.at = "compacted"]
          /\ UNCHANGED failures
       \/ /\ ~HasPlan(path)
          /\ run' = [run EXCEPT !.at = "over"]
          /\ UNCHANGED <<rows, path, failures>>
       \/ /\ HasPlan(path) /\ failures < MaxFailures
          /\ run' = [run EXCEPT !.at = "over"]
          /\ failures' = failures + 1
          /\ UNCHANGED <<rows, path>>
    /\ UNCHANGED <<memory, anchor, tracker, seen, overflows, prompts, commands>>

\* ResumePlan: the path goes out again as it is, if a prompt is among what is
\* sent of it; else the last prompt is replayed.
LastPrompt == Latest({i \in DOMAIN path : rows[path[i]].kind = "prompt"})

Continues ==
    /\ rows[Last(path)].kind # "prompt"
    /\ \E id \in ToSet(HistoryUntil(path, Len(path))) : rows[id].kind = "prompt"

ResumeBase ==
    IF Continues THEN HistoryUntil(path, Len(path))
    ELSE Append(HistoryUntil(path, LastPrompt - 1), path[LastPrompt])

\* (Mutant: the answer always gets a row of its own.)
ContinuationNone == 0

\* The row the answer goes into.
Continuation == IF rows[Last(path)].kind = "reply" THEN Last(path) ELSE 0

\* (Mutant: the turn is resumed without what a reload would say was measured.)
ResumeUnmeasured ==
    /\ memory' = path
    /\ anchor' = anchor
    /\ Start(ResumeBase, Continuation, anchor)
    /\ UNCHANGED <<rows, path>>

\* The session is loaded again, and the new request starts from it.
ResumeLastTurn ==
    /\ memory' = path
    /\ anchor' = LastUsage(path)
    /\ Start(ResumeBase, Continuation, anchor')
    /\ UNCHANGED <<rows, path>>

RetryFires ==
    /\ run.at = "failed"
    /\ ResumeLastTurn
    /\ UNCHANGED <<overflows, bounds>>

\* (Mutant: the turn goes on as often as it was compacted.)
HandleOverflowUncounted ==
    /\ run.at \in {"compacted", "over"}
    /\ \/ /\ run.at = "compacted"
          /\ ResumeLastTurn
       \/ /\ run.at = "over"
          /\ run' = Idle
          /\ UNCHANGED <<session, tracker, seen>>
    /\ overflows' = 0
    /\ UNCHANGED bounds

\* A turn that was compacted goes on, unless it was too often; one that could
\* not be ends, and the session in memory stays as it was.
HandleOverflow ==
    /\ run.at \in {"compacted", "over"}
    /\ \/ /\ run.at = "compacted" /\ overflows < MaxOverflows
          /\ overflows' = overflows + 1
          /\ ResumeLastTurn
       \/ /\ run.at = "over" \/ overflows = MaxOverflows
          /\ overflows' = 0
          /\ run' = Idle
          /\ UNCHANGED <<session, tracker, seen>>
    /\ UNCHANGED bounds

-----------------------------------------------------------------------------
User == SendMessage \/ CompactSession \/ LoadSession \/ CancelStream

Work == CallModel \/ CallTool \/ ReplyDone \/ RequestFails \/ RetryFires
        \/ PersistOverflow \/ CompactActivePath \/ HandleOverflow

Next == User \/ Work

Spec == Init /\ [][Next]_vars
FairSpec == Spec /\ WF_vars(Work)

-----------------------------------------------------------------------------
(* Properties                                                               *)

\* A request accounts for the whole conversation: every message of it is sent,
\* or folded into the summary that is, however often it was compacted.
RequestCovers ==
    run.at \in {"ready", "called"} =>
        \A id \in ToSet(memory) :
            \/ id \in ToSet(run.base)
            \/ \E s \in ToSet(run.base) : id \in rows[s].folds

\* A run is only stopped by a number that measures the conversation it was
\* about to send, not one that has been compacted since.
StopIsMeasured == run.at = "stopped" => tracker.under = Opening(run.base)

\* However often a turn is retried and compacted, it has one reply: between
\* two replies of the path there is a prompt.
OneReply ==
    \A i, j \in DOMAIN path :
        i < j /\ rows[path[i]].kind = "reply" /\ rows[path[j]].kind = "reply"
            => \E k \in i + 1..j - 1 : rows[path[k]].kind = "prompt"

\* A turn that is stopped and compacted again and again comes to an end.
Settles == []<>(run.at = "idle")
=============================================================================
