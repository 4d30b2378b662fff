----------------------------- MODULE ToolBatch -----------------------------
(* One batch of tool calls of an assistant message, from the request that   *)
(* asks for it to the end of the run: rig, which starts the calls; the      *)
(* workers, whose own calls run inside theirs; the stream loop of the core, *)
(* which merges what they report, tells the screen what runs and records    *)
(* it; and the permission asks the calls may pause on.                      *)
(*                                                                          *)
(* The calls run inside the poll of the merged stream, so none of them      *)
(* moves while the stream loop handles an item.  The core's run loop, which *)
(* carries asks, cancels and steering, runs beside both.                    *)
EXTENDS Integers, SequencesExt

CONSTANTS
    Batch,   \* the manager's calls, in call order
    Inside,  \* the worker calls among them, each with the calls it makes
    Slots,   \* tool_concurrency
    Asking,  \* the calls a permission rule may pause
    Denied,  \* the calls a permission rule may deny
    Hidden,  \* NONE: no call
    Acts     \* what the user may do, besides answering

Manager == {Batch[i] : i \in DOMAIN Batch}
Workers == DOMAIN Inside
Inner   == UNION {{Inside[w][i] : i \in DOMAIN Inside[w]} : w \in Workers}
Calls   == Manager \cup Inner
AllActs == {"steer", "cancel", "abort"}

ASSUME ToolBatchAssumption ==
    /\ Batch \in Seq(Manager) /\ \A w \in Workers : Inside[w] \in Seq(Inner)
    /\ Workers \subseteq Manager /\ Manager \cap Inner = {} /\ Hidden \notin Calls
    \* a call id names one call
    /\ IsInjective(Batch)
    /\ \A v, w \in Workers : \A i \in DOMAIN Inside[v], j \in DOMAIN Inside[w] :
           Inside[v][i] = Inside[w][j] => v = w /\ i = j
    /\ Slots \in Nat \ {0} /\ Asking \cup Denied \subseteq Calls \ Workers
    /\ Acts \subseteq AllActs

VARIABLES
    \* rig and the tools it runs
    stage,    \* where the run's request is
    phase,    \* where each call is
    pipes,    \* the parts of the merged stream: what each has yet to yield
    \* the run's handles, shared with the run loop
    cancel,   \* FlowControl.cancel
    armed,    \* a steered prompt waits to cut in
    deny,     \* DenyCut
    \* the stream loop
    core,     \* where it is: it polls the stream, or is inside the handler of
              \* an item, or inside the cut for a denial
    hand,     \* the call of the item it handles
    gate,     \* ToolGate: the calls of each batch that run, and that wait
    open,     \* TurnState.pending_tools
    rows,     \* the tool calls recorded on the reply's row: the ones kept with
              \* a result, and how often each is there as one that never returned
    action,   \* ActionPhase of the main stream
    done,     \* the final item was seen
    end,      \* how the run ended
    \* the run loop and the screen
    asks,     \* the permission channel
    pending,  \* pending_permissions
    popup,    \* the ask the screen shows
    shown,    \* what the screen says of each call
    refused   \* history: the calls a rule or the user denied

rig    == <<stage, phase>>
loop   == <<core, hand, gate, open, rows, action, done, end, shown>>
flags  == <<cancel, armed, deny>>
prompt == <<asks, pending, popup>>
vars   == <<rig, pipes, flags, loop, prompt, refused>>

Sources == {"main", "early", "activity"}
Kinds   == {"start", "result", "text", "done", "fail", "stop"}

TypeOK ==
    /\ stage \in {"request", "tools", "over"}
    /\ phase \in [Calls -> {"unsaid", "said", "runs", "asks", "freed", "refused", "back"}]
    /\ pipes \in [Sources -> Seq([kind : Kinds, call : Calls \cup {Hidden}])]
    /\ cancel \in BOOLEAN /\ armed \in BOOLEAN /\ deny \in BOOLEAN
    /\ core \in {"poll", "check", "started", "written", "settled", "cut"}
    /\ hand \in Calls \cup {Hidden}
    /\ gate \in [Workers \cup {Hidden} -> [running : SUBSET Calls, queued : Seq(Calls)]]
    /\ \A o \in DOMAIN gate : IsFiniteSet(gate[o].running) /\ Cardinality(gate[o].running) <= Slots
    /\ open \subseteq Calls /\ rows \in [kept : Seq(Calls), killed : [Calls -> Nat]]
    /\ action \in {"fresh", "text", "tools", "between"} /\ done \in BOOLEAN
    /\ end \in {"running", "finished", "preempted", "denied", "failed", "cancelled", "aborted"}
    /\ asks \in Seq(Asking) /\ pending \subseteq Asking /\ popup \in Asking \cup {Hidden}
    /\ shown \in [Calls -> {"hidden", "waiting", "running", "finished"}]
    /\ refused \subseteq Calls

Item(k, c) == [kind |-> k, call |-> c]

(* The worker whose run a call belongs to; the manager's calls have none.   *)
Owner(c) == IF c \in Manager THEN Hidden ELSE CHOOSE w \in Workers :
                \E i \in DOMAIN Inside[w] : Inside[w][i] = c

Siblings(c) == IF c \in Manager THEN Batch ELSE Inside[Owner(c)]

Earlier(c) == LET s == Siblings(c) IN
    {s[i] : i \in {j \in DOMAIN s : \A k \in 1..j : s[k] # c}}

-----------------------------------------------------------------------------
(* rig                                                                      *)

Polled == end = "running" /\ core = "poll"

(* A model request.  A cancelled run makes none; the first asks for the     *)
(* batch, the next one, once the batch has settled, for the rest.           *)
Request ==
    /\ Polled /\ pipes["main"] = <<>>
    /\ stage = "request" \/ (stage = "tools" /\ \A c \in Manager : phase[c] = "back")
    /\ IF cancel
       THEN /\ stage' = "over" /\ UNCHANGED phase
            /\ pipes' = [pipes EXCEPT !["main"] = <<Item("stop", Hidden)>>]
       ELSE IF stage = "request"
       THEN /\ stage' = "tools"
            /\ phase' = [c \in Calls |-> IF c \in Manager THEN "said" ELSE phase[c]]
            /\ pipes' = [pipes EXCEPT !["main"] =
                   [i \in DOMAIN Batch |-> Item("start", Batch[i])]]
       ELSE /\ stage' = "over" /\ UNCHANGED phase
            /\ \E last \in {"done", "fail"} : pipes' = [pipes EXCEPT !["main"] =
                   <<Item("text", Hidden), Item(last, Hidden)>>]
    /\ UNCHANGED <<flags, loop, prompt, refused>>

(* The flag is also read while the request streams, before any call starts. *)
Halt ==
    /\ Polled /\ cancel /\ stage # "request"
    /\ pipes["main"] # <<>> /\ Head(pipes["main"]).kind \in {"start", "text"}
    /\ stage' = "over" /\ pipes' = [pipes EXCEPT !["main"] = <<Item("stop", Hidden)>>]
    /\ UNCHANGED <<phase, flags, loop, prompt, refused>>

(* The result of a call is reported the moment the call returns: the        *)
(* manager's on the early channel, a worker's own on its activity channel.  *)
Report(k, c) ==
    LET src == IF c \in Manager THEN "early" ELSE "activity" IN
    pipes' = [pipes EXCEPT ![src] = Append(@, Item(k, c))]

Width(c) == IF c \in Manager THEN Slots ELSE 1

InHand(c) == phase[c] \in {"runs", "asks", "freed", "refused"}

(* rig starts calls in call order, as slots are free, once the stream has   *)
(* yielded all of them.  Only the manager's run looks at the cancel flag.   *)
Turn(c) ==
    /\ phase[c] = "said" /\ \A d \in Earlier(c) : phase[d] # "said"
    /\ Cardinality({d \in Earlier(c) : InHand(d)}) < Width(c)

Dispatch(c) ==
    /\ Polled /\ Turn(c)
    /\ IF c \in Manager THEN pipes["main"] = <<>> ELSE phase[Owner(c)] = "runs"
    /\ IF cancel /\ c \in Manager
       THEN phase' = [phase EXCEPT ![c] = "back"] /\ Report("result", c)
       ELSE phase' = [phase EXCEPT ![c] = "runs"] /\ UNCHANGED pipes
    /\ UNCHANGED <<stage, flags, loop, prompt, refused>>

(* run_worker_agent: the worker's model asks for its calls.                 *)
WorkerTurn(w) ==
    /\ Polled /\ phase[w] = "runs"
    /\ \A i \in DOMAIN Inside[w] : phase[Inside[w][i]] = "unsaid"
    /\ phase' = [c \in Calls |-> IF Owner(c) = w THEN "said" ELSE phase[c]]
    /\ pipes' = [pipes EXCEPT !["activity"] =
           @ \o [i \in DOMAIN Inside[w] |-> Item("start", Inside[w][i])]]
    /\ UNCHANGED <<stage, flags, loop, prompt, refused>>

(* The worker's run fails between two of its calls: the turn is told, and   *)
(* its call returns.                                                        *)
WorkerFails(w) ==
    /\ Polled /\ phase[w] = "runs"
    /\ \A i \in DOMAIN Inside[w] : ~InHand(Inside[w][i])
    /\ phase' = [phase EXCEPT ![w] = "back"]
    /\ pipes' = [pipes EXCEPT !["activity"] = Append(@, Item("fail", Hidden)),
                              !["early"] = Append(@, Item("result", w))]
    /\ UNCHANGED <<stage, flags, loop, prompt, refused>>

(* PermissionGate::request: the call waits for an answer.                   *)
Ask(c) ==
    /\ Polled /\ c \in Asking /\ phase[c] = "runs"
    /\ phase' = [phase EXCEPT ![c] = "asks"] /\ asks' = Append(asks, c)
    /\ UNCHANGED <<stage, pipes, flags, loop, pending, popup, refused>>

(* A call returns; a denied one sets the cut with it.                       *)
Return(c) ==
    /\ Polled
    /\ \/ phase[c] \in {"freed", "refused"}
       \/ /\ phase[c] = "runs" /\ c \notin Asking
          /\ c \in Workers => \A i \in DOMAIN Inside[c] : phase[Inside[c][i]] = "back"
    /\ \E no \in {phase[c] = "refused", c \in Denied} :
           /\ phase[c] = "refused" => no
           /\ deny' = (deny \/ no)
           /\ refused' = IF no THEN refused \cup {c} ELSE refused
    /\ phase' = [phase EXCEPT ![c] = "back"] /\ Report("result", c)
    /\ UNCHANGED <<stage, cancel, armed, loop, prompt>>

-----------------------------------------------------------------------------
(* The stream loop                                                          *)

Without(s, c) == IF c \in ToSet(s) THEN RemoveAt(s, CHOOSE i \in DOMAIN s : s[i] = c) ELSE s

(* ToolGate::start.                                                         *)
GateStart(c) == LET q == gate[Owner(c)] IN
    IF Cardinality(q.running) < Slots THEN [q EXCEPT !.running = @ \cup {c}]
                                      ELSE [q EXCEPT !.queued = Append(@, c)]

(* ToolGate::settle: the slot goes to the call that has waited longest.     *)
\* Mutated form: it goes to the newest.
GateSettleNewest(c) ==
    LET q    == gate[Owner(c)]
        rest == [running |-> q.running \ {c}, queued |-> Without(q.queued, c)]
        n    == Len(rest.queued)
    IN IF n = 0 \/ Cardinality(rest.running) >= Slots THEN rest
       ELSE [running |-> rest.running \cup {rest.queued[n]},
             queued  |-> SubSeq(rest.queued, 1, n - 1)]

GateSettle(c) ==
    LET q    == gate[Owner(c)]
        rest == [running |-> q.running \ {c}, queued |-> Without(q.queued, c)]
    IN IF rest.queued = <<>> \/ Cardinality(rest.running) >= Slots THEN rest
       ELSE [running |-> rest.running \cup {Head(rest.queued)},
             queued  |-> Tail(rest.queued)]

(* What the screen says of a call once the gate has this of its batch.      *)
Told(g, c) == CASE c \in g.running        -> "running"
                [] c \in ToSet(g.queued)  -> "waiting"
                [] OTHER                  -> shown[c]

(* A row for every call of the set, as one that was killed.                 *)
Killed(calls) == [c \in Calls |-> rows.killed[c] + IF c \in calls THEN 1 ELSE 0]

(* The run is over: the calls that never returned are recorded as killed.   *)
End(how, calls) == end' = how /\ rows' = [rows EXCEPT !.killed = Killed(calls)]

(* Only a cancelled, preempted or denied turn closes the popup.             *)
\* Mutated form: a result closes it.
PopupAfterOnce(k) == IF k \in {"stop", "cut", "result"} THEN Hidden ELSE popup

PopupAfter(k) == IF k \in {"stop", "cut"} THEN Hidden ELSE popup

(* starts_action_after_boundary.                                            *)
Boundary(i) ==
    \/ action \in {"text", "between"} /\ i.kind = "start" /\ i.call \in Manager
    \/ action = "between" /\ i.kind = "text"

(* A call starts: it is one a cut would record before the screen hears.     *)
Started(c) ==
    /\ open' = open \cup {c} /\ gate' = [gate EXCEPT ![Owner(c)] = GateStart(c)]
    /\ core' = "started" /\ hand' = c /\ UNCHANGED <<rows, action, done, end, shown>>

\* Mutated form: a call stays among the ones that have not returned.
StillOpenAfter(c) == open

StillOpen(c) == open \ {c}

(* The main stream is between actions when none of its calls is out.        *)
\* Mutated form: the worker calls are not looked at.
SettledButWorkers(s) == s \cap (Manager \ Workers) = {}

Settled(s) == s \cap Manager = {}

(* The call is out of TurnState and of its gate; the screen has yet to hear.*)
Leave(c) ==
    /\ open' = StillOpen(c) /\ gate' = [gate EXCEPT ![Owner(c)] = GateSettle(c)]
    /\ core' = "settled" /\ UNCHANGED <<action, done, end, shown>>

(* A result.  Its row is written while the call is still one that a cut     *)
(* would record; a worker's call has no row.                                *)
Finished(c) ==
    /\ hand' = c
    /\ \/ c \in Workers /\ Leave(c) /\ UNCHANGED rows
       \/ /\ c \notin Workers /\ rows' = [rows EXCEPT !.kept = Append(@, c)]
          /\ core' = "written" /\ UNCHANGED <<gate, open, action, done, end, shown>>

(* The next item of one of the merged streams.                              *)
Take(src) ==
    /\ Polled /\ pipes[src] # <<>>
    /\ pipes' = [pipes EXCEPT ![src] = Tail(@)]
    /\ \E i \in {Head(pipes[src])} :
        /\ popup' = PopupAfter(IF Boundary(i) /\ armed THEN "cut" ELSE i.kind)
        /\ IF Boundary(i) /\ armed
           THEN End("preempted", open) /\ UNCHANGED <<core, hand, gate, open, action, done, shown>>
           ELSE \/ i.kind = "start" /\ Started(i.call)
                \/ i.kind = "result" /\ Finished(i.call)
                \/ /\ core' = "check"
                   /\ \/ /\ i.kind = "text" /\ action' = "text"
                         /\ UNCHANGED <<rows, done, end>>
                      \/ /\ i.kind = "done" /\ done' = TRUE
                         /\ UNCHANGED <<rows, action, end>>
                      \/ /\ i.kind = "fail" /\ End("failed", open)
                         /\ UNCHANGED <<action, done>>
                      \/ /\ i.kind = "stop" /\ End("cancelled", open)
                         /\ UNCHANGED <<action, done>>
                   /\ UNCHANGED <<hand, gate, open, shown>>
    /\ UNCHANGED <<rig, flags, asks, pending, refused>>

(* Behind the row of a result: turn_state's lock, then the gate.            *)
Settle ==
    /\ end = "running" /\ core = "written" /\ Leave(hand)
    /\ UNCHANGED <<rig, pipes, flags, prompt, refused, hand, rows>>

(* The screen hears of the call in hand, and of the one that got its slot.  *)
Tell ==
    /\ end = "running" /\ core \in {"started", "settled"}
    /\ core' = "check" /\ hand' = Hidden
    /\ LET now == gate[Owner(hand)] IN
       IF core = "started"
       THEN /\ shown' = [shown EXCEPT ![hand] = Told(now, hand)]
            /\ action' = IF hand \in Manager THEN "tools" ELSE action
       ELSE /\ shown' = [d \in Calls |->
                   IF d = hand THEN "finished"
                   ELSE IF Owner(d) = Owner(hand) THEN Told(now, d) ELSE shown[d]]
            /\ action' = IF hand \notin Manager THEN action
                         ELSE IF Settled(open) THEN "between" ELSE "tools"
    /\ UNCHANGED <<rig, pipes, flags, prompt, refused, gate, open, rows, done, end>>

(* The checks behind every item: a settled batch lets a steered prompt in,  *)
(* a denial ends the turn.                                                  *)
SteerDue == ~done /\ action = "between" /\ open \cap Inner = {} /\ armed

Check ==
    /\ end = "running" /\ core = "check"
    /\ IF SteerDue THEN End("preempted", open) /\ popup' = PopupAfter("cut")
                   ELSE UNCHANGED <<rows, end, popup>>
    /\ LET denied == deny /\ ~done /\ ~SteerDue IN
       /\ core' = IF denied THEN "cut" ELSE "poll"
       /\ deny' = (deny /\ ~denied)
    /\ UNCHANGED <<rig, pipes, cancel, armed, hand, gate, open, action, done, shown,
                   asks, pending, refused>>

(* The cut for a denial writes a row for every call that is out, one at a   *)
(* time (the code in the order they started), and is not safe from an abort.*)
Cut ==
    /\ end = "running" /\ core = "cut"
    /\ \E c \in open : rows.killed[c] = 0 /\ rows' = [rows EXCEPT !.killed = Killed({c})]
    /\ UNCHANGED <<rig, pipes, flags, prompt, refused, core, hand, gate, open, action,
                   done, end, shown>>

CutEnd ==
    /\ end = "running" /\ core = "cut" /\ \A c \in open : rows.killed[c] # 0
    /\ end' = "denied" /\ core' = "poll" /\ popup' = PopupAfter("cut")
    /\ UNCHANGED <<rig, pipes, flags, asks, pending, refused, hand, gate, open, rows,
                   action, done, shown>>

(* The streams are exhausted behind the final item: the reply is committed. *)
Commit ==
    /\ Polled /\ done /\ stage = "over" /\ \A s \in Sources : pipes[s] = <<>>
    /\ \A c \in Calls : ~InHand(c)
    /\ end' = "finished"
    /\ UNCHANGED <<rig, pipes, flags, core, hand, gate, open, rows, action, done, shown,
                   prompt, refused>>

-----------------------------------------------------------------------------
(* The run loop, the screen and its user                                    *)

(* An ask comes out of the channel, whether its run is still alive or not,  *)
(* and the screen shows it in place of the one it showed.                   *)
HearAsk ==
    /\ asks # <<>> /\ asks' = Tail(asks)
    /\ pending' = pending \cup {Head(asks)} /\ popup' = Head(asks)
    /\ UNCHANGED <<rig, pipes, flags, loop, refused>>

(* The user answers what the screen shows.                                  *)
Answer ==
    /\ popup # Hidden /\ popup' = Hidden /\ pending' = pending \ {popup}
    /\ \E how \in {"freed", "refused"} :
           phase' = IF popup \in pending THEN [phase EXCEPT ![popup] = how] ELSE phase
    /\ UNCHANGED <<stage, pipes, flags, loop, asks, refused>>

(* CancelStream: every ask heard so far comes back unanswered.              *)
Cancel ==
    /\ "cancel" \in Acts /\ end = "running" /\ ~cancel /\ cancel' = TRUE
    /\ phase' = [c \in Calls |-> IF c \in pending THEN "freed" ELSE phase[c]]
    /\ pending' = {}
    /\ UNCHANGED <<stage, pipes, armed, deny, loop, asks, popup, refused>>

(* A prompt is steered while the run works.                                 *)
Steer ==
    /\ "steer" \in Acts /\ end = "running" /\ ~armed /\ armed' = TRUE
    /\ UNCHANGED <<rig, pipes, cancel, deny, loop, prompt, refused>>

(* cut_running_stream, when the grace of a cancel is over.  It lands at any *)
(* await of the stream loop, inside a handler or the cut for a denial too,  *)
(* and records what TurnState has; only a run in its terminal sequence is   *)
(* left alone.  (The look at that flag and the abort are one step here;     *)
(* TurnLoop has them apart.)                                                *)
Abort ==
    /\ "abort" \in Acts /\ end = "running" /\ cancel /\ ~done
    /\ End("aborted", open) /\ pending' = {} /\ popup' = PopupAfter("cut")
    /\ UNCHANGED <<rig, pipes, flags, core, hand, gate, open, action, done, shown, asks,
                   refused>>

-----------------------------------------------------------------------------

Init ==
    /\ stage = "request" /\ phase = [c \in Calls |-> "unsaid"]
    /\ pipes = [s \in Sources |-> <<>>]
    /\ cancel = FALSE /\ armed = FALSE /\ deny = FALSE
    /\ core = "poll" /\ hand = Hidden /\ open = {}
    /\ rows = [kept |-> <<>>, killed |-> [c \in Calls |-> 0]]
    /\ gate = [o \in Workers \cup {Hidden} |-> [running |-> {}, queued |-> <<>>]]
    /\ action = "fresh" /\ done = FALSE /\ end = "running"
    /\ asks = <<>> /\ pending = {} /\ popup = Hidden
    /\ shown = [c \in Calls |-> "hidden"] /\ refused = {}

Rig ==
    \/ Request \/ Halt
    \/ \E c \in Calls : Dispatch(c) \/ Ask(c) \/ Return(c)
    \/ \E w \in Workers : WorkerTurn(w) \/ WorkerFails(w)

Stream == Settle \/ Tell \/ Check \/ Cut \/ CutEnd \/ Commit \/ \E s \in Sources : Take(s)

Next == Rig \/ Stream \/ HearAsk \/ Answer \/ Cancel \/ Steer \/ Abort

Spec == Init /\ [][Next]_vars

(* The runtime polls what is ready; a tool returns, and the user answers.   *)
FairSpec == Spec /\ WF_vars(Rig) /\ WF_vars(Stream) /\ WF_vars(HearAsk) /\ WF_vars(Answer)

-----------------------------------------------------------------------------
(* Properties                                                               *)

(* A result is on its way: in a channel, or in the stream loop's hand.      *)
Reported(c) ==
    \/ core \in {"written", "settled"} /\ hand = c
    \/ \E s \in Sources : \E i \in DOMAIN pipes[s] : pipes[s][i] = Item("result", c)

(* The screen tells running calls from waiting ones as rig does: a call it  *)
(* shows running has been started, or is the one rig starts next; one it    *)
(* shows waiting is behind a call that is out, or whose result is on its    *)
(* way.  (Of the manager's batch: the batch of a worker, which rig runs one *)
(* by one, is given as many slots.)                                         *)
ShownTrue == end = "running" => \A c \in Manager :
    LET out == {d \in Earlier(c) : phase[d] # "back"} IN
    /\ shown[c] = "running" => phase[c] # "said" \/ Cardinality(out) < Slots
    /\ shown[c] = "waiting" =>
           Cardinality(out \cup {d \in Earlier(c) : Reported(d)}) >= Slots

(* What the stream loop has done of a call, told or not.                    *)
Asked(c)   == shown[c] # "hidden" \/ (core = "started" /\ hand = c)
Heard(c)   == shown[c] = "finished" \/ (core = "settled" /\ hand = c)
Written(c) == Heard(c) \/ (core = "written" /\ hand = c)
Kept(c)    == Cardinality({i \in DOMAIN rows.kept : rows.kept[i] = c})

(* Every call the stream loop has heard of is on the reply's row when the   *)
(* run is over: one row if its result was heard, one as killed if it was    *)
(* not, and two only where an abort tore the loop: between the row of a     *)
(* result and the lock behind it, or inside the cut for a denial.  (A       *)
(* worker's call has no row when it returned; its own calls have.)          *)
RecordedOnce == end # "running" => \A c \in Calls :
    /\ Kept(c) = IF c \notin Workers /\ Written(c) THEN 1 ELSE 0
    /\ IF Asked(c) /\ ~Heard(c)
       THEN rows.killed[c] \in 1..(IF core = "cut" THEN 2 ELSE 1)
       ELSE rows.killed[c] = 0

(* What the code's comments promise, without the two: one row.  An abort    *)
(* breaks it (tools_torn.cfg).                                              *)
OneRecord == \A c \in Calls : Kept(c) + rows.killed[c] <= 1

(* A steered prompt cuts in between actions: it never kills a call.         *)
SteerKillsNothing == end = "preempted" => \A c \in Manager : rows.killed[c] = 0

(* A call that asks is answered in the end, or its run is over.             *)
AskSettles == \A c \in Asking : phase[c] = "asks" ~> phase[c] # "asks" \/ end # "running"

(* A turn that ends with a denial has the denied call's result on its row:  *)
(* the reason stays visible.                                                *)
DenialShown == end = "denied" =>
    \A c \in refused : \E i \in DOMAIN rows.kept : rows.kept[i] = c
=============================================================================
