-------------------------------- MODULE Tabs --------------------------------
(* The agent tabs: one core task per tab, each with its own command and     *)
(* event channel; the App, which keeps one set of working slots and stages  *)
(* a tab's screen into them; and the render loop, which takes the cores'    *)
(* events one at a time, and spawns and stops cores.                        *)
(*                                                                          *)
(* A core's turns are the business of TurnLoop: here a turn only talks.     *)
(* What a screen shows of its reply is the number of stream events applied  *)
(* to it.  Scroll positions, scene sets and branch labels are left out.     *)
EXTENDS Integers, Sequences, FiniteSets, SequencesExt

CONSTANTS
    Tabs,           \* the tab ids the process hands out, 1..n in that order
    CommandBuffer,  \* COMMAND_BUFFER
    EventBuffer,    \* EVENT_BUFFER
    MaxActs,        \* bound: what the user does, besides changing tabs
    MaxSaid,        \* bound: the stream events a core sends
    MaxFaults,      \* bound: the listings of a store that fail
    Windows         \* the windows of AllWindows the run leaves open

\* "late": a tab is left while an answer it asked for is still on its way.
\* "full": a tab is closed while its core's event channel may fill.
\* "spawn": a tab is opened while a picked model is still on its way.
\* "flood": a pick is made while a command channel is full.
AllWindows == {"late", "full", "spawn", "flood"}

ASSUME TabsAssumption ==
    /\ Tabs = 1..Cardinality(Tabs) /\ IsFiniteSet(Tabs) /\ 1 \in Tabs
    /\ CommandBuffer \in Nat \ {0} /\ EventBuffer \in Nat \ {0}
    /\ MaxActs \in Nat /\ MaxSaid \in Nat /\ MaxFaults \in Nat
    /\ Windows \subseteq AllWindows

VARIABLES
    \* the App
    app,      \* the strip, the working slots, the parked screens
    overlay,  \* the dialog that has the keys
    picker,   \* the session picker: open, and the tab whose sessions it lists
    tree,     \* the tree popup: open, and the tab whose session it shows
    conn,     \* ctx.connections: the model the App read last
    \* the channels
    cmds, events,
    \* the cores and what they persist
    core, prefs, file,
    \* the render loop
    live,     \* Cores.live: the cores it holds a command sender of
    render,   \* whether it selects, or waits for a core to start or to stop
    \* history and bounds
    chosen,   \* the last model and code mode the user picked
    acts, faults

vars == <<app, overlay, picker, tree, conn, cmds, events, core, prefs, file, live, render,
          chosen, acts, faults>>
dialogs == <<overlay, picker, tree>>
saved   == <<prefs, file>>
cores   == <<core, prefs, file, faults>>
ui      == <<app, overlay, picker, tree, conn>>

Keys   == {"model", "codemode"}
Stream == {"turn", "token"}
Prefs  == [Keys -> 0..MaxActs]
NoTab  == 0
Screens  == [of : Tabs, heard : 0..MaxSaid, model : 0..MaxActs]
NoScreen == [of |-> NoTab]

Commands == [do : {"send", "list", "tree", "pick", "media", "cancel"}, from : Tabs]
            \cup [do : {"set"}, from : Tabs, key : Keys, value : 0..MaxActs]
Answers  == {"list", "tree", "reply", "saved"}

Apps  == [strip : Seq(Tabs), active : Tabs, slot : Screens,
          parked : [Tabs -> Screens \cup {NoScreen}], sender : Tabs, next : Nat]
Cores == [at : {"none", "up", "ending", "ended"}, turn : BOOLEAN,
          said : 0..MaxSaid, say : Seq(Stream \cup Answers)]

TypeOK ==
    /\ app \in Apps
    /\ overlay \in {"none", "picker", "tree"}
    /\ picker \in [open : BOOLEAN, list : Tabs \cup {NoTab}]
    /\ tree \in [open : BOOLEAN, of : Tabs \cup {NoTab}]
    /\ conn \in 0..MaxActs
    /\ cmds \in [Tabs -> Seq(Commands)] /\ \A t \in Tabs : Len(cmds[t]) <= CommandBuffer
    /\ events \in [Tabs -> Seq(Stream \cup Answers)] /\ \A t \in Tabs : Len(events[t]) <= EventBuffer
    /\ core \in [Tabs -> Cores]
    /\ prefs \in [Tabs -> Prefs] /\ file \in Prefs /\ chosen \in Prefs
    /\ live \subseteq Tabs
    /\ render \in [at : {"select", "spawning", "closing"}, tab : Tabs \cup {NoTab}]
    /\ acts \in 0..MaxActs /\ faults \in 0..MaxFaults

Screen(t, model) == [of |-> t, heard |-> 0, model |-> model]
Unset == [k \in Keys |-> 0]
NoCore == [at |-> "none", turn |-> FALSE, said |-> 0, say |-> <<>>]
Selecting == [at |-> "select", tab |-> NoTab]

Init ==
    /\ app = [strip |-> <<1>>, active |-> 1, slot |-> Screen(1, 0),
              parked |-> [t \in Tabs |-> NoScreen], sender |-> 1, next |-> 2]
    /\ overlay = "none"
    /\ picker = [open |-> FALSE, list |-> NoTab] /\ tree = [open |-> FALSE, of |-> NoTab]
    /\ conn = 0
    /\ cmds = [t \in Tabs |-> <<>>] /\ events = [t \in Tabs |-> <<>>]
    /\ core = [[t \in Tabs |-> NoCore] EXCEPT ![1].at = "up"]
    /\ prefs = [t \in Tabs |-> Unset] /\ file = Unset /\ chosen = Unset
    /\ live = {1} /\ render = Selecting
    /\ acts = 0 /\ faults = 0

----------------------------------------------------------------------------
(* The App's working slots.                                                 *)

Open == ToSet(app.strip)

\* stage and park: the tab left takes the slot's screen, the tab entered gives
\* its own up, and commands go to its core from here on.
SetActive(a, t) ==
    IF t = a.active \/ t \notin ToSet(a.strip) \/ a.parked[t] = NoScreen
    THEN a
    ELSE [a EXCEPT !.slot = a.parked[t], !.sender = t, !.active = t,
                   !.parked = [@ EXCEPT ![t] = NoScreen, ![a.active] = a.slot]]

OpenTab(a, t) ==
    SetActive([a EXCEPT !.strip = Append(@, t), !.parked[t] = Screen(t, conn),
                        !.next = @ + 1], t)

Position(strip, t) == CHOOSE i \in DOMAIN strip : strip[i] = t

\* The tab to the right takes the screen, or the one to the left of the last.
Neighbour(strip, t) ==
    LET at == Position(strip, t)
    IN IF at < Len(strip) THEN strip[at + 1] ELSE strip[at - 1]

\* Mutated form: the strip loses the tab while its screen and its sender are
\* still in the slots.
CloseTabWithoutLeaving(a, t) == [a EXCEPT !.strip = RemoveAt(@, Position(@, t))]

CloseTab(a, t) ==
    LET left == IF t = a.active THEN SetActive(a, Neighbour(a.strip, t)) ELSE a
    IN [left EXCEPT !.strip = RemoveAt(@, Position(@, t)), !.parked[t] = NoScreen]

\* Mutated form: a message of another tab lands on the screen in the slot.
HeardUnstaged(a, t) ==
    IF t \notin ToSet(a.strip) THEN a ELSE [a EXCEPT !.slot.heard = @ + 1]

\* apply_to_tab: the screen a message of tab t finds in the working slot.
\* One for a tab that was closed is dropped.
Heard(a, t) ==
    CASE t \notin ToSet(a.strip) -> a
      [] t = a.active            -> [a EXCEPT !.slot.heard = @ + 1]
      [] OTHER                   -> [a EXCEPT !.parked[t].heard = @ + 1]

\* Mutated form: staging leaves the sender alone.
StagedSenderUnswapped(t) == app.sender

\* The core a handler's commands go to while a message of tab t is applied.
StagedSender(t) == IF t = app.active THEN app.sender ELSE t

\* try_send: a full channel drops the command.
Sent(queues, t, cmd) ==
    IF Len(queues[t]) < CommandBuffer THEN [queues EXCEPT ![t] = Append(@, cmd)] ELSE queues

Room(t) == Len(cmds[t]) < CommandBuffer

Tell(t, event) ==
    /\ Len(events[t]) < EventBuffer
    /\ events' = [events EXCEPT ![t] = Append(@, event)]

----------------------------------------------------------------------------
(* The user.  A dialog swallows the keys, so a tab is left, opened and      *)
(* closed only with none open; nothing is read while the loop waits.        *)

Acts ==
    /\ render = Selecting /\ acts < MaxActs
    /\ acts' = acts + 1

\* Nothing the tab asked for is still to be answered.
Answered(t) ==
    /\ \A i \in DOMAIN cmds[t] : cmds[t][i].do \notin {"list", "tree"}
    /\ {"list", "tree"} \cap (ToSet(events[t]) \cup ToSet(core[t].say)) = {}

Leaves ==
    /\ render = Selecting /\ overlay = "none" /\ UNCHANGED acts
    /\ "late" \notin Windows => Answered(app.active)

\* Where the models picked stand in a command channel.
Picks(queue) == {i \in DOMAIN queue : queue[i].do = "set" /\ queue[i].key = "model"}

\* A picked model that some core has not read yet.
Picking == \E t \in Open : Picks(cmds[t]) # {}

\* Whatever the core may still say fits its channel.
LastWordsFit(t) ==
    Len(events[t]) + Len(core[t].say) + Len(cmds[t]) + MaxSaid - core[t].said + 1 <= EventBuffer

\* Alt+1..9, and the keys that cycle.
GotoTab ==
    \E t \in Open \ {app.active} :
        /\ Leaves
        /\ app' = SetActive(app, t)
        /\ UNCHANGED <<dialogs, conn, cmds, events, cores, live, render, chosen>>

\* /newtab: the loop waits for the spawner.
NewTab ==
    /\ Leaves /\ app.next \in Tabs
    /\ "spawn" \notin Windows => ~Picking
    /\ render' = [at |-> "spawning", tab |-> app.next]
    /\ UNCHANGED <<ui, cmds, events, cores, live, chosen>>

\* /closetab, and the effect it leaves: close_tab, then Cores::close, which
\* waits for the core with the loop's events unread.
CloseActive ==
    /\ Leaves /\ Len(app.strip) > 1
    /\ "full" \notin Windows => LastWordsFit(app.active)
    /\ LET t == app.active IN
       /\ app' = CloseTab(app, t)
       /\ cmds' = Sent(cmds, t, [do |-> "cancel", from |-> t])
       /\ live' = live \ {t}
       /\ render' = [at |-> "closing", tab |-> t]
    /\ UNCHANGED <<dialogs, conn, events, cores, chosen>>

\* A prompt of the screen in the slot.
Prompt ==
    /\ Acts /\ overlay = "none"
    /\ cmds' = Sent(cmds, app.sender, [do |-> "send", from |-> app.slot.of])
    /\ UNCHANGED <<ui, events, cores, live, render, chosen>>

OpenPicker ==
    /\ Acts /\ overlay = "none"
    /\ overlay' = "picker" /\ picker' = [open |-> TRUE, list |-> NoTab]
    /\ cmds' = Sent(cmds, app.sender, [do |-> "list", from |-> app.slot.of])
    /\ UNCHANGED <<app, tree, conn, events, cores, live, render, chosen>>

\* The popup opens when the answer comes.
OpenTree ==
    /\ Acts /\ overlay = "none"
    /\ cmds' = Sent(cmds, app.sender, [do |-> "tree", from |-> app.slot.of])
    /\ UNCHANGED <<ui, events, cores, live, render, chosen>>

\* close_overlay closes every dialog.
CloseOverlay ==
    /\ overlay' = "none"
    /\ picker' = [picker EXCEPT !.open = FALSE] /\ tree' = [tree EXCEPT !.open = FALSE]

Dismiss ==
    /\ render = Selecting /\ overlay # "none" /\ CloseOverlay
    /\ UNCHANGED <<app, conn, cmds, events, cores, live, render, chosen, acts>>

\* A session of the list, or a node of the tree to fork from: the command
\* names what the core that answered knows.
PickSession ==
    /\ Acts /\ overlay = "picker" /\ picker.list # NoTab /\ CloseOverlay
    /\ cmds' = Sent(cmds, app.sender, [do |-> "pick", from |-> picker.list])
    /\ UNCHANGED <<app, conn, events, cores, live, render, chosen>>

Fork ==
    /\ Acts /\ overlay = "tree" /\ CloseOverlay
    /\ cmds' = Sent(cmds, app.sender, [do |-> "pick", from |-> tree.of])
    /\ UNCHANGED <<app, conn, events, cores, live, render, chosen>>

DeleteBranch ==
    /\ Acts /\ overlay = "tree"
    /\ cmds' = Sent(cmds, app.sender, [do |-> "pick", from |-> tree.of])
    /\ UNCHANGED <<ui, events, cores, live, render, chosen>>

Setting(t, key, value) == [do |-> "set", from |-> t, key |-> key, value |-> value]

\* Mutated form: the pick goes to the core of the tab on screen only.
SentToActive(key, value) == Sent(cmds, app.sender, Setting(app.sender, key, value))

\* send_all: every other tab through its own sender, this one through ctx.
SentAll(key, value) ==
    LET to == {t \in Open : t # app.active} \cup {app.sender}
    IN [t \in Tabs |-> IF t \in to THEN Sent(cmds, t, Setting(t, key, value))[t] ELSE cmds[t]]

Flooded == "flood" \notin Windows /\ \E t \in Open : ~Room(t)

PickModel ==
    /\ Acts /\ overlay = "none" /\ ~Flooded
    /\ chosen' = [chosen EXCEPT !["model"] = acts + 1]
    /\ cmds' = SentAll("model", acts + 1)
    /\ UNCHANGED <<ui, events, cores, live, render>>

\* The code mode switches go to the core of the tab on screen only.
SetCodemode ==
    /\ Acts /\ overlay = "none" /\ ~Flooded
    /\ chosen' = [chosen EXCEPT !["codemode"] = acts + 1]
    /\ cmds' = Sent(cmds, app.sender, Setting(app.sender, "codemode", acts + 1))
    /\ UNCHANGED <<ui, events, cores, live, render>>

----------------------------------------------------------------------------
(* A core.  Its handlers run one at a time and wait for room in the event   *)
(* channel before the next; its turn is a task of its own on that channel.  *)

Takes(t, do) ==
    /\ core[t].at = "up" /\ core[t].say = <<>>
    /\ cmds[t] # <<>> /\ Head(cmds[t]).do = do
    /\ cmds' = [cmds EXCEPT ![t] = Tail(@)]

Says(t, event) == core' = [core EXCEPT ![t].say = Append(@, event)]

\* SendMessage: a turn starts, or the prompt waits behind the one that runs.
TakeSend(t) ==
    /\ Takes(t, "send")
    /\ IF core[t].turn \/ core[t].said = MaxSaid
       THEN UNCHANGED core
       ELSE core' = [core EXCEPT ![t].turn = TRUE, ![t].say = Append(@, "turn"), ![t].said = @ + 1]
    /\ UNCHANGED <<ui, events, prefs, file, faults, live, render, chosen, acts>>

TakeList(t) ==
    /\ Takes(t, "list")
    /\ \/ Says(t, "list") /\ UNCHANGED faults
       \/ Says(t, "reply") /\ faults < MaxFaults /\ faults' = faults + 1
    /\ UNCHANGED <<ui, events, saved, live, render, chosen, acts>>

TakeTree(t) ==
    /\ Takes(t, "tree") /\ Says(t, "tree")
    /\ UNCHANGED <<ui, events, saved, faults, live, render, chosen, acts>>

\* LoadSession, ForkSession, DeleteBranch, LoadAttachmentMedia.
TakePick(t) ==
    /\ \E do \in {"pick", "media"} : Takes(t, do)
    /\ Says(t, "reply")
    /\ UNCHANGED <<ui, events, saved, faults, live, render, chosen, acts>>

\* persist writes the whole of what this core holds.
TakeSet(t) ==
    /\ Takes(t, "set")
    /\ LET cmd == Head(cmds[t]) IN prefs' = [prefs EXCEPT ![t][cmd.key] = cmd.value]
    /\ file' = prefs'[t]
    /\ Says(t, "saved")
    /\ UNCHANGED <<ui, events, faults, live, render, chosen, acts>>

\* CancelStream: the run is asked to stop at its next boundary.
TakeCancel(t) ==
    /\ Takes(t, "cancel")
    /\ UNCHANGED <<ui, events, cores, live, render, chosen, acts>>

\* The handler's send goes through.
Say(t) ==
    /\ core[t].say # <<>> /\ Tell(t, Head(core[t].say))
    /\ core' = [core EXCEPT ![t].say = Tail(@)]
    /\ UNCHANGED <<ui, cmds, saved, faults, live, render, chosen, acts>>

\* The turn is announced before its task starts.
Starting(t) == "turn" \in ToSet(core[t].say)

\* The turn's task: it talks, and may do so after its core has ended.
Token(t) ==
    /\ core[t].turn /\ core[t].said < MaxSaid /\ ~Starting(t) /\ Tell(t, "token")
    /\ core' = [core EXCEPT ![t].said = @ + 1]
    /\ UNCHANGED <<ui, cmds, saved, faults, live, render, chosen, acts>>

TurnEnds(t) ==
    /\ core[t].turn /\ ~Starting(t)
    /\ core' = [core EXCEPT ![t].turn = FALSE]
    /\ UNCHANGED <<ui, cmds, events, saved, faults, live, render, chosen, acts>>

\* Every sender of the command channel is gone.
Closed(t) == t \notin live /\ t \notin Open /\ app.sender # t

\* The closed channel: the turn is cut and the cut announced; one inside its
\* terminal sequence is left to land, for two seconds at most.
CutAndEnd(t) ==
    /\ core[t].at = "up" /\ core[t].say = <<>> /\ cmds[t] = <<>> /\ Closed(t)
    /\ \/ /\ core[t].turn
          /\ core' = [core EXCEPT ![t].at = "ending", ![t].turn = FALSE, ![t].say = <<"reply">>]
       \/ core' = [core EXCEPT ![t].at = "ending"]
    /\ UNCHANGED <<ui, cmds, events, saved, faults, live, render, chosen, acts>>

End(t) ==
    /\ core[t].at = "ending" /\ core[t].say = <<>>
    /\ core' = [core EXCEPT ![t].at = "ended"]
    /\ UNCHANGED <<ui, cmds, events, saved, faults, live, render, chosen, acts>>

----------------------------------------------------------------------------
(* The render loop.                                                         *)

Reads(t, kinds) ==
    /\ render = Selecting /\ events[t] # <<>> /\ Head(events[t]) \in kinds
    /\ events' = [events EXCEPT ![t] = Tail(@)]

\* A stream event belongs to its tab.  The message that starts a turn has the
\* screen ask for the media of the prompt.
ReadStream(t) ==
    /\ Reads(t, Stream)
    /\ app' = Heard(app, t)
    /\ cmds' = IF Head(events[t]) = "turn" /\ t \in Open
               THEN Sent(cmds, StagedSender(t), [do |-> "media", from |-> t])
               ELSE cmds
    /\ UNCHANGED <<dialogs, conn, cores, live, render, chosen, acts>>

ReadReply(t) ==
    /\ Reads(t, {"reply"})
    /\ UNCHANGED <<ui, cmds, cores, live, render, chosen, acts>>

\* The answers to interactive commands are not wrapped in a tab.
ReadList(t) ==
    /\ Reads(t, {"list"})
    /\ picker' = [picker EXCEPT !.list = t]
    /\ UNCHANGED <<app, overlay, tree, conn, cmds, cores, live, render, chosen, acts>>

ReadTree(t) ==
    /\ Reads(t, {"tree"})
    /\ tree' = [open |-> TRUE, of |-> t]
    /\ overlay' = IF tree.open THEN overlay ELSE "tree"
    /\ UNCHANGED <<app, picker, conn, cmds, cores, live, render, chosen, acts>>

\* ConfigSaved: the file is read again, and the screen in the slot told.
ReadSaved(t) ==
    /\ Reads(t, {"saved"})
    /\ conn' = file["model"] /\ app' = [app EXCEPT !.slot.model = file["model"]]
    /\ UNCHANGED <<dialogs, cmds, cores, live, render, chosen, acts>>

\* The open picker is listed again every two seconds.
PickerRefresh ==
    /\ render = Selecting /\ picker.open
    /\ Room(app.sender)
    /\ cmds' = Sent(cmds, app.sender, [do |-> "list", from |-> app.slot.of])
    /\ UNCHANGED <<ui, events, cores, live, render, chosen, acts>>

\* The new core starts on the connections file as it is.
Spawned ==
    /\ render.at = "spawning"
    /\ LET t == render.tab IN
       /\ app' = OpenTab(app, t)
       /\ core' = [core EXCEPT ![t].at = "up"]
       /\ prefs' = [prefs EXCEPT ![t] = file]
       /\ live' = live \cup {t}
    /\ render' = Selecting
    /\ UNCHANGED <<dialogs, conn, cmds, events, file, faults, chosen, acts>>

SpawnFails ==
    /\ render.at = "spawning" /\ render' = Selecting
    /\ UNCHANGED <<ui, cmds, events, cores, live, chosen, acts>>

\* Cores::close: the core's task was joined.
Joined ==
    /\ render.at = "closing" /\ core[render.tab].at = "ended"
    /\ render' = Selecting
    /\ UNCHANGED <<ui, cmds, events, cores, live, chosen, acts>>

User ==
    \/ GotoTab \/ NewTab \/ CloseActive \/ Prompt \/ OpenPicker \/ OpenTree \/ Dismiss
    \/ PickSession \/ Fork \/ DeleteBranch \/ PickModel \/ SetCodemode
CoreStep(t) ==
    \/ TakeSend(t) \/ TakeList(t) \/ TakeTree(t) \/ TakePick(t) \/ TakeSet(t) \/ TakeCancel(t)
    \/ Say(t) \/ Token(t) \/ TurnEnds(t) \/ CutAndEnd(t) \/ End(t)
Read(t) == ReadStream(t) \/ ReadReply(t) \/ ReadList(t) \/ ReadTree(t) \/ ReadSaved(t)
LoopStep == Spawned \/ SpawnFails \/ Joined

Next == User \/ PickerRefresh \/ LoopStep \/ \E t \in Tabs : CoreStep(t) \/ Read(t)

Spec == Init /\ [][Next]_vars

\* The tasks run, the loop takes every channel's events in turn, the timer of
\* the open picker fires; the user owes nothing.
FairSpec ==
    /\ Spec
    /\ \A t \in Tabs : WF_vars(CoreStep(t)) /\ WF_vars(Say(t)) /\ WF_vars(Read(t))
    /\ WF_vars(LoopStep) /\ WF_vars(PickerRefresh)

----------------------------------------------------------------------------
(* Properties.                                                              *)

ScreenOf(a, t) == IF t = a.active THEN a.slot ELSE a.parked[t]
Said(queue) == Cardinality({i \in DOMAIN queue : queue[i] \in Stream})

\* The screen of every open tab is its own, the slots hold the active one and
\* its core's sender, and each screen has been told all its own core said and
\* nothing another core said, but for what is still in the channel: staging a
\* background tab, switching and closing lose and mix up nothing.
OwnStream ==
    /\ app.active \in Open /\ app.sender = app.active
    /\ \A t \in Open :
        /\ ScreenOf(app, t) # NoScreen /\ ScreenOf(app, t).of = t
        /\ ScreenOf(app, t).heard + Said(events[t]) + Said(core[t].say) = core[t].said

\* A command a core is to take was typed on that core's screen, or names what
\* that core itself listed: a prompt, a fork or a deletion never reaches the
\* session of another tab.
CommandsAtHome == \A t \in Tabs : \A i \in DOMAIN cmds[t] : cmds[t][i].from = t

\* What a core's model will be once its handlers have caught up.
ModelToBe(t) ==
    IF Picks(cmds[t]) = {} THEN prefs[t]["model"] ELSE cmds[t][Max(Picks(cmds[t]))].value

\* Every open tab's next turn runs on the model the user picked last, also a
\* tab opened later, and once no pick is on its way so does the saved file.
PicksReachAll ==
    /\ \A t \in Open : ModelToBe(t) = chosen["model"]
    /\ ~Picking /\ render.at # "closing" => file["model"] = chosen["model"]

\* A tab that is closed is stopped and the loop takes keys and events again.
CloseEnds == (render.at = "closing") ~> (render.at = "select")

\* The model the screen in the slot shows is the one its core runs on, once
\* every pick was taken and every saved file read.
SidebarTrue ==
    (/\ ~Picking
     /\ \A t \in Tabs : "saved" \notin ToSet(events[t]) \cup ToSet(core[t].say))
    => app.slot.model = prefs[app.active]["model"]

\* Once every setting was taken, the files hold what the user set last.
ChoiceKept ==
    (\A t \in Tabs : \A i \in DOMAIN cmds[t] : cmds[t][i].do # "set") => file = chosen

----------------------------------------------------------------------------
(* What the steps keep.                                                     *)

\* The strip names each tab once, the slots hold the active one's, and every
\* other tab has its own screen parked.
Staged(a) ==
    /\ IsInjective(a.strip) /\ \A t \in ToSet(a.strip) : t < a.next
    /\ a.active \in ToSet(a.strip) /\ a.sender = a.active /\ a.slot.of = a.active
    /\ \A t \in ToSet(a.strip) \ {a.active} : a.parked[t] \in Screens /\ a.parked[t].of = t

\* A tab not handed out yet has nothing, an open one has a core that runs.
StripInv ==
    /\ Staged(app)
    /\ \A t \in Open : core[t].at = "up"
    /\ \A t \in Tabs : t >= app.next
          => core[t] = NoCore /\ events[t] = <<>> /\ cmds[t] = <<>>
    /\ render.at = "spawning" => render.tab = app.next /\ render.tab \in Tabs
    /\ render.at = "closing" => render.tab \in Tabs \ Open
    /\ overlay = "tree" => tree.of \in Tabs

\* OwnStream's count, which bounds what the type says a screen heard.
StreamInv ==
    \A t \in Open :
        ScreenOf(app, t).heard + Said(events[t]) + Said(core[t].say) = core[t].said

\* Only the active tab has an answer to wait for, and none while the loop
\* waits; what a dialog shows is the active tab's.
AnswersInv ==
    /\ \A t \in Tabs : t # app.active \/ render.at = "spawning" => Answered(t)
    /\ overlay = "picker" => picker.list \in {NoTab, app.active}
    /\ overlay = "tree" => tree.of = app.active
    /\ render.at # "select" => overlay = "none"

\* The tabs whose cores still take commands.
Held == Open \cup (IF render.at = "closing" THEN {render.tab} ELSE {})

\* A core that runs on held and has the queue to take ends on model.
Settles(queue, held, model) ==
    \/ Picks(queue) = {} /\ held = model
    \/ \E i \in Picks(queue) : (\A j \in Picks(queue) : j <= i) /\ queue[i].value = model

\* The models a core is still to take end with the one picked last, and the
\* core that takes the last pick leaves it in the file.
PicksInv ==
    /\ \A t \in Held : Settles(cmds[t], prefs[t]["model"], chosen["model"])
    /\ \A t \in Tabs \ Held : core[t].at # "up"
    /\ \A t \in Tabs : core[t].at # "up" \/ render.at = "spawning" => Picks(cmds[t]) = {}
    /\ (\A t \in Tabs : Picks(cmds[t]) = {}) => file["model"] = chosen["model"]
=============================================================================
