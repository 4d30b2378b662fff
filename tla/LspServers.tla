----------------------------- MODULE LspServers -----------------------------
(* The language servers of one core: the LspManager behind its mutex, the   *)
(* server processes it starts, stops and listens to, the tool calls that    *)
(* use it (edit and write, lsp start/stop/restart, lsp analyze) and the     *)
(* core's run loop, which pumps what the servers publish and drops the ones *)
(* that stopped.                                                            *)
(*                                                                          *)
(* A file's content is a version number; a server's diagnostics are those   *)
(* of the version it computed them from.                                    *)
EXTENDS Integers, Sequences, FiniteSets, SequencesExt

CONSTANTS
    Langs,       \* the configured languages
    AutoStart,   \* those whose server starts with the first edit of a file
    LangOf,      \* the files, each with its language
    Faulty,      \* the versions a server finds problems in
    Calls,       \* the tool calls that may run at a time
    Loop,        \* the run loop
    MaxVersion,  \* bound: the edits of a file
    MaxAsks,     \* bound: the calls made and the commands given
    MaxProcs,    \* bound: the processes started
    MaxCrashes,  \* bound: the servers that die by themselves
    MaxAborts,   \* bound: the calls dropped with their run
    Windows      \* the windows of AllWindows the run leaves open

\* "deaf": a server that never answers initialize.
\* "abort": a call is dropped between its write and its notification.
AllWindows == {"deaf", "abort"}
Files  == DOMAIN LangOf
Actors == Calls \cup {Loop}
Procs  == 1..MaxProcs

ASSUME LspAssumption ==
    /\ AutoStart \subseteq Langs /\ \A f \in Files : LangOf[f] \in Langs
    /\ Loop \notin Calls /\ Files # {}
    /\ MaxVersion \in Nat \ {0} /\ Faulty \subseteq 1..MaxVersion
    /\ MaxProcs \in Nat /\ MaxAsks \in Nat /\ MaxCrashes \in Nat /\ MaxAborts \in Nat
    /\ Windows \subseteq AllWindows

VARIABLES
    disk,     \* the version of each file
    queue,    \* the manager's mutex: its holder, then those that wait
    actor,    \* each call, and the run loop
    servers,  \* LspManager.servers: the process of each language, 0 for none
    proc,     \* the processes, with what each was told and has published
    channel,  \* the diagnostics published and not yet pumped
    diags,    \* LspManager.diagnostics: the version they are of, 0 for none
    asks, crashes, aborts

vars == <<disk, queue, actor, servers, proc, channel, diags, asks, crashes, aborts>>
bounds == <<asks, crashes, aborts>>

NoProc    == 0
Version   == 0..MaxVersion
FileOps   == {"edit", "analyze"}
ServerOps == {"start", "stop", "restart"}
Phases    == {"idle", "armed", "lock", "ensure", "init", "ready", "stopping", "over", "poll",
              "look", "done", "gone"}
AliveAs   == {"starting", "deaf", "up", "stopping"}

ActorStates == [op : FileOps \cup ServerOps \cup {"none", "pump", "quit"}, file : Files,
                lang : Langs, at : Phases, proc : Procs \cup {NoProc}, version : Version,
                got : Version]
ProcStates  == [lang : Langs, at : AliveAs \cup {"none", "crashed", "dead"},
                docs : SUBSET Files, has : [Files -> Version], published : [Files -> Version]]

TypeOK ==
    /\ disk \in [Files -> 1..MaxVersion]
    /\ queue \in Seq(Actors) /\ IsInjective(queue)
    /\ actor \in [Actors -> ActorStates]
    /\ servers \in [Langs -> Procs \cup {NoProc}]
    /\ proc \in [Procs -> ProcStates]
    /\ channel \in Seq([file : Files, version : Version])
    /\ diags \in [Files -> Version]
    /\ asks \in 0..MaxAsks /\ crashes \in 0..MaxCrashes /\ aborts \in 0..MaxAborts

Nothing == [f \in Files |-> 0]
Idle == [op |-> "none", file |-> CHOOSE f \in Files : TRUE, lang |-> CHOOSE l \in Langs : TRUE,
         at |-> "idle", proc |-> NoProc, version |-> 0, got |-> 0]

Init ==
    /\ disk = [f \in Files |-> 1] /\ queue = <<>>
    /\ actor = [a \in Actors |-> Idle]
    /\ servers = [l \in Langs |-> NoProc]
    /\ proc = [p \in Procs |-> [lang |-> CHOOSE l \in Langs : TRUE, at |-> "none", docs |-> {},
                                has |-> Nothing, published |-> Nothing]]
    /\ channel = <<>> /\ diags = Nothing
    /\ asks = 0 /\ crashes = 0 /\ aborts = 0

----------------------------------------------------------------------------
(* The mutex, and the phases of the calls that hold it.                     *)

Holds(a) == queue # <<>> /\ Head(queue) = a
At(a, phase) == actor[a].at = phase
Waits(a)   == queue' = Append(queue, a)
Releases   == queue' = Tail(queue)
Moves(a, phase) == actor' = [actor EXCEPT ![a].at = phase]
Finishes(a) == actor' = [actor EXCEPT ![a] = Idle]

Begin(a, op, file, lang, version) ==
    /\ At(a, "idle") /\ asks < MaxAsks /\ asks' = asks + 1
    /\ actor' = [actor EXCEPT ![a] = [Idle EXCEPT !.op = op, !.file = file, !.lang = lang,
                                                  !.at = "lock", !.version = version]]
    /\ Waits(a)

\* edit_file, write_file, apply_patch: the file's lock is held to the end, and
\* the content on disk before the manager hears of it.
Edit(a) ==
    \E f \in Files :
        /\ \A b \in Calls : ~(actor[b].op = "edit" /\ actor[b].file = f)
        /\ disk[f] < MaxVersion /\ disk' = [disk EXCEPT ![f] = @ + 1]
        /\ Begin(a, "edit", f, LangOf[f], disk'[f])
        /\ UNCHANGED <<servers, proc, channel, diags, crashes, aborts>>

Analyze(a) ==
    \E f \in Files :
        /\ Begin(a, "analyze", f, LangOf[f], 0)
        /\ UNCHANGED <<disk, servers, proc, channel, diags, crashes, aborts>>

\* The lsp tool's start, stop and restart, and the run loop's commands.
Manage(a) ==
    \E op \in ServerOps, l \in Langs :
        /\ Begin(a, op, Idle.file, l, 0)
        /\ UNCHANGED <<disk, servers, proc, channel, diags, crashes, aborts>>

----------------------------------------------------------------------------
(* What the manager does under its mutex.                                   *)

Lang(a) == actor[a].lang
\* on_file_change, of a language that does not start by itself.
Ignored(a) == actor[a].op = "edit" /\ Lang(a) \notin AutoStart
Free == {p \in Procs : proc[p].at = "none"}

\* start, and the starts of on_file_change and analyze: a server in the map
\* counts as running; else the process is spawned and asked to initialize.
Ensure(a) ==
    /\ Holds(a)
    /\ \/ At(a, "lock") /\ actor[a].op \in FileOps \cup {"start"}
       \/ At(a, "ensure")
    /\ \/ /\ servers[Lang(a)] # NoProc /\ ~Ignored(a) /\ Moves(a, "ready")
          /\ UNCHANGED proc
       \/ /\ servers[Lang(a)] = NoProc /\ ~Ignored(a) /\ Free # {}
          /\ LET p == CHOOSE q \in Free : TRUE IN
             /\ \E at \in {"starting"} \cup (IF "deaf" \in Windows THEN {"deaf"} ELSE {}) :
                    proc' = [proc EXCEPT ![p].at = at, ![p].lang = Lang(a)]
             /\ actor' = [actor EXCEPT ![a].at = "init", ![a].proc = p]
       \/ /\ (Ignored(a) \/ servers[Lang(a)] = NoProc) /\ Moves(a, "over")
          /\ UNCHANGED proc
    /\ UNCHANGED <<disk, queue, servers, channel, diags, bounds>>

Initialized(a) ==
    /\ At(a, "init") /\ proc[actor[a].proc].at = "starting"
    /\ servers' = [servers EXCEPT ![Lang(a)] = actor[a].proc]
    /\ proc' = [proc EXCEPT ![actor[a].proc].at = "up"]
    /\ actor' = [actor EXCEPT ![a].at = "ready", ![a].proc = NoProc]
    /\ UNCHANGED <<disk, queue, channel, diags, bounds>>

\* Mutated form: the server whose initialize failed is left running.
InitFailsLeaving(a) ==
    /\ At(a, "init") /\ proc[actor[a].proc].at = "starting"
    /\ actor' = [actor EXCEPT ![a].at = "over", ![a].proc = NoProc]
    /\ UNCHANGED <<disk, queue, servers, proc, channel, diags, bounds>>

\* The Server is dropped, and kills its child.
InitFails(a) ==
    /\ At(a, "init") /\ proc[actor[a].proc].at = "starting"
    /\ proc' = [proc EXCEPT ![actor[a].proc].at = "dead"]
    /\ actor' = [actor EXCEPT ![a].at = "over", ![a].proc = NoProc]
    /\ UNCHANGED <<disk, queue, servers, channel, diags, bounds>>

\* did_change: only a document that was opened is told of.
Change(p, f, version) ==
    IF proc[p].at = "up" /\ f \in proc[p].docs
    THEN [proc EXCEPT ![p].has[f] = version] ELSE proc

\* did_open: a document opened before is told of its change.  A socket whose
\* process is gone takes the call and nothing comes of it.
OpenDoc(p, f, version) ==
    IF proc[p].at = "up"
    THEN [proc EXCEPT ![p].docs = @ \cup {f}, ![p].has[f] = version]
    ELSE [proc EXCEPT ![p].docs = @ \cup {f}]

NotifyEdit(a) ==
    /\ At(a, "ready") /\ actor[a].op = "edit"
    /\ proc' = Change(servers[Lang(a)], actor[a].file, actor[a].version)
    /\ Releases /\ Finishes(a)
    /\ UNCHANGED <<disk, servers, channel, diags, bounds>>

\* Mutated form: the file is opened once, and what it holds later is not sent.
OpensOnce(a) ==
    /\ At(a, "ready") /\ actor[a].op = "analyze"
    /\ LET f == actor[a].file p == servers[Lang(a)] IN
       /\ proc' = IF f \in proc[p].docs THEN proc ELSE OpenDoc(p, f, 1)
       /\ actor' = [actor EXCEPT ![a].at = "poll", ![a].version = disk[f]]
    /\ Releases
    /\ UNCHANGED <<disk, servers, channel, diags, bounds>>

Opens(a) ==
    /\ At(a, "ready") /\ actor[a].op = "analyze"
    /\ LET f == actor[a].file p == servers[Lang(a)] IN
       /\ proc' = OpenDoc(p, f, disk[f])
       /\ actor' = [actor EXCEPT ![a].at = "poll", ![a].version = disk[f]]
    /\ Releases
    /\ UNCHANGED <<disk, servers, channel, diags, bounds>>

\* stop takes the server out of the map, then waits for it to be gone.
Stop(a) ==
    /\ Holds(a) /\ At(a, "lock") /\ actor[a].op \in {"stop", "restart"}
    /\ LET p == servers[Lang(a)] IN
       /\ servers' = [servers EXCEPT ![Lang(a)] = NoProc]
       /\ proc' = IF p # NoProc /\ proc[p].at = "up"
                 THEN [proc EXCEPT ![p].at = "stopping"] ELSE proc
       /\ actor' = [actor EXCEPT ![a].at = "stopping", ![a].proc = p]
    /\ UNCHANGED <<disk, queue, channel, diags, bounds>>

\* Mutated form: shutdown is waited for as long as it takes, and a server
\* that died does not answer.
KilledOnceAnswered(a) ==
    /\ At(a, "stopping")
    /\ actor[a].proc # NoProc => proc[actor[a].proc].at = "stopping"
    /\ proc' = IF actor[a].proc = NoProc THEN proc
              ELSE [proc EXCEPT ![actor[a].proc].at = "dead"]
    /\ actor' = [actor EXCEPT ![a].at = IF actor[a].op = "stop" THEN "over" ELSE "ensure",
                              ![a].proc = NoProc]
    /\ UNCHANGED <<disk, queue, servers, channel, diags, bounds>>

\* shutdown, with two seconds to answer; then the kill.
Killed(a) ==
    /\ At(a, "stopping")
    /\ proc' = IF actor[a].proc = NoProc THEN proc
              ELSE [proc EXCEPT ![actor[a].proc].at = "dead"]
    /\ actor' = [actor EXCEPT ![a].at = IF actor[a].op = "stop" THEN "over" ELSE "ensure",
                              ![a].proc = NoProc]
    /\ UNCHANGED <<disk, queue, servers, channel, diags, bounds>>

\* start, stop and restart are over, and whatever could not be started.
Leave(a) ==
    /\ At(a, "over") \/ (At(a, "ready") /\ actor[a].op \in ServerOps)
    /\ Releases /\ Finishes(a)
    /\ UNCHANGED <<disk, servers, proc, channel, diags, bounds>>

----------------------------------------------------------------------------
(* analyze polls the manager's map, the mutex free between its polls.       *)

Poll(a) ==
    /\ At(a, "poll") /\ Waits(a) /\ Moves(a, "look")
    /\ UNCHANGED <<disk, servers, proc, channel, diags, bounds>>

Look(a) ==
    /\ At(a, "look") /\ Holds(a) /\ Releases
    /\ LET found == diags[actor[a].file] IN
       actor' = [actor EXCEPT ![a].at = IF found = 0 THEN "poll" ELSE "done", ![a].got = found]
    /\ UNCHANGED <<disk, servers, proc, channel, diags, bounds>>

\* ANALYZE_TIMEOUT has passed.
GiveUp(a) ==
    /\ At(a, "look") /\ Holds(a) /\ Releases
    /\ diags[actor[a].file] = 0 /\ Moves(a, "done")
    /\ UNCHANGED <<disk, servers, proc, channel, diags, bounds>>

Return(a) ==
    /\ At(a, "done") /\ Finishes(a)
    /\ UNCHANGED <<disk, queue, servers, proc, channel, diags, bounds>>

\* The processes a dropped call held die with it.
Dropped(as) ==
    [p \in Procs |-> IF \E a \in as : actor[a].proc = p THEN [proc[p] EXCEPT !.at = "dead"] ELSE proc[p]]

\* The run is aborted: its call's future is dropped where it waits.
Abort(a) ==
    /\ actor[a].at \notin {"idle", "gone"} /\ aborts < MaxAborts /\ aborts' = aborts + 1
    /\ "abort" \notin Windows => actor[a].op # "edit"
    /\ proc' = Dropped({a}) /\ Finishes(a)
    /\ \/ \E i \in DOMAIN queue : queue[i] = a /\ queue' = RemoveAt(queue, i)
       \/ (\A i \in DOMAIN queue : queue[i] # a) /\ UNCHANGED queue
    /\ UNCHANGED <<disk, servers, channel, diags, asks, crashes>>

----------------------------------------------------------------------------
(* The run loop.  Its pump is a branch of the select, polled while a server *)
(* runs: the condition is read when the select is entered, with try_lock,   *)
(* and the mutex waited for once the timer has fired.                       *)

Arm ==
    /\ At(Loop, "idle") /\ queue = <<>> /\ \E l \in Langs : servers[l] # NoProc
    /\ Moves(Loop, "armed")
    /\ UNCHANGED <<disk, queue, servers, proc, channel, diags, bounds>>

Tick ==
    /\ At(Loop, "armed") /\ Waits(Loop)
    /\ actor' = [actor EXCEPT ![Loop].at = "lock", ![Loop].op = "pump"]
    /\ UNCHANGED <<disk, servers, proc, channel, diags, bounds>>

\* Another branch of the select is taken: a command, or any other work.
Otherwise ==
    /\ At(Loop, "armed") /\ Finishes(Loop)
    /\ UNCHANGED <<disk, queue, servers, proc, channel, diags, bounds>>

\* A report without problems clears the file's entry.
Verdict(version) == IF version \in Faulty THEN version ELSE 0

Reports(f) == {i \in DOMAIN channel : channel[i].file = f}

\* Mutated form: a report without problems leaves the file's entry.
PumpedKeeping ==
    [f \in Files |->
        LET found == {i \in Reports(f) : Verdict(channel[i].version) # 0}
        IN IF found = {} THEN diags[f] ELSE Verdict(channel[Max(found)].version)]

\* pump_diagnostics: every report in the channel, in order; the last of a file
\* is what is left of it.
Pumped ==
    [f \in Files |-> IF Reports(f) = {} THEN diags[f]
                    ELSE Verdict(channel[Max(Reports(f))].version)]

Crashed(l) == servers[l] # NoProc /\ proc[servers[l]].at = "crashed"

\* take_exited.
Exited == {l \in Langs : Crashed(l)}

Pump ==
    /\ Holds(Loop) /\ At(Loop, "lock") /\ actor[Loop].op = "pump"
    /\ diags' = Pumped /\ channel' = <<>>
    /\ servers' = [l \in Langs |-> IF l \in Exited THEN NoProc ELSE servers[l]]
    /\ Releases /\ Finishes(Loop)
    /\ UNCHANGED <<disk, proc, bounds>>

\* The command channel is closed: the run is cut, and every server stopped.
Quit ==
    /\ At(Loop, "idle")
    /\ actor' = [a \in Actors |-> IF a = Loop THEN [Idle EXCEPT !.op = "quit", !.at = "lock"]
                                  ELSE [Idle EXCEPT !.at = "gone"]]
    /\ proc' = Dropped(Calls) /\ queue' = <<Loop>>
    /\ UNCHANGED <<disk, servers, channel, diags, bounds>>

ShutdownAll ==
    /\ At(Loop, "lock") /\ actor[Loop].op = "quit"
    /\ proc' = [p \in Procs |-> IF \E l \in Langs : servers[l] = p
                                THEN [proc[p] EXCEPT !.at = "dead"] ELSE proc[p]]
    /\ servers' = [l \in Langs |-> NoProc]
    /\ Releases /\ Moves(Loop, "gone")
    /\ UNCHANGED <<disk, channel, diags, bounds>>

----------------------------------------------------------------------------
(* The server processes.                                                    *)

\* A document's diagnostics are published for the content the server has.
Publish(p) ==
    \E f \in proc[p].docs :
        /\ proc[p].at = "up" /\ proc[p].published[f] # proc[p].has[f]
        /\ channel' = Append(channel, [file |-> f, version |-> proc[p].has[f]])
        /\ proc' = [proc EXCEPT ![p].published[f] = proc[p].has[f]]
        /\ UNCHANGED <<disk, queue, actor, servers, diags, bounds>>

\* The main loop of a server that dies ends with an error.
Crash(p) ==
    /\ proc[p].at = "up" /\ crashes < MaxCrashes /\ crashes' = crashes + 1
    /\ proc' = [proc EXCEPT ![p].at = "crashed"]
    /\ UNCHANGED <<disk, queue, actor, servers, channel, diags, asks, aborts>>

----------------------------------------------------------------------------
Asks(a) == Edit(a) \/ Analyze(a) \/ Manage(a)
Works(a) ==
    \/ Ensure(a) \/ Initialized(a) \/ InitFails(a) \/ NotifyEdit(a) \/ Opens(a)
    \/ Stop(a) \/ Killed(a) \/ Leave(a) \/ Poll(a) \/ Look(a) \/ Return(a)
\* The run loop, past its select.
Serves == Works(Loop) \/ Pump \/ ShutdownAll

Next ==
    \/ \E a \in Calls : Asks(a) \/ Works(a) \/ GiveUp(a) \/ Abort(a)
    \/ Manage(Loop) \/ Arm \/ Tick \/ Otherwise \/ Serves \/ Quit
    \/ \E p \in Procs : Publish(p) \/ Crash(p)

Spec == Init /\ [][Next]_vars

\* The tasks run and the timers fire; a server publishes in the end, and one
\* that is not deaf answers; nobody owes a call, a crash or an abort.
FairSpec ==
    /\ Spec
    /\ \A a \in Calls : WF_vars(Works(a))
    /\ SF_vars(\E a \in Calls : GiveUp(a))
    /\ SF_vars(Arm) /\ SF_vars(Tick) /\ WF_vars(Serves)
    /\ \A p \in Procs : WF_vars(Publish(p))

----------------------------------------------------------------------------
(* Properties.                                                              *)

Alive(p) == proc[p].at \in AliveAs

\* A server process that runs is in the manager's map, or in the hands of the
\* call that holds the manager; each language has one at most; after the
\* shutdown there is none.
NoOrphan ==
    /\ \A p \in Procs : Alive(p) =>
        servers[proc[p].lang] = p \/ (queue # <<>> /\ actor[Head(queue)].proc = p)
    /\ \A p, q \in Procs : Alive(p) /\ Alive(q) /\ proc[p].lang = proc[q].lang => p = q
    /\ At(Loop, "gone") => \A p \in Procs : ~Alive(p)

\* The content a running server has of a document it was opened is the file's,
\* but while an edit of that file is still to tell it.
InStep ==
    actor[Loop].op # "quit" => \A l \in Langs : servers[l] # NoProc =>
        LET p == proc[servers[l]] IN
        p.at = "up" => \A f \in p.docs :
            p.has[f] = disk[f] \/ \E a \in Calls : actor[a].op = "edit" /\ actor[a].file = f

\* What the running server was last told of f; 0 for nothing.
Told(f) ==
    LET p == servers[LangOf[f]]
    IN IF p # NoProc /\ proc[p].at = "up" /\ f \in proc[p].docs THEN proc[p].has[f] ELSE 0

\* What a running server finds in the content it was told reaches the
\* manager's map, whatever was in the map before, and a file it finds clean
\* leaves it.
Reported ==
    \A f \in Files :
        (Told(f) # 0) ~> (Told(f) = 0 \/ diags[f] = Verdict(Told(f)) \/ At(Loop, "gone"))

\* The run loop gets the manager whenever it waits for it, and comes back to
\* its select, where it takes the user's cancel.
LoopReturns == (actor[Loop].at \notin {"idle", "armed", "gone"}) ~> (actor[Loop].at \in {"idle", "armed", "gone"})

\* What analyze returns was found in the content it showed the server.
AnalyzeFresh == \A a \in Calls : At(a, "done") => actor[a].got \in {0, actor[a].version}

\* A running server has been told of every file that was edited while it ran:
\* what it has of a document nobody opened is not the business of an edit.
EditSeen ==
    \A a \in Calls : (At(a, "ready") /\ actor[a].op = "edit") =>
        actor[a].file \in proc[servers[Lang(a)]].docs

(***************************************************************************)
(* The inductive invariants behind NoOrphan and InStep.                    *)
(***************************************************************************)
\* The phases that wait for the mutex or hold it, and those that hold it.
Inside  == {"ensure", "init", "ready", "stopping", "over"}
Waiting == {"lock", "look"} \cup Inside

InLine(a) == \E i \in DOMAIN queue : queue[i] = a

OnlyLoopQuits == \A a \in Calls : actor[a].op # "quit"

\* Who waits is in the line once, and only its head is past the mutex.
LineInv ==
    /\ \A a \in Actors : InLine(a) <=> actor[a].at \in Waiting
    /\ \A a \in Actors : actor[a].at \in Inside => Holds(a)
    /\ actor[Loop].op = "quit" => /\ actor[Loop].at \in {"lock", "gone"}
                                  /\ \A a \in Calls : actor[a] = [Idle EXCEPT !.at = "gone"]
    /\ actor[Loop].at = "gone" => actor[Loop].op = "quit"
    /\ OnlyLoopQuits

\* A call has a process in its hands while it starts or stops the server of its
\* language, which the map does not have meanwhile.
HandsOf(a) ==
    /\ actor[a].proc # NoProc => actor[a].at \in {"init", "stopping"}
    /\ actor[a].proc # NoProc => proc[actor[a].proc].lang = Lang(a)
    /\ actor[a].at \in {"init", "stopping"} => servers[Lang(a)] = NoProc
    /\ actor[a].at = "init" =>
        actor[a].proc # NoProc /\ proc[actor[a].proc].at \in {"starting", "deaf"}
    /\ actor[a].at = "stopping" /\ actor[a].proc # NoProc =>
        proc[actor[a].proc].at \in {"stopping", "crashed"}
    /\ actor[a].at = "ready" => servers[Lang(a)] # NoProc
HandsInv == \A a \in Actors : HandsOf(a)

\* The map has the servers that came up, and where a process is shows in its
\* state.
MapOf(l) ==
    servers[l] # NoProc =>
        proc[servers[l]].lang = l /\ proc[servers[l]].at \in {"up", "crashed"}
PlaceOf(p) ==
    /\ proc[p].at = "up" => servers[proc[p].lang] = p
    /\ proc[p].at \in {"starting", "deaf", "stopping"} => \E a \in Actors : actor[a].proc = p
ProcsInv ==
    /\ \A l \in Langs : MapOf(l)
    /\ \A p \in Procs : PlaceOf(p)
    /\ At(Loop, "gone") => \A l \in Langs : servers[l] = NoProc

\* An edit carries the content its file holds, to the server of its language,
\* and no two edit one file.
NamedOf(a) == actor[a].op \in FileOps => Lang(a) = LangOf[actor[a].file]
EditOf(a) ==
    actor[a].op = "edit" =>
        /\ a \in Calls /\ actor[a].version = disk[actor[a].file]
        /\ actor[a].at \in {"lock", "init", "ready", "over"}
        /\ actor[a].at = "over" => servers[Lang(a)] = NoProc
OneEdit ==
    \A a, b \in Actors :
        actor[a].op = "edit" /\ actor[b].op = "edit" /\ actor[a].file = actor[b].file => a = b
EditsInv ==
    /\ \A a \in Actors : NamedOf(a) /\ EditOf(a)
    /\ OneEdit

\* A document is of the language of the process that was opened it, after the
\* process was up.
DocsOf(p) ==
    /\ proc[p].at \in {"none", "starting", "deaf"} => proc[p].docs = {}
    /\ \A f \in proc[p].docs : LangOf[f] = proc[p].lang
DocsInv == \A p \in Procs : DocsOf(p)

=============================================================================
