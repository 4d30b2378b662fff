-------------------------- MODULE TurnLoop_proofs --------------------------
(* The turn loop, for any number of prompts and failures, any retry budgets *)
(* and any set of commands, endings and faults.                             *)
(*                                                                          *)
(* The types come first.  SafetyInv says that the run held is the only live *)
(* one (SoleRun), and that what a run has claimed or is finishing is what   *)
(* the guards of the next cut see (CutInv).  What is said of the replies    *)
(* stands beside it: ReplyWritten needs the types only, RepliesSettled      *)
(* needs SafetyInv and that nothing is denied.  QueueInv says of the queue  *)
(* of steered prompts that it is in order and waits behind a run or its     *)
(* outcome, as long as nothing fails; QueueSignals that the run it waits    *)
(* behind knows of it.                                                      *)
EXTENDS TurnLoop, TLAPS

(***************************************************************************)
(* Type correctness                                                        *)
(***************************************************************************)
\* The constants, as the numeric leaves need them.
LEMMA ConstantsType ==
    /\ MaxPrompts \in Nat /\ MaxFailures \in Nat
    /\ MaxTurnRetries \in Nat /\ MaxOverflowRetries \in Nat
    /\ MaxRuns \in Nat /\ Runs = 1..MaxRuns /\ NoRun = 0 /\ Prompts = 1..MaxPrompts
BY TurnLoopAssumption DEF TurnLoopAssumption, MaxRuns, Runs, NoRun, Prompts

\* The initial state is well typed.
LEMMA InitType == Init => TypeOK
<1> SUFFICES ASSUME Init PROVE TypeOK
  OBVIOUS
<1>1. FlagsTypeOK
  BY DEF Init, FlagsTypeOK, SteerStates
<1>2. CountersTypeOK
  BY ConstantsType DEF Init, CountersTypeOK
<1>3. ChannelsTypeOK
  BY DEF Init, ChannelsTypeOK
<1>4. RunsTypeOK
  BY DEF Init, RunsTypeOK, RunStates, Phases, Decisions, ReplyStates
<1> QED BY <1>1, <1>2, <1>3, <1>4 DEF TypeOK

\* Dismissing the asks only moves runs from one state to another.
LEMMA DismissedType == RunsTypeOK => Dismissed \in [Runs -> RunStates]
BY DEF RunsTypeOK, Dismissed, RunStates

\* A spawned request gets a run number of its own.
LEMMA SpawnType ==
    ASSUME CountersTypeOK, NEW pcs \in [Runs -> RunStates], SpawnRun(pcs)
    PROVE  /\ born' \in 0..MaxRuns /\ active' \in 0..MaxRuns /\ flow' \in 0..MaxRuns
           /\ denyCut' \in BOOLEAN
           /\ pc' \in [Runs -> RunStates]
<1>1. /\ born < MaxRuns /\ born' = born + 1 /\ active' = born + 1 /\ flow' = born + 1
      /\ denyCut' = FALSE
      /\ pc' = [pcs EXCEPT ![born + 1] = "stream"]
  BY DEF SpawnRun
<1>2. born' \in 0..MaxRuns /\ active' \in 0..MaxRuns /\ flow' \in 0..MaxRuns
  BY <1>1, ConstantsType DEF CountersTypeOK
<1>3. denyCut' \in BOOLEAN
  BY <1>1
<1>4. pc' \in [Runs -> RunStates]
  BY <1>1 DEF RunStates
<1> QED BY <1>2, <1>3, <1>4

LEMMA StartType ==
    ASSUME TypeOK, NEW pcs \in [Runs -> RunStates], NEW p \in Prompts,
           NEW signal \in SteerStates, StartUserTurn(p, pcs, signal)
    PROVE  /\ born' \in 0..MaxRuns /\ active' \in 0..MaxRuns /\ flow' \in 0..MaxRuns
           /\ denyCut' \in BOOLEAN
           /\ pc' \in [Runs -> RunStates]
           /\ latest' \in 0..MaxPrompts
           /\ steer' \in SteerStates
<1>1. latest' = p /\ steer' = signal
  BY DEF StartUserTurn
<1>2. latest' \in 0..MaxPrompts
  BY <1>1, ConstantsType
<1>3. CASE SpawnRun(pcs)
  BY <1>1, <1>2, <1>3, SpawnType DEF TypeOK
<1>4. CASE active' = NoRun /\ flow' = NoRun /\ pc' = pcs /\ UNCHANGED <<born, denyCut>>
  <2>1. born' \in 0..MaxRuns /\ active' \in 0..MaxRuns /\ flow' \in 0..MaxRuns
    BY <1>4, ConstantsType DEF TypeOK, CountersTypeOK
  <2>2. denyCut' \in BOOLEAN /\ pc' \in [Runs -> RunStates]
    BY <1>4 DEF TypeOK, FlagsTypeOK
  <2> QED BY <1>1, <1>2, <2>1, <2>2
<1> QED BY <1>3, <1>4 DEF StartUserTurn

LEMMA DispatchType ==
    ASSUME TypeOK, NEW pcs \in [Runs -> RunStates], steered # <<>>,
           NEW signal \in SteerStates, DispatchSteered(pcs, signal)
    PROVE  /\ born' \in 0..MaxRuns /\ active' \in 0..MaxRuns /\ flow' \in 0..MaxRuns
           /\ denyCut' \in BOOLEAN
           /\ pc' \in [Runs -> RunStates]
           /\ latest' \in 0..MaxPrompts /\ sent' = sent
           /\ steered' \in Seq(Prompts)
           /\ steer' \in SteerStates
<1>1. Head(steered) \in Prompts /\ Tail(steered) \in Seq(Prompts)
  BY DEF TypeOK, ChannelsTypeOK
<1>2. /\ steered' = Tail(steered) /\ sent' = sent
      /\ StartUserTurn(Head(steered), pcs, signal)
  BY DEF DispatchSteered
<1> QED BY <1>1, <1>2, StartType

LEMMA ResumeType ==
    ASSUME TypeOK, ResumeLastTurn
    PROVE  /\ born' \in 0..MaxRuns /\ active' \in 0..MaxRuns /\ flow' \in 0..MaxRuns
           /\ denyCut' \in BOOLEAN
           /\ pc' \in [Runs -> RunStates]
<1>1. CASE SpawnRun(pc)
  BY <1>1, SpawnType DEF TypeOK, RunsTypeOK
<1>2. CASE flow' = NoRun /\ UNCHANGED <<born, active, denyCut, pc>>
  <2>1. born' \in 0..MaxRuns /\ active' \in 0..MaxRuns /\ flow' \in 0..MaxRuns
    BY <1>2, ConstantsType DEF TypeOK, CountersTypeOK
  <2>2. denyCut' \in BOOLEAN /\ pc' \in [Runs -> RunStates]
    BY <1>2 DEF TypeOK, FlagsTypeOK, RunsTypeOK
  <2> QED BY <2>1, <2>2
<1> QED BY <1>1, <1>2 DEF ResumeLastTurn

\* The actions that may spawn a run, one lemma each.
LEMMA SendMessageType == TypeOK /\ SendMessage => TypeOK'
<1> SUFFICES ASSUME TypeOK, SendMessage PROVE TypeOK'
  OBVIOUS
<1>1. sent + 1 \in Prompts
  BY ConstantsType DEF SendMessage, TypeOK, CountersTypeOK
<1>2. CASE /\ steered' = Append(steered, sent + 1) /\ steer' \in Armed
           /\ UNCHANGED <<latest, retryVars, handleVars, born, denyCut, pc>>
  <2>1. FlagsTypeOK'
    BY <1>2 DEF SendMessage, TypeOK, FlagsTypeOK, SteerStates, Armed, Stored, loopVars,
              askVars, retryVars
  <2>2. CountersTypeOK'
    BY <1>1, <1>2, ConstantsType
    DEF SendMessage, TypeOK, CountersTypeOK, retryVars, handleVars, runVars
  <2>3. ChannelsTypeOK'
    BY <1>1, <1>2 DEF SendMessage, TypeOK, ChannelsTypeOK
  <2>4. RunsTypeOK'
    BY <1>2 DEF SendMessage, TypeOK, RunsTypeOK, runVars
  <2> QED BY <2>1, <2>2, <2>3, <2>4 DEF TypeOK
<1>3. CASE /\ overflowRetries' = 0 /\ turnRetries' = 0 /\ pendingRetry' = FALSE
           /\ StartUserTurn(sent + 1, pc, "idle")
           /\ UNCHANGED steered
  <2>1. /\ born' \in 0..MaxRuns /\ active' \in 0..MaxRuns /\ flow' \in 0..MaxRuns
        /\ denyCut' \in BOOLEAN
        /\ pc' \in [Runs -> RunStates]
        /\ latest' \in 0..MaxPrompts
        /\ steer' \in SteerStates
    <3>1. pc \in [Runs -> RunStates] /\ "idle" \in SteerStates
      BY DEF TypeOK, RunsTypeOK, SteerStates
    <3> QED BY <1>1, <1>3, <3>1, StartType
  <2>2. FlagsTypeOK'
    BY <1>3, <2>1 DEF SendMessage, TypeOK, FlagsTypeOK, loopVars, askVars
  <2>3. CountersTypeOK'
    BY <1>1, <1>3, <2>1, ConstantsType DEF SendMessage, TypeOK, CountersTypeOK, runVars
  <2>4. ChannelsTypeOK'
    BY <1>3 DEF SendMessage, TypeOK, ChannelsTypeOK
  <2>5. RunsTypeOK'
    BY <2>1 DEF SendMessage, TypeOK, RunsTypeOK, runVars
  <2> QED BY <2>2, <2>3, <2>4, <2>5 DEF TypeOK
<1> QED BY <1>2, <1>3 DEF SendMessage

LEMMA CancelRetryType == TypeOK /\ CancelRetry => TypeOK'
<1> SUFFICES ASSUME TypeOK, CancelRetry PROVE TypeOK'
  OBVIOUS
<1>1. CASE /\ steered # <<>> /\ pendingRetry' = FALSE /\ turnRetries' = 0
           /\ DispatchSteered(pc, "idle")
  <2>1. /\ born' \in 0..MaxRuns /\ active' \in 0..MaxRuns /\ flow' \in 0..MaxRuns
        /\ denyCut' \in BOOLEAN
        /\ pc' \in [Runs -> RunStates]
        /\ latest' \in 0..MaxPrompts /\ sent' = sent
        /\ steered' \in Seq(Prompts)
        /\ steer' \in SteerStates
    <3>1. pc \in [Runs -> RunStates] /\ "idle" \in SteerStates
      BY DEF TypeOK, RunsTypeOK, SteerStates
    <3> QED BY <1>1, <3>1, DispatchType
  <2>2. FlagsTypeOK'
    BY <1>1, <2>1 DEF CancelRetry, TypeOK, FlagsTypeOK, loopVars, askVars
  <2>3. CountersTypeOK'
    BY <1>1, <2>1, ConstantsType DEF CancelRetry, TypeOK, CountersTypeOK, runVars
  <2>4. ChannelsTypeOK'
    BY <2>1 DEF CancelRetry, TypeOK, ChannelsTypeOK
  <2>5. RunsTypeOK'
    BY <2>1 DEF CancelRetry, TypeOK, RunsTypeOK, runVars
  <2> QED BY <2>2, <2>3, <2>4, <2>5 DEF TypeOK
<1>2. CASE /\ pendingRetry' = FALSE
           /\ turnRetries' = IF pendingRetry THEN 0 ELSE turnRetries
           /\ steer' = IF pendingRetry THEN "idle" ELSE steer
           /\ active' = HandleAfterNoCut
           /\ UNCHANGED <<queueVars, flow, born, denyCut, pc>>
  <2>1. FlagsTypeOK'
    BY <1>2 DEF CancelRetry, TypeOK, FlagsTypeOK, SteerStates, loopVars, askVars
  <2>2. CountersTypeOK'
    BY <1>2, ConstantsType
    DEF CancelRetry, HandleAfterNoCut, TypeOK, CountersTypeOK, queueVars, runVars
  <2>3. ChannelsTypeOK'
    BY <1>2 DEF CancelRetry, TypeOK, ChannelsTypeOK, queueVars
  <2>4. RunsTypeOK'
    BY <1>2 DEF CancelRetry, TypeOK, RunsTypeOK, runVars
  <2> QED BY <2>1, <2>2, <2>3, <2>4 DEF TypeOK
<1> QED BY <1>1, <1>2 DEF CancelRetry

LEMMA ReplayType == TypeOK /\ Replay => TypeOK'
<1> SUFFICES ASSUME TypeOK, Replay PROVE TypeOK'
  OBVIOUS
<1>1. /\ born' \in 0..MaxRuns /\ active' \in 0..MaxRuns /\ flow' \in 0..MaxRuns
      /\ denyCut' \in BOOLEAN
      /\ pc' \in [Runs -> RunStates]
      /\ sent' \in 0..MaxPrompts /\ latest' \in 0..MaxPrompts
  <2>1. CASE sent' = sent + 1 /\ latest' = sent + 1 /\ SpawnRun(pc)
    <3>1. sent' \in 0..MaxPrompts /\ latest' \in 0..MaxPrompts
      BY <2>1, ConstantsType DEF Replay, RetryDropped, TypeOK, CountersTypeOK
    <3> QED BY <2>1, <3>1, SpawnType DEF TypeOK, RunsTypeOK
  <2>2. CASE flow' = NoRun /\ UNCHANGED <<sent, latest, active, born, denyCut, pc>>
    <3>1. /\ born' \in 0..MaxRuns /\ active' \in 0..MaxRuns /\ flow' \in 0..MaxRuns
          /\ sent' \in 0..MaxPrompts /\ latest' \in 0..MaxPrompts
      BY <2>2, ConstantsType DEF TypeOK, CountersTypeOK
    <3> QED BY <2>2, <3>1 DEF TypeOK, FlagsTypeOK, RunsTypeOK
  <2> QED BY <2>1, <2>2 DEF Replay
<1>2. FlagsTypeOK'
  BY <1>1 DEF Replay, RetryDropped, TypeOK, FlagsTypeOK, SteerStates, loopVars, askVars
<1>3. CountersTypeOK'
  BY <1>1, ConstantsType DEF Replay, RetryDropped, TypeOK, CountersTypeOK, runVars
<1>4. ChannelsTypeOK'
  BY DEF Replay, TypeOK, ChannelsTypeOK
<1>5. RunsTypeOK'
  BY <1>1 DEF Replay, TypeOK, RunsTypeOK, runVars
<1> QED BY <1>2, <1>3, <1>4, <1>5 DEF TypeOK

LEMMA AbortCutType == TypeOK /\ AbortCut => TypeOK'
<1> SUFFICES ASSUME TypeOK, AbortCut PROVE TypeOK'
  OBVIOUS
<1> DEFINE pcs == [Dismissed EXCEPT ![active] = IF Live(active) THEN "aborted" ELSE pc[active]]
<1>1. pcs \in [Runs -> RunStates]
  BY DismissedType DEF TypeOK, RunsTypeOK, RunStates
<1>2. /\ born' \in 0..MaxRuns /\ active' \in 0..MaxRuns /\ flow' \in 0..MaxRuns
      /\ denyCut' \in BOOLEAN
      /\ pc' \in [Runs -> RunStates]
      /\ latest' \in 0..MaxPrompts /\ sent' = sent
      /\ steered' \in Seq(Prompts)
      /\ steer' \in SteerStates
  <2>1. CASE cutFor \in {"cancel", "grace"} /\ steered # <<>>
    <3>1. DispatchSteered(pcs, "idle") /\ "idle" \in SteerStates
      BY <2>1 DEF AbortCut, SteerStates
    <3> HIDE DEF pcs
    <3> QED BY <1>1, <2>1, <3>1, DispatchType
  <2>2. CASE ~(cutFor \in {"cancel", "grace"} /\ steered # <<>>)
    <3>1. /\ active' = NoRun /\ flow' = NoRun
          /\ pc' = pcs
          /\ steer' = IF cutFor = "quit" THEN steer ELSE "idle"
          /\ steered' = IF cutFor = "fork" THEN <<>> ELSE steered
          /\ UNCHANGED <<sent, latest, born, denyCut>>
      BY <2>2 DEF AbortCut
    <3> HIDE DEF pcs
    <3>2. /\ born' \in 0..MaxRuns /\ active' \in 0..MaxRuns /\ flow' \in 0..MaxRuns
          /\ latest' \in 0..MaxPrompts
      BY <3>1, ConstantsType DEF TypeOK, CountersTypeOK
    <3>3. steered' \in Seq(Prompts) /\ steer' \in SteerStates /\ denyCut' \in BOOLEAN
      BY <3>1 DEF TypeOK, FlagsTypeOK, ChannelsTypeOK, SteerStates
    <3> QED BY <1>1, <3>1, <3>2, <3>3
  <2> QED BY <2>1, <2>2
<1>3. FlagsTypeOK'
  BY <1>2 DEF AbortCut, TypeOK, FlagsTypeOK
<1>4. CountersTypeOK'
  BY <1>2, ConstantsType DEF AbortCut, TypeOK, CountersTypeOK
<1>5. ChannelsTypeOK'
  BY <1>2 DEF AbortCut, TypeOK, ChannelsTypeOK
<1>6. RunsTypeOK'
  BY <1>2 DEF AbortCut, PartialPersisted, Saved, ReplyStates, TypeOK, RunsTypeOK
<1> QED BY <1>3, <1>4, <1>5, <1>6 DEF TypeOK

LEMMA HandleOutcomeType == TypeOK /\ HandleOutcome => TypeOK'
<1> SUFFICES ASSUME TypeOK, HandleOutcome PROVE TypeOK'
  OBVIOUS
<1>1. /\ born' \in 0..MaxRuns /\ active' \in 0..MaxRuns /\ flow' \in 0..MaxRuns
      /\ denyCut' \in BOOLEAN /\ pendingRetry' \in BOOLEAN
      /\ pc' \in [Runs -> RunStates]
      /\ latest' \in 0..MaxPrompts /\ sent' \in 0..MaxPrompts
      /\ turnRetries' \in 0..MaxTurnRetries /\ overflowRetries' \in 0..MaxOverflowRetries
      /\ steered' \in Seq(Prompts)
      /\ steer' \in SteerStates
      /\ asks' \subseteq Runs
  <2>1. CASE HandleEnd
    <3>1. turnRetries' \in 0..MaxTurnRetries /\ overflowRetries' \in 0..MaxOverflowRetries
      BY <2>1, ConstantsType DEF HandleEnd
    <3>2. pendingRetry' \in BOOLEAN /\ asks' \subseteq Runs
      BY <2>1 DEF HandleEnd, TypeOK, FlagsTypeOK
    <3>3. CASE steered # <<>> /\ DispatchSteered(Dismissed, RestArmed)
      <4>1. Dismissed \in [Runs -> RunStates] /\ RestArmed \in SteerStates
        BY DismissedType DEF TypeOK, RestArmed, SteerStates
      <4>2. sent \in 0..MaxPrompts
        BY DEF TypeOK, CountersTypeOK
      <4> QED BY <3>1, <3>2, <3>3, <4>1, <4>2, DispatchType
    <3>4. CASE /\ active' = NoRun /\ flow' = NoRun
               /\ steer' = "idle" /\ pc' = Dismissed
               /\ UNCHANGED <<queueVars, born, denyCut>>
      <4>1. /\ born' \in 0..MaxRuns /\ active' \in 0..MaxRuns /\ flow' \in 0..MaxRuns
            /\ latest' \in 0..MaxPrompts /\ sent' \in 0..MaxPrompts
        BY <3>4, ConstantsType DEF TypeOK, CountersTypeOK, queueVars
      <4>2. /\ steered' \in Seq(Prompts) /\ steer' \in SteerStates /\ denyCut' \in BOOLEAN
            /\ pc' \in [Runs -> RunStates]
        BY <3>4, DismissedType DEF TypeOK, FlagsTypeOK, ChannelsTypeOK, SteerStates, queueVars
      <4> QED BY <3>1, <3>2, <4>1, <4>2
    <3> QED BY <2>1, <3>3, <3>4 DEF HandleEnd, DispatchDue
  <2>2. CASE HandleOverflow
    <3>1. /\ turnRetries' \in 0..MaxTurnRetries /\ overflowRetries' \in 0..MaxOverflowRetries
          /\ latest' \in 0..MaxPrompts /\ sent' \in 0..MaxPrompts
      BY <2>2, ConstantsType DEF HandleOverflow, TypeOK, CountersTypeOK, queueVars
    <3>2. /\ pendingRetry' \in BOOLEAN /\ asks' \subseteq Runs /\ steered' \in Seq(Prompts)
          /\ steer' \in SteerStates
      BY <2>2 DEF HandleOverflow, TypeOK, FlagsTypeOK, ChannelsTypeOK, SteerStates, queueVars
    <3>3. CASE ResumeLastTurn
      BY <3>1, <3>2, <3>3, ResumeType
    <3>4. CASE flow' = NoRun /\ UNCHANGED <<active, born, denyCut, pc>>
      <4>1. /\ born' \in 0..MaxRuns /\ active' \in 0..MaxRuns /\ flow' \in 0..MaxRuns
        BY <3>4, ConstantsType DEF TypeOK, CountersTypeOK
      <4> QED BY <3>1, <3>2, <3>4, <4>1 DEF TypeOK, FlagsTypeOK, RunsTypeOK
    <3> QED BY <2>2, <3>3, <3>4 DEF HandleOverflow
  <2>3. CASE HandleFailure
    <3>1. Attempt \in Nat
      BY ConstantsType DEF Attempt, TypeOK, CountersTypeOK
    <3>2. /\ turnRetries' \in 0..MaxTurnRetries /\ overflowRetries' \in 0..MaxOverflowRetries
          /\ latest' \in 0..MaxPrompts /\ sent' \in 0..MaxPrompts
          /\ born' \in 0..MaxRuns /\ active' \in 0..MaxRuns /\ flow' \in 0..MaxRuns
      BY <2>3, <3>1, ConstantsType
      DEF HandleFailure, RetryAllowed, TypeOK, CountersTypeOK, queueVars
    <3>3. /\ pendingRetry' \in BOOLEAN /\ denyCut' \in BOOLEAN /\ asks' \subseteq Runs
          /\ steered' \in Seq(Prompts) /\ steer' \in SteerStates
          /\ pc' \in [Runs -> RunStates]
      BY <2>3
      DEF HandleFailure, TypeOK, FlagsTypeOK, ChannelsTypeOK, RunsTypeOK, SteerStates, queueVars
    <3> QED BY <3>2, <3>3
  <2> QED BY <2>1, <2>2, <2>3 DEF HandleOutcome
<1>2. FlagsTypeOK'
  BY <1>1 DEF HandleOutcome, TypeOK, FlagsTypeOK, loopVars
<1>3. CountersTypeOK'
  BY <1>1 DEF HandleOutcome, TypeOK, CountersTypeOK, runVars
<1>4. ChannelsTypeOK'
  BY <1>1 DEF HandleOutcome, ChannelsTypeOK
<1>5. RunsTypeOK'
  BY <1>1 DEF HandleOutcome, TypeOK, RunsTypeOK, runVars
<1> QED BY <1>2, <1>3, <1>4, <1>5 DEF TypeOK

LEMMA RetryFiresType == TypeOK /\ RetryFires => TypeOK'
<1> SUFFICES ASSUME TypeOK, RetryFires PROVE TypeOK'
  OBVIOUS
<1>1. /\ born' \in 0..MaxRuns /\ active' \in 0..MaxRuns /\ flow' \in 0..MaxRuns
      /\ denyCut' \in BOOLEAN
      /\ pc' \in [Runs -> RunStates]
  BY ResumeType DEF RetryFires
<1>2. FlagsTypeOK'
  BY <1>1 DEF RetryFires, TypeOK, FlagsTypeOK, loopVars, askVars
<1>3. CountersTypeOK'
  BY <1>1 DEF RetryFires, TypeOK, CountersTypeOK, queueVars, runVars
<1>4. ChannelsTypeOK'
  BY DEF RetryFires, TypeOK, ChannelsTypeOK, queueVars
<1>5. RunsTypeOK'
  BY <1>1 DEF RetryFires, TypeOK, RunsTypeOK, runVars
<1> QED BY <1>2, <1>3, <1>4, <1>5 DEF TypeOK

\* Every command keeps the types.
LEMMA CommandType == TypeOK /\ (Command) => TypeOK'
<1> SUFFICES ASSUME TypeOK, Command PROVE TypeOK'
  OBVIOUS
<1>1. CASE SendMessage
  BY <1>1, SendMessageType
<1>2. CASE CancelFlow
  BY <1>2, ConstantsType
  DEF CancelFlow, loopVars, queueVars, retryVars, handleVars, TypeOK, FlagsTypeOK,
      CountersTypeOK, ChannelsTypeOK, RunsTypeOK, RunStates, Dismissed
<1>3. CASE CancelCut
  BY <1>3, ConstantsType
  DEF CancelCut, BeginCut, queueVars, retryVars, askVars, runVars, TypeOK, FlagsTypeOK,
      CountersTypeOK, ChannelsTypeOK, RunsTypeOK
<1>4. CASE CancelRetry
  BY <1>4, CancelRetryType
<1>5. CASE RecallSteered
  <2>1. FlagsTypeOK'
    BY <1>5 DEF RecallSteered, Stored, loopVars, retryVars, askVars, handleVars,
        runVars, TypeOK, FlagsTypeOK, SteerStates
  <2>2. CountersTypeOK'
    BY <1>5, ConstantsType DEF RecallSteered, Stored, loopVars, retryVars, askVars,
        handleVars, runVars, TypeOK, CountersTypeOK
  <2>3. ChannelsTypeOK'
    <3>1. steered # <<>> => SubSeq(steered, 1, Len(steered) - 1) \in Seq(Prompts)
      BY DEF TypeOK, ChannelsTypeOK
    <3> QED BY <1>5, <3>1 DEF RecallSteered, TypeOK, ChannelsTypeOK
  <2>4. RunsTypeOK'
    BY <1>5 DEF RecallSteered, Stored, loopVars, retryVars, askVars, handleVars,
        runVars, TypeOK, RunsTypeOK, RunStates, Phases, Decisions, Finishing,
        ReplyStates
  <2> QED BY <2>1, <2>2, <2>3, <2>4 DEF TypeOK
<1>6. CASE ForkCut
  BY <1>6, ConstantsType
  DEF ForkCut, BeginCut, queueVars, retryVars, askVars, runVars, TypeOK, FlagsTypeOK,
      CountersTypeOK, ChannelsTypeOK, RunsTypeOK
<1>7. CASE ForkSession
  <2>1. FlagsTypeOK'
    BY <1>7 DEF ForkSession, HandleAfterNoCut, QueueCleared, RetryDropped, Disarmed,
        loopVars, askVars, runVars, TypeOK, FlagsTypeOK, SteerStates
  <2>2. CountersTypeOK'
    BY <1>7, ConstantsType DEF ForkSession, HandleAfterNoCut, QueueCleared,
        RetryDropped, Disarmed, loopVars, askVars, runVars, TypeOK, CountersTypeOK
  <2>3. ChannelsTypeOK'
    BY <1>7 DEF ForkSession, HandleAfterNoCut, QueueCleared, RetryDropped, Disarmed,
        loopVars, askVars, runVars, TypeOK, ChannelsTypeOK
  <2>4. RunsTypeOK'
    BY <1>7 DEF ForkSession, HandleAfterNoCut, QueueCleared, RetryDropped, Disarmed,
        loopVars, askVars, runVars, TypeOK, RunsTypeOK, RunStates, Phases, Decisions,
        Finishing, ReplyStates
  <2> QED BY <2>1, <2>2, <2>3, <2>4 DEF TypeOK
<1>8. CASE NewSession
  <2>1. FlagsTypeOK'
    BY <1>8 DEF NewSession, QueueCleared, RetryDropped, Disarmed, loopVars, handleVars,
        runVars, TypeOK, FlagsTypeOK, SteerStates
  <2>2. CountersTypeOK'
    BY <1>8, ConstantsType DEF NewSession, QueueCleared, RetryDropped, Disarmed,
        loopVars, handleVars, runVars, TypeOK, CountersTypeOK
  <2>3. ChannelsTypeOK'
    BY <1>8 DEF NewSession, QueueCleared, RetryDropped, Disarmed, loopVars, handleVars,
        runVars, TypeOK, ChannelsTypeOK
  <2>4. RunsTypeOK'
    BY <1>8 DEF NewSession, QueueCleared, RetryDropped, Disarmed, loopVars, handleVars,
        runVars, TypeOK, RunsTypeOK, RunStates, Phases, Decisions, Finishing,
        ReplyStates, Dismissed
  <2> QED BY <2>1, <2>2, <2>3, <2>4 DEF TypeOK
<1>9. CASE LoadSession
  <2>1. FlagsTypeOK'
    BY <1>9 DEF LoadSession, QueueCleared, RetryDropped, Disarmed, loopVars, handleVars,
        runVars, TypeOK, FlagsTypeOK, SteerStates
  <2>2. CountersTypeOK'
    BY <1>9, ConstantsType DEF LoadSession, QueueCleared, RetryDropped, Disarmed,
        loopVars, handleVars, runVars, TypeOK, CountersTypeOK
  <2>3. ChannelsTypeOK'
    <3>1. (steered' = <<>> \/ steered' = steered) /\ done' = done
      BY <1>9 DEF LoadSession, QueueCleared
    <3>2. steered' \in Seq(Prompts)
      <4>1. <<>> \in Seq(Prompts)
        OBVIOUS
      <4> QED BY <3>1, <4>1 DEF TypeOK, ChannelsTypeOK
    <3> QED BY <3>1, <3>2 DEF TypeOK, ChannelsTypeOK
  <2>4. RunsTypeOK'
    BY <1>9 DEF LoadSession, QueueCleared, RetryDropped, Disarmed, loopVars, handleVars,
        runVars, TypeOK, RunsTypeOK, RunStates, Phases, Decisions, Finishing,
        ReplyStates, Dismissed
  <2> QED BY <2>1, <2>2, <2>3, <2>4 DEF TypeOK
<1>10. CASE DeleteSession
  <2>1. FlagsTypeOK'
    BY <1>10 DEF DeleteSession, QueueCleared, RetryDropped, Disarmed, loopVars, askVars,
        handleVars, runVars, TypeOK, FlagsTypeOK, SteerStates
  <2>2. CountersTypeOK'
    BY <1>10, ConstantsType DEF DeleteSession, QueueCleared, RetryDropped, Disarmed,
        loopVars, askVars, handleVars, runVars, TypeOK, CountersTypeOK
  <2>3. ChannelsTypeOK'
    BY <1>10 DEF DeleteSession, QueueCleared, RetryDropped, Disarmed, loopVars, askVars,
        handleVars, runVars, TypeOK, ChannelsTypeOK
  <2>4. RunsTypeOK'
    BY <1>10 DEF DeleteSession, QueueCleared, RetryDropped, Disarmed, loopVars, askVars,
        handleVars, runVars, TypeOK, RunsTypeOK, RunStates, Phases, Decisions,
        Finishing, ReplyStates
  <2> QED BY <2>1, <2>2, <2>3, <2>4 DEF TypeOK
<1>11. CASE DeleteBranch
  <2>1. FlagsTypeOK'
    BY <1>11 DEF DeleteBranch, QueueCleared, RetryDropped, Disarmed, loopVars, askVars,
        handleVars, runVars, TypeOK, FlagsTypeOK, SteerStates
  <2>2. CountersTypeOK'
    BY <1>11, ConstantsType DEF DeleteBranch, QueueCleared, RetryDropped, Disarmed,
        loopVars, askVars, handleVars, runVars, TypeOK, CountersTypeOK
  <2>3. ChannelsTypeOK'
    <3>1. (steered' = <<>> \/ steered' = steered) /\ done' = done
      BY <1>11 DEF DeleteBranch, QueueCleared
    <3>2. steered' \in Seq(Prompts)
      <4>1. <<>> \in Seq(Prompts)
        OBVIOUS
      <4> QED BY <3>1, <4>1 DEF TypeOK, ChannelsTypeOK
    <3> QED BY <3>1, <3>2 DEF TypeOK, ChannelsTypeOK
  <2>4. RunsTypeOK'
    BY <1>11 DEF DeleteBranch, QueueCleared, RetryDropped, Disarmed, loopVars, askVars,
        handleVars, runVars, TypeOK, RunsTypeOK, RunStates, Phases, Decisions,
        Finishing, ReplyStates
  <2> QED BY <2>1, <2>2, <2>3, <2>4 DEF TypeOK
<1>12. CASE Replay
  BY <1>12, ReplayType
<1>13. CASE Quit
  <2>1. FlagsTypeOK'
    BY <1>13 DEF Quit, BeginCut, HandleAfterNoCut, queueVars, retryVars, askVars,
        runVars, TypeOK, FlagsTypeOK, SteerStates
  <2>2. CountersTypeOK'
    BY <1>13, ConstantsType DEF Quit, BeginCut, HandleAfterNoCut, queueVars, retryVars,
        askVars, runVars, TypeOK, CountersTypeOK
  <2>3. ChannelsTypeOK'
    BY <1>13 DEF Quit, BeginCut, HandleAfterNoCut, queueVars, retryVars, askVars,
        runVars, TypeOK, ChannelsTypeOK
  <2>4. RunsTypeOK'
    BY <1>13 DEF Quit, BeginCut, HandleAfterNoCut, queueVars, retryVars, askVars,
        runVars, TypeOK, RunsTypeOK, RunStates, Phases, Decisions, Finishing,
        ReplyStates
  <2> QED BY <2>1, <2>2, <2>3, <2>4 DEF TypeOK
<1>14. ASSUME NEW t \in Runs, Answer(t) PROVE TypeOK'
  BY <1>14, ConstantsType
  DEF Answer, loopVars, queueVars, retryVars, handleVars, runVars, TypeOK, FlagsTypeOK,
      CountersTypeOK, ChannelsTypeOK, RunsTypeOK, RunStates
<1> QED BY <1>1, <1>2, <1>3, <1>4, <1>5, <1>6, <1>7, <1>8, <1>9, <1>10, <1>11, <1>12, <1>13,
    <1>14
  DEF Command

\* Every other branch of the run loop keeps the types.
LEMMA LoopStepType == TypeOK /\ (LoopStep) => TypeOK'
<1> SUFFICES ASSUME TypeOK, LoopStep PROVE TypeOK'
  OBVIOUS
<1>1. CASE AbortCut
  BY <1>1, AbortCutType
<1>2. CASE Close
  BY <1>2, ConstantsType
  DEF Close, queueVars, retryVars, askVars, handleVars, runVars, TypeOK, FlagsTypeOK,
      CountersTypeOK, ChannelsTypeOK, RunsTypeOK
<1>3. CASE HandleOutcome
  BY <1>3, HandleOutcomeType
<1>4. CASE RetryFires
  BY <1>4, RetryFiresType
<1>5. CASE GraceFires
  <2>1. FlagsTypeOK'
    BY <1>5 DEF GraceFires, BeginCut, HandleAfterNoCut, loopVars, queueVars, retryVars,
        askVars, runVars, TypeOK, FlagsTypeOK, SteerStates
  <2>2. CountersTypeOK'
    BY <1>5, ConstantsType DEF GraceFires, BeginCut, HandleAfterNoCut, loopVars,
        queueVars, retryVars, askVars, runVars, TypeOK, CountersTypeOK
  <2>3. ChannelsTypeOK'
    BY <1>5 DEF GraceFires, BeginCut, HandleAfterNoCut, loopVars, queueVars, retryVars,
        askVars, runVars, TypeOK, ChannelsTypeOK
  <2>4. RunsTypeOK'
    BY <1>5 DEF GraceFires, BeginCut, HandleAfterNoCut, loopVars, queueVars, retryVars,
        askVars, runVars, TypeOK, RunsTypeOK, RunStates, Phases, Decisions, Finishing,
        ReplyStates
  <2> QED BY <2>1, <2>2, <2>3, <2>4 DEF TypeOK
<1>6. ASSUME NEW t \in Runs, ReceiveAsk(t) PROVE TypeOK'
  BY <1>6, ConstantsType
  DEF ReceiveAsk, loopVars, queueVars, retryVars, handleVars, runVars, TypeOK,
      FlagsTypeOK, CountersTypeOK, ChannelsTypeOK, RunsTypeOK
<1> QED BY <1>1, <1>2, <1>3, <1>4, <1>5, <1>6
  DEF LoopStep

\* Every step of a run keeps the types.
LEMMA RunStepType ==
    ASSUME TypeOK, NEW t \in Runs, Stream(t) \/ Terminal(t)
    PROVE  TypeOK'
<1>1. ASSUME NEW ph \in Phases, StartAction(t, ph) PROVE TypeOK'
  <2>1. FlagsTypeOK'
    BY <1>1 DEF StartAction, AfterItem, ClaimCut, TakeDenial, loopVars, queueVars,
        retryVars, askVars, handleVars, Streamed, TypeOK, FlagsTypeOK, SteerStates
  <2>2. CountersTypeOK'
    BY <1>1, ConstantsType DEF StartAction, AfterItem, ClaimCut, TakeDenial, loopVars,
        queueVars, retryVars, askVars, handleVars, Streamed, TypeOK, CountersTypeOK
  <2>3. ChannelsTypeOK'
    BY <1>1 DEF StartAction, AfterItem, ClaimCut, TakeDenial, loopVars, queueVars,
        retryVars, askVars, handleVars, Streamed, TypeOK, ChannelsTypeOK
  <2>4. RunsTypeOK'
    BY <1>1 DEF StartAction, AfterItem, ClaimCut, TakeDenial, loopVars, queueVars,
        retryVars, askVars, handleVars, Streamed, TypeOK, RunsTypeOK, RunStates, Phases,
        Decisions, Finishing, ReplyStates
  <2> QED BY <2>1, <2>2, <2>3, <2>4 DEF TypeOK
<1>2. ASSUME NEW ph \in Phases, ToolResult(t, ph) PROVE TypeOK'
  <2>1. FlagsTypeOK'
    BY <1>2 DEF ToolResult, AfterItem, ClaimCut, TakeDenial, loopVars, queueVars,
        retryVars, askVars, handleVars, Streamed, TypeOK, FlagsTypeOK, SteerStates
  <2>2. CountersTypeOK'
    BY <1>2, ConstantsType DEF ToolResult, AfterItem, ClaimCut, TakeDenial, loopVars,
        queueVars, retryVars, askVars, handleVars, Streamed, TypeOK, CountersTypeOK
  <2>3. ChannelsTypeOK'
    BY <1>2 DEF ToolResult, AfterItem, ClaimCut, TakeDenial, loopVars, queueVars,
        retryVars, askVars, handleVars, Streamed, TypeOK, ChannelsTypeOK
  <2>4. RunsTypeOK'
    BY <1>2 DEF ToolResult, AfterItem, ClaimCut, TakeDenial, loopVars, queueVars,
        retryVars, askVars, handleVars, Streamed, TypeOK, RunsTypeOK, RunStates, Phases,
        Decisions, Finishing, ReplyStates
  <2> QED BY <2>1, <2>2, <2>3, <2>4 DEF TypeOK
<1>3. CASE RuleDenies(t)
  BY <1>3, ConstantsType
  DEF RuleDenies, loopVars, queueVars, retryVars, askVars, handleVars, runVars, TypeOK,
      FlagsTypeOK, CountersTypeOK, ChannelsTypeOK, RunsTypeOK
<1>4. CASE AskUser(t)
  BY <1>4, ConstantsType
  DEF AskUser, loopVars, queueVars, retryVars, handleVars, runVars, TypeOK, FlagsTypeOK,
      CountersTypeOK, ChannelsTypeOK, RunsTypeOK, RunStates
<1>5. CASE ReplyDone(t)
  BY <1>5, ConstantsType
  DEF ReplyDone, Ends, Streamed, loopVars, queueVars, retryVars, askVars, handleVars,
      TypeOK, FlagsTypeOK, CountersTypeOK, ChannelsTypeOK, RunsTypeOK, RunStates,
      Decisions, Finishing, ReplyStates
<1>6. CASE StopAtBoundary(t)
  BY <1>6, ConstantsType
  DEF StopAtBoundary, Ends, loopVars, queueVars, retryVars, askVars, handleVars, TypeOK,
      FlagsTypeOK, CountersTypeOK, ChannelsTypeOK, RunsTypeOK, RunStates, Decisions,
      Finishing
<1>7. CASE ProviderFails(t)
  <2>1. FlagsTypeOK'
    BY <1>7 DEF ProviderFails, Ends, loopVars, queueVars, retryVars, askVars,
        handleVars, TypeOK, FlagsTypeOK, SteerStates
  <2>2. CountersTypeOK'
    BY <1>7, ConstantsType DEF ProviderFails, Ends, loopVars, queueVars, retryVars,
        askVars, handleVars, TypeOK, CountersTypeOK
  <2>3. ChannelsTypeOK'
    BY <1>7 DEF ProviderFails, Ends, loopVars, queueVars, retryVars, askVars,
        handleVars, TypeOK, ChannelsTypeOK
  <2>4. RunsTypeOK'
    BY <1>7 DEF ProviderFails, Ends, loopVars, queueVars, retryVars, askVars,
        handleVars, TypeOK, RunsTypeOK, RunStates, Phases, Decisions, Finishing,
        ReplyStates
  <2> QED BY <2>1, <2>2, <2>3, <2>4 DEF TypeOK
<1>8. CASE Persist(t)
  BY <1>8, ConstantsType
  DEF Persist, loopVars, queueVars, retryVars, askVars, handleVars, Saved, TypeOK,
      FlagsTypeOK, CountersTypeOK, ChannelsTypeOK, RunsTypeOK, RunStates, ReplyStates
<1>9. CASE Report(t)
  <2>1. FlagsTypeOK'
    BY <1>9 DEF Report, loopVars, queueVars, retryVars, askVars, handleVars, TypeOK,
        FlagsTypeOK, SteerStates
  <2>2. CountersTypeOK'
    BY <1>9, ConstantsType DEF Report, loopVars, queueVars, retryVars, askVars,
        handleVars, TypeOK, CountersTypeOK
  <2>3. ChannelsTypeOK'
    <3>1. out[t] \in Decisions /\ (reply[t] # "empty") \in BOOLEAN
      BY DEF TypeOK, RunsTypeOK
    <3>2. PICK compacted \in BOOLEAN :
            done' = <<[run |-> t, kind |-> out[t],
                       flag |-> IF out[t] = "Overflowed" THEN compacted ELSE reply[t] # "empty"]>>
      BY <1>9 DEF Report
    <3>3. [run |-> t, kind |-> out[t],
           flag |-> IF out[t] = "Overflowed" THEN compacted ELSE reply[t] # "empty"] \in Outcomes
      BY <3>1 DEF Outcomes
    <3>4. steered' = steered
      BY <1>9 DEF Report, queueVars
    <3> QED BY <3>2, <3>3, <3>4 DEF TypeOK, ChannelsTypeOK
  <2>4. RunsTypeOK'
    BY <1>9 DEF Report, loopVars, queueVars, retryVars, askVars, handleVars, TypeOK,
        RunsTypeOK, RunStates, Phases, Decisions, Finishing, ReplyStates
  <2> QED BY <2>1, <2>2, <2>3, <2>4 DEF TypeOK
<1> QED BY <1>1, <1>2, <1>3, <1>4, <1>5, <1>6, <1>7, <1>8, <1>9
  DEF Stream, Terminal

LEMMA StepType == TypeOK /\ [Next]_vars => TypeOK'
<1> SUFFICES ASSUME TypeOK, [Next]_vars PROVE TypeOK'
  OBVIOUS
<1>1. CASE UNCHANGED vars
  BY <1>1
  DEF vars, TypeOK, FlagsTypeOK, CountersTypeOK, ChannelsTypeOK, RunsTypeOK
<1> QED BY <1>1, CommandType, LoopStepType, RunStepType DEF Next

\* The type invariant holds for every instance.
THEOREM TypeCorrect == Spec => []TypeOK
BY InitType, StepType, PTL DEF Spec

(***************************************************************************)
(* One stream at a time                                                    *)
(***************************************************************************)
\* Dismissing the asks wakes a run or leaves it alone: it lives all the same.
LEMMA DismissedLive ==
    TypeOK => \A t \in Runs : Dismissed[t] \in LiveStates <=> Live(t)
BY DEF TypeOK, RunsTypeOK, Dismissed, Live, LiveStates

\* A run spawned where nothing lives is the only one, and the one held.
LEMMA SpawnSole ==
    ASSUME TypeOK, NEW pcs \in [Runs -> RunStates], \A t \in Runs : pcs[t] \notin LiveStates,
           SpawnRun(pcs)
    PROVE  OneStream'
<1>1. active' = born + 1 /\ pc' = [pcs EXCEPT ![born + 1] = "stream"]
  BY DEF SpawnRun
<1>2. \A t \in Runs : t # born + 1 => pc'[t] = pcs[t]
  BY <1>1
<1> QED BY <1>1, <1>2 DEF OneStream, Live

\* start_user_turn where nothing lives leaves at most the run it spawned.
LEMMA StartSole ==
    ASSUME TypeOK, NEW pcs \in [Runs -> RunStates], \A t \in Runs : pcs[t] \notin LiveStates,
           NEW p, NEW signal, StartUserTurn(p, pcs, signal)
    PROVE  OneStream'
<1>1. CASE SpawnRun(pcs)
  BY <1>1, SpawnSole
<1>2. CASE pc' = pcs
  BY <1>2 DEF OneStream, Live
<1> QED BY <1>1, <1>2 DEF StartUserTurn

\* So does resume_last_turn.
LEMMA ResumeSole == ASSUME TypeOK, NoneLive, ResumeLastTurn PROVE OneStream'
<1>1. CASE SpawnRun(pc)
  BY <1>1, SpawnSole DEF TypeOK, RunsTypeOK, NoneLive, Live
<1>2. CASE pc' = pc
  BY <1>2 DEF NoneLive, OneStream, Live
<1> QED BY <1>1, <1>2 DEF ResumeLastTurn

\* No run exists yet.
LEMMA InitSole == Init => SoleRun
BY DEF Init, SoleRun, OneStream, NoneLive, Live, LiveStates

\* Where the held run is spent, nothing lives.
LEMMA IdleNone == ASSUME TypeOK, SoleRun, ~Streaming PROVE NoneLive
BY ConstantsType DEF SoleRun, OneStream, NoneLive, Streaming

\* A prompt is steered behind a busy agent, or starts a run beside dead ones.
LEMMA SendMessageSole ==
    ASSUME Windows = {}, TypeOK, SoleRun, SendMessage PROVE SoleRun'
<1>1. done = <<>> /\ done' = <<>> /\ loop' = "select"
  BY DEF SendMessage, TakeCommand, AtSelect, loopVars
<1>2. CASE UNCHANGED <<retryVars, handleVars, pc>>
  BY <1>1, <1>2 DEF SoleRun, OneStream, NoneLive, Live, retryVars, handleVars
<1>3. CASE /\ ~AgentBusy /\ pendingRetry' = FALSE
           /\ StartUserTurn(sent + 1, pc, "idle")
  <2>1. OneStream'
    <3>1. NoneLive
      BY <1>3, IdleNone DEF AgentBusy
    <3> QED BY <1>3, <3>1, StartSole DEF TypeOK, RunsTypeOK, NoneLive, Live
  <2> QED BY <1>1, <1>3, <2>1 DEF SoleRun
<1> QED BY <1>2, <1>3 DEF SendMessage

\* A cancel while nothing streams may dispatch the next queued prompt.
LEMMA CancelRetrySole ==
    ASSUME Windows = {}, TypeOK, SoleRun, CancelRetry PROVE SoleRun'
<1>1. /\ done = <<>> /\ done' = <<>> /\ loop' = "select"
      /\ pendingRetry' = FALSE
  BY DEF CancelRetry, TakeCommand, AtSelect, loopVars
<1>2. CASE pendingRetry /\ DispatchSteered(pc, "idle")
  <2>1. OneStream'
    BY <1>2, StartSole DEF DispatchSteered, SoleRun, NoneLive, Live, TypeOK, RunsTypeOK
  <2> QED BY <1>1, <2>1 DEF SoleRun
<1>3. CASE active' = HandleAfterNoCut /\ UNCHANGED pc
  <2>1. OneStream'
    BY <1>3, IdleNone DEF SoleRun, OneStream, NoneLive, Live, HandleAfterNoCut
  <2> QED BY <1>1, <2>1 DEF SoleRun
<1> QED BY <1>2, <1>3 DEF CancelRetry

\* A replay is refused while the agent is busy.
LEMMA ReplaySole ==
    ASSUME Windows = {}, TypeOK, SoleRun, Replay PROVE SoleRun'
<1>1. /\ done = <<>> /\ done' = <<>> /\ loop' = "select"
      /\ pendingRetry' = FALSE /\ ~Streaming
  BY DEF Replay, RetryDropped, TakeCommand, AtSelect, loopVars
<1>2. NoneLive
  BY <1>1, IdleNone
<1>3. CASE SpawnRun(pc)
  <2>1. OneStream'
    BY <1>2, <1>3, SpawnSole DEF NoneLive, Live, TypeOK, RunsTypeOK
  <2> QED BY <1>1, <2>1 DEF SoleRun
<1>4. CASE UNCHANGED <<active, pc>>
  BY <1>1, <1>4 DEF SoleRun, OneStream, Live
<1> QED BY <1>3, <1>4 DEF Replay

\* The abort kills the run held; what the handler starts next is alone.
LEMMA AbortCutSole ==
    ASSUME TypeOK, SoleRun, AbortCut PROVE SoleRun'
<1> DEFINE pcs == [Dismissed EXCEPT ![active] = IF Live(active) THEN "aborted" ELSE pc[active]]
<1>1. /\ Streaming /\ done = <<>> /\ done' = <<>> /\ loop' # "cut"
      /\ pendingRetry = FALSE /\ (pendingRetry' = pendingRetry \/ pendingRetry' = FALSE)
  <2>1. Streaming
    BY DEF AbortCut, SoleRun
  <2>2. ~NoneLive
    BY <2>1, ConstantsType DEF Streaming, NoneLive, TypeOK, CountersTypeOK
  <2> QED BY <2>1, <2>2 DEF AbortCut, SoleRun, TypeOK, FlagsTypeOK
<1>2. pcs \in [Runs -> RunStates] /\ \A t \in Runs : pcs[t] \notin LiveStates
  <2>1. active \in Runs
    BY <1>1, ConstantsType DEF Streaming, TypeOK, CountersTypeOK
  <2>2. Dismissed \in [Runs -> RunStates]
    BY DismissedType DEF TypeOK
  <2>3. \A t \in Runs : Dismissed[t] \in LiveStates => t = active
    BY DismissedLive DEF SoleRun, OneStream
  <2> QED BY <1>1, <2>1, <2>2, <2>3 DEF Streaming, LiveStates, RunStates
<1>3. OneStream'
  <2>1. CASE DispatchSteered(pcs, "idle")
    <3> HIDE DEF pcs
    <3> QED BY <1>2, <2>1, StartSole DEF DispatchSteered
  <2>2. CASE pc' = pcs
    <3> HIDE DEF pcs
    <3> QED BY <1>2, <2>2 DEF OneStream, Live
  <2> QED BY <2>1, <2>2 DEF AbortCut
<1> QED BY <1>1, <1>3 DEF SoleRun

\* An outcome that dispatches a prompt or resumes starts the only live run.
LEMMA HandleOutcomeSole ==
    ASSUME TypeOK, SoleRun, HandleOutcome PROVE SoleRun'
<1>1. NoneLive /\ ~pendingRetry /\ done' = <<>> /\ loop' = "select"
  BY DEF HandleOutcome, SoleRun, AtSelect, loopVars
<1>2. CASE HandleEnd
  <2>1. Dismissed \in [Runs -> RunStates] /\ \A t \in Runs : Dismissed[t] \notin LiveStates
    BY <1>1, DismissedType, DismissedLive DEF TypeOK, NoneLive
  <2>2. CASE DispatchSteered(Dismissed, RestArmed)
    BY <1>1, <1>2, <2>1, <2>2, StartSole DEF DispatchSteered, HandleEnd, SoleRun
  <2>3. CASE pc' = Dismissed
    BY <1>1, <1>2, <2>1, <2>3 DEF HandleEnd, SoleRun, OneStream, Live
  <2> QED BY <1>2, <2>2, <2>3 DEF HandleEnd
<1>3. CASE HandleOverflow
  <2>1. CASE ResumeLastTurn
    BY <1>1, <1>3, <2>1, ResumeSole DEF HandleOverflow, SoleRun
  <2>2. CASE UNCHANGED <<active, pc>>
    BY <1>1, <1>3, <2>2 DEF HandleOverflow, SoleRun, OneStream, Live
  <2> QED BY <1>3, <2>1, <2>2 DEF HandleOverflow
<1>4. CASE HandleFailure
  BY <1>1, <1>4 DEF HandleFailure, SoleRun, OneStream, NoneLive, Live
<1> QED BY <1>2, <1>3, <1>4 DEF HandleOutcome

\* A retry that fires resumes where nothing streams.
LEMMA RetryFiresSole ==
    ASSUME TypeOK, SoleRun, RetryFires PROVE SoleRun'
<1>1. /\ NoneLive /\ done = <<>> /\ done' = <<>> /\ loop' = "select"
      /\ pendingRetry' = FALSE
  BY DEF RetryFires, SoleRun, AtSelect, loopVars
<1>2. OneStream'
  BY <1>1, ResumeSole DEF RetryFires
<1> QED BY <1>1, <1>2 DEF SoleRun

\* Every step keeps the run the loop holds the only one that lives.
LEMMA SoleKept ==
    ASSUME Windows = {}, TypeOK, TypeOK', SoleRun, [Next]_vars
    PROVE  SoleRun'
<1>1. CASE SendMessage
  BY <1>1, SendMessageSole
<1>2. CASE CancelFlow
  BY <1>2
  DEF CancelFlow, loopVars, queueVars, retryVars, handleVars, TakeCommand, Dismissed,
      AtSelect, SoleRun, OneStream, NoneLive, Live, LiveStates
<1>3. CASE CancelCut
  BY <1>3
  DEF CancelCut, BeginCut, queueVars, retryVars, askVars, runVars, SoleRun, OneStream,
      NoneLive, Live, Streaming
<1>4. CASE CancelRetry
  BY <1>4, CancelRetrySole
<1>5. CASE RecallSteered
  BY <1>5
  DEF RecallSteered, loopVars, retryVars, askVars, handleVars, runVars, SoleRun,
      OneStream, NoneLive, Live, Streaming
<1>6. CASE ForkCut
  BY <1>6
  DEF ForkCut, BeginCut, queueVars, retryVars, askVars, runVars, SoleRun, OneStream,
      NoneLive, Live, Streaming
<1>7. CASE ForkSession
  BY <1>7
  DEF ForkSession, HandleAfterNoCut, RetryDropped, loopVars, askVars, runVars, SoleRun,
      OneStream, NoneLive, Live, Streaming
<1>8. CASE NewSession
  BY <1>8
  DEF NewSession, RetryDropped, loopVars, handleVars, runVars, Dismissed, SoleRun,
      OneStream, NoneLive, Live, LiveStates
<1>9. CASE LoadSession
  BY <1>9
  DEF LoadSession, RetryDropped, loopVars, handleVars, runVars, Dismissed, SoleRun,
      OneStream, NoneLive, Live, LiveStates
<1>10. CASE DeleteSession
  BY <1>10
  DEF DeleteSession, RetryDropped, loopVars, askVars, handleVars, runVars, SoleRun,
      OneStream, NoneLive, Live
<1>11. CASE DeleteBranch
  BY <1>11
  DEF DeleteBranch, RetryDropped, loopVars, askVars, handleVars, runVars, SoleRun,
      OneStream, NoneLive, Live
<1>12. CASE Replay
  BY <1>12, ReplaySole
<1>13. CASE Quit
  BY <1>13
  DEF Quit, BeginCut, HandleAfterNoCut, queueVars, retryVars, askVars, runVars, SoleRun,
      OneStream, NoneLive, Live, Streaming
<1>14. CASE AbortCut
  BY <1>14, AbortCutSole
<1>15. CASE Close
  BY <1>15
  DEF Close, queueVars, retryVars, askVars, handleVars, runVars, SoleRun, OneStream,
      NoneLive, Live
<1>16. CASE HandleOutcome
  BY <1>16, HandleOutcomeSole
<1>17. CASE RetryFires
  BY <1>17, RetryFiresSole
<1>18. CASE GraceFires
  BY <1>18
  DEF GraceFires, BeginCut, HandleAfterNoCut, loopVars, queueVars, retryVars, askVars,
      runVars, SoleRun, OneStream, NoneLive, Live, Streaming
<1>19. ASSUME NEW t \in Runs, Answer(t) PROVE SoleRun'
  BY <1>19
  DEF Answer, loopVars, queueVars, retryVars, handleVars, runVars, SoleRun, OneStream,
      NoneLive, Live, LiveStates, Streaming
<1>20. ASSUME NEW t \in Runs, ReceiveAsk(t) PROVE SoleRun'
  BY <1>20
  DEF ReceiveAsk, loopVars, queueVars, retryVars, handleVars, runVars, SoleRun,
      OneStream, NoneLive, Live, Streaming
<1>21. ASSUME NEW t \in Runs, NEW ph \in Phases, StartAction(t, ph) PROVE SoleRun'
  BY <1>21
  DEF StartAction, AfterItem, ClaimCut, TakeDenial, loopVars, queueVars, retryVars,
      askVars, handleVars, StreamStep, Scheduled, TypeOK, RunsTypeOK, SoleRun,
      OneStream, NoneLive, Live, LiveStates
<1>22. ASSUME NEW t \in Runs, NEW ph \in Phases, ToolResult(t, ph) PROVE SoleRun'
  BY <1>22
  DEF ToolResult, AfterItem, ClaimCut, TakeDenial, loopVars, queueVars, retryVars,
      askVars, handleVars, StreamStep, Scheduled, TypeOK, RunsTypeOK, SoleRun,
      OneStream, NoneLive, Live, LiveStates
<1>23. ASSUME NEW t \in Runs, RuleDenies(t) PROVE SoleRun'
  BY <1>23
  DEF RuleDenies, loopVars, queueVars, retryVars, askVars, handleVars, runVars, SoleRun,
      OneStream, NoneLive, Live, Streaming
<1>24. ASSUME NEW t \in Runs, AskUser(t) PROVE SoleRun'
  BY <1>24
  DEF AskUser, loopVars, queueVars, retryVars, handleVars, runVars, StreamStep,
      Scheduled, SoleRun, OneStream, NoneLive, Live, LiveStates
<1>25. ASSUME NEW t \in Runs, ReplyDone(t) PROVE SoleRun'
  BY <1>25
  DEF ReplyDone, Ends, loopVars, queueVars, retryVars, askVars, handleVars, StreamStep,
      Scheduled, SoleRun, OneStream, NoneLive, Live, LiveStates
<1>26. ASSUME NEW t \in Runs, StopAtBoundary(t) PROVE SoleRun'
  BY <1>26
  DEF StopAtBoundary, Ends, loopVars, queueVars, retryVars, askVars, handleVars,
      StreamStep, Scheduled, SoleRun, OneStream, NoneLive, Live, LiveStates
<1>27. ASSUME NEW t \in Runs, ProviderFails(t) PROVE SoleRun'
  BY <1>27
  DEF ProviderFails, Ends, loopVars, queueVars, retryVars, askVars, handleVars,
      StreamStep, Scheduled, TypeOK, RunsTypeOK, SoleRun, OneStream, NoneLive, Live,
      LiveStates
<1>28. ASSUME NEW t \in Runs, Persist(t) PROVE SoleRun'
  BY <1>28
  DEF Persist, loopVars, queueVars, retryVars, askVars, handleVars, SoleRun, OneStream,
      NoneLive, Live, LiveStates, Streaming
<1>29. ASSUME NEW t \in Runs, Report(t) PROVE SoleRun'
  BY <1>29
  DEF Report, loopVars, queueVars, retryVars, askVars, handleVars, Scheduled, TypeOK,
      RunsTypeOK, SoleRun, OneStream, NoneLive, Live, LiveStates
<1>30. CASE UNCHANGED vars
  BY <1>30 DEF vars, SoleRun, OneStream, NoneLive, Live, Streaming
<1> QED
  BY <1>1, <1>2, <1>3, <1>4, <1>5, <1>6, <1>7, <1>8, <1>9, <1>10, <1>11, <1>12, <1>13,
     <1>14, <1>15, <1>16, <1>17, <1>18, <1>19, <1>20, <1>21, <1>22, <1>23, <1>24, <1>25,
     <1>26, <1>27, <1>28, <1>29, <1>30
  DEF Next, Command, LoopStep, Stream, Terminal

(***************************************************************************)
(* Cuts, terminal sequences and the shutdown                               *)
(***************************************************************************)
\* What a run that starts, or fails to, where nothing lives does to the runs.
StartsOne ==
    /\ born' \in {born, born + 1} /\ UNCHANGED out
    /\ \A t \in Runs : \/ pc'[t] = pc[t]
                       \/ t = born + 1 /\ born' = born + 1 /\ pc'[t] = "stream"

\* A spawn, or a start that failed before it, leaves the other runs alone.
LEMMA SpawnStarts ==
    ASSUME TypeOK, NEW pcs \in [Runs -> RunStates], \A t \in Runs : pcs[t] = pc[t],
           SpawnRun(pcs) \/ (pc' = pcs /\ born' = born), UNCHANGED out
    PROVE  StartsOne
<1>1. CASE SpawnRun(pcs)
  <2>1. /\ born' = born + 1
        /\ pc' = [pcs EXCEPT ![born + 1] = "stream"]
    BY <1>1 DEF SpawnRun
  <2> QED BY <2>1 DEF StartsOne
<1>2. CASE pc' = pcs /\ born' = born
  BY <1>2 DEF StartsOne
<1> QED BY <1>1, <1>2

\* Where nothing lives, no run waits on an ask.
LEMMA DismissedQuiet == ASSUME TypeOK, NoneLive PROVE \A t \in Runs : Dismissed[t] = pc[t]
BY DEF TypeOK, RunsTypeOK, Dismissed, NoneLive, Live, LiveStates

\* The handlers that may start a run do nothing else to the runs.
LEMMA HandlersStart ==
    ASSUME Windows = {}, TypeOK, SoleRun,
           SendMessage \/ CancelRetry \/ Replay \/ HandleOutcome \/ RetryFires
    PROVE  StartsOne /\ UNCHANGED reply
<1>1. UNCHANGED <<out, reply>>
  BY DEF SendMessage, CancelRetry, Replay, HandleOutcome, RetryFires, runVars
<1>2. pc \in [Runs -> RunStates]
  BY DEF TypeOK, RunsTypeOK
<1>3. CASE SpawnRun(pc) \/ (pc' = pc /\ born' = born)
  BY <1>1, <1>2, <1>3, SpawnStarts
<1>4. CASE HandleOutcome /\ HandleEnd
  <2>1. NoneLive
    BY <1>4 DEF HandleOutcome, SoleRun
  <2>2. Dismissed \in [Runs -> RunStates] /\ \A t \in Runs : Dismissed[t] = pc[t]
    BY <2>1, DismissedType, DismissedQuiet DEF TypeOK
  <2>3. SpawnRun(Dismissed) \/ (pc' = Dismissed /\ born' = born)
    BY <1>4 DEF HandleEnd, DispatchSteered, StartUserTurn
  <2> QED BY <1>1, <2>2, <2>3, SpawnStarts
<1> QED BY <1>1, <1>3, <1>4
DEF SendMessage, CancelRetry, Replay, HandleOutcome, HandleOverflow, HandleFailure,
    RetryFires, StartUserTurn, DispatchSteered, ResumeLastTurn

\* FINALIZING is not set where nothing lives and no cut is reported.
LEMMA NotFinalizing ==
    ASSUME NoneLive, FinalizingOwned, loop = "select",
           done = <<>> \/ done[1].kind # "Preempted"
    PROVE  steer # "finalizing"
BY DEF NoneLive, FinalizingOwned, Live, LiveStates

\* A spawn where nothing lives disturbs none of it.
LEMMA StartsKeep ==
    ASSUME TypeOK, NoneLive, Decided, CutsKnown, StartsOne, loop' = "select"
    PROVE  Decided' /\ CutsKnown' /\ Closed'
<1>1. Decided'
  BY ConstantsType DEF TypeOK, CountersTypeOK, Decided, StartsOne
<1>2. \A t \in Runs : Live(t)' => out'[t] = "none"
  BY ConstantsType DEF TypeOK, CountersTypeOK, NoneLive, Live, Decided, StartsOne
<1>3. TerminalNotTorn'
  BY ConstantsType DEF CutsKnown, TerminalNotTorn, StartsOne
<1> QED BY <1>1, <1>2, <1>3 DEF CutsKnown, Closed

CutInv == Decided /\ CutsKnown /\ FinalizingOwned /\ Closed

\* A prompt sent, steered or dispatched leaves every claimed cut its own.
LEMMA SendMessageCuts ==
    ASSUME Windows = {}, TypeOK, SoleRun, CutInv, SendMessage PROVE CutInv'
<1>1. /\ loop = "select" /\ loop' = "select" /\ done = <<>> /\ done' = <<>>
      /\ UNCHANGED out
  BY DEF SendMessage, TakeCommand, AtSelect, loopVars, runVars
<1>2. CASE steer' \in Armed /\ UNCHANGED <<born, pc>>
  BY <1>1, <1>2
  DEF Armed, Stored, CutInv, Decided, CutsKnown, TerminalNotTorn, FinalizingOwned,
      Closed, Live
<1>3. CASE ~AgentBusy /\ StartUserTurn(sent + 1, pc, "idle")
  <2>1. NoneLive
    BY <1>3, IdleNone DEF AgentBusy
  <2>2. StartsOne
    BY HandlersStart
  <2>3. steer' = "idle"
    BY <1>3 DEF StartUserTurn
  <2> QED BY <1>1, <2>1, <2>2, <2>3, StartsKeep DEF CutInv, FinalizingOwned
<1> QED BY <1>2, <1>3 DEF SendMessage

\* So does a cancel that finds nothing to cut.
LEMMA CancelRetryCuts ==
    ASSUME Windows = {}, TypeOK, SoleRun, CutInv, CancelRetry PROVE CutInv'
<1>1. /\ loop = "select" /\ loop' = "select" /\ done = <<>> /\ done' = <<>>
      /\ UNCHANGED out
  BY DEF CancelRetry, TakeCommand, AtSelect, loopVars, runVars
<1>2. CASE pendingRetry /\ DispatchSteered(pc, "idle")
  <2>1. StartsOne
    BY HandlersStart
  <2>2. steer' = "idle"
    BY <1>2 DEF DispatchSteered, StartUserTurn
  <2> QED BY <1>1, <1>2, <2>1, <2>2, StartsKeep DEF SoleRun, CutInv, FinalizingOwned
<1>3. CASE steer' = (IF pendingRetry THEN "idle" ELSE steer) /\ UNCHANGED <<born, pc>>
  BY <1>1, <1>3
  DEF SoleRun, NoneLive, CutInv, Decided, CutsKnown, TerminalNotTorn, FinalizingOwned,
      Closed, Live
<1> QED BY <1>2, <1>3 DEF CancelRetry

\* So does a replay.
LEMMA ReplayCuts ==
    ASSUME Windows = {}, TypeOK, SoleRun, CutInv, Replay PROVE CutInv'
<1>1. /\ loop' = "select" /\ steer' = "idle" /\ ~Streaming /\ UNCHANGED out
  BY DEF Replay, TakeCommand, AtSelect, loopVars, runVars
<1>2. NoneLive
  BY <1>1, IdleNone
<1>3. StartsOne
  BY HandlersStart
<1> QED BY <1>1, <1>2, <1>3, StartsKeep DEF CutInv, FinalizingOwned

\* The outcome of a claimed cut takes its claim back.
LEMMA HandleOutcomeCuts ==
    ASSUME Windows = {}, TypeOK, SoleRun, CutInv, HandleOutcome PROVE CutInv'
<1>1. /\ NoneLive /\ loop = "select" /\ loop' = "select" /\ UNCHANGED out
  BY DEF HandleOutcome, SoleRun, AtSelect, loopVars, runVars
<1>2. StartsOne
  BY HandlersStart
<1>3. steer' # "finalizing"
  <2>1. CASE HandleEnd
    BY <2>1 DEF HandleEnd, DispatchSteered, StartUserTurn, RestArmed
  <2>2. CASE ~HandleEnd
    <3>1. steer # "finalizing"
      BY <1>1, <2>2, NotFinalizing
      DEF HandleOutcome, HandleOverflow, HandleFailure, CutInv
    <3> QED BY <2>2, <3>1 DEF HandleOutcome, HandleOverflow, HandleFailure
  <2> QED BY <2>1, <2>2
<1> QED BY <1>1, <1>2, <1>3, StartsKeep DEF CutInv, FinalizingOwned

\* A retry starts where no cut is claimed.
LEMMA RetryFiresCuts ==
    ASSUME Windows = {}, TypeOK, SoleRun, CutInv, RetryFires PROVE CutInv'
<1>1. /\ NoneLive /\ done = <<>> /\ loop = "select" /\ loop' = "select"
      /\ UNCHANGED <<out, steer>>
  BY DEF RetryFires, SoleRun, AtSelect, loopVars, runVars
<1>2. StartsOne
  BY HandlersStart
<1>3. steer' # "finalizing"
  BY <1>1, NotFinalizing DEF CutInv
<1> QED BY <1>1, <1>2, <1>3, StartsKeep DEF CutInv, FinalizingOwned

\* What the loop aborts had decided nothing yet, or a denial.
LEMMA AbortedRun ==
    ASSUME TypeOK, SoleRun, Decided, CutsKnown, loop = "cut"
    PROVE  /\ active \in Runs /\ Live(active) /\ steer # "finalizing"
           /\ out[active] \notin Finishing \cup {"Preempted"}
           /\ \A t \in Runs : t # active => ~Live(t)
BY ConstantsType
DEF TypeOK, CountersTypeOK, SoleRun, OneStream, Streaming, CutsKnown, CutGuarded

\* The runs after an abort: the held one aborted, the others as they were, a
\* steered prompt's perhaps spawned.
LEMMA AbortMoves ==
    ASSUME TypeOK, SoleRun, Decided, CutsKnown, AbortCut
    PROVE  /\ born' \in {born, born + 1} /\ UNCHANGED out
           /\ \A t \in Runs : \/ t = active /\ pc'[t] = "aborted"
                              \/ t # active /\ pc'[t] = pc[t] /\ ~Live(t)
                              \/ /\ t = born + 1 /\ born' = born + 1 /\ pc'[t] = "stream"
                                 /\ cutFor # "quit"
<1> DEFINE pcs == [Dismissed EXCEPT ![active] = IF Live(active) THEN "aborted" ELSE pc[active]]
<1>1. /\ active \in Runs /\ Live(active)
      /\ \A t \in Runs : t # active => ~Live(t)
  BY AbortedRun DEF AbortCut
<1>2. /\ pcs \in [Runs -> RunStates] /\ pcs[active] = "aborted"
      /\ \A t \in Runs : t # active => pcs[t] = pc[t]
  <2>1. Dismissed \in [Runs -> RunStates]
    BY DismissedType DEF TypeOK
  <2>2. \A t \in Runs : ~Live(t) => Dismissed[t] = pc[t]
    BY DEF Dismissed, Live, LiveStates
  <2> QED BY <1>1, <2>1, <2>2 DEF RunStates
<1>3. \/ SpawnRun(pcs) /\ cutFor # "quit"
      \/ pc' = pcs /\ born' = born
  BY DEF AbortCut, DispatchSteered, StartUserTurn
<1>4. UNCHANGED out
  BY DEF AbortCut
<1> HIDE DEF pcs
<1>5. CASE SpawnRun(pcs) /\ cutFor # "quit"
  <2>1. born' = born + 1 /\ pc' = [pcs EXCEPT ![born + 1] = "stream"]
    BY <1>5 DEF SpawnRun
  <2>2. \A t \in Runs : t # born + 1 => pc'[t] = pcs[t]
    BY <1>2, <2>1
  <2>3. \A t \in Runs : t = born + 1 => pc'[t] = "stream"
    BY <1>2, <2>1
  <2> QED BY <1>1, <1>2, <1>4, <1>5, <2>1, <2>2, <2>3
<1>6. CASE pc' = pcs /\ born' = born
  BY <1>1, <1>2, <1>4, <1>6
<1> QED BY <1>3, <1>5, <1>6

\* The abort is of a run that has claimed nothing and finishes nothing.
LEMMA AbortCutCuts ==
    ASSUME TypeOK, SoleRun, CutInv, AbortCut PROVE CutInv'
<1>1. /\ active \in Runs /\ Live(active) /\ steer # "finalizing" /\ loop' # "cut"
      /\ out[active] \notin Finishing \cup {"Preempted"}
  BY AbortedRun DEF AbortCut, CutInv
<1>2. steer' # "finalizing"
  BY <1>1 DEF AbortCut, DispatchSteered, StartUserTurn
<1>3. /\ born' \in {born, born + 1} /\ UNCHANGED out
      /\ \A t \in Runs : \/ t = active /\ pc'[t] = "aborted"
                         \/ t # active /\ pc'[t] = pc[t] /\ ~Live(t)
                         \/ /\ t = born + 1 /\ born' = born + 1 /\ pc'[t] = "stream"
                            /\ cutFor # "quit"
  BY AbortMoves DEF CutInv
<1>4. Decided'
  BY <1>1, <1>3 DEF CutInv, Decided, TypeOK, CountersTypeOK, Live, LiveStates
<1>5. CutsKnown'
  <2>1. \A t \in Runs : Live(t)' => out'[t] = "none"
    BY <1>1, <1>3 DEF CutInv, Decided, TypeOK, CountersTypeOK, Live, LiveStates
  <2>2. TerminalNotTorn'
    BY <1>1, <1>3 DEF CutInv, CutsKnown, TerminalNotTorn
  <2> QED BY <1>1, <2>1, <2>2 DEF CutsKnown
<1>6. Closed'
  BY <1>3 DEF AbortCut, Closed, Live, LiveStates
<1> QED BY <1>2, <1>4, <1>5, <1>6 DEF CutInv, FinalizingOwned

\* The shutdown waits only for runs that are past their stream.
LEMMA QuitCloses ==
    ASSUME TypeOK, SoleRun, CutInv, Quit PROVE Closed'
<1>1. CASE BeginCut("quit")
  BY <1>1 DEF BeginCut, Closed
<1>2. CASE NothingToCut /\ UNCHANGED pc
  <2>1. loop = "select"
    BY DEF Quit, AtSelect
  <2>2. CASE Streaming /\ steer = "finalizing"
    <3>1. active \in Runs /\ Live(active) /\ done = <<>>
      BY <2>2, ConstantsType DEF Streaming, SoleRun, NoneLive, TypeOK, CountersTypeOK
    <3>2. PICK t \in Runs : out[t] = "Preempted" /\ pc[t] \in {"cut", "report"}
      BY <2>1, <2>2, <3>1 DEF CutInv, FinalizingOwned
    <3>3. \A u \in Runs : pc[u] \in {"stream", "ask"} => u = active /\ t = active
      BY <3>2 DEF SoleRun, OneStream, Live, LiveStates
    <3> QED BY <1>2, <3>2, <3>3 DEF Closed
  <2>3. CASE Streaming /\ out[active] \in Finishing
    <3>1. \A u \in Runs : pc[u] \in {"stream", "ask"} => u = active /\ out[u] = "none"
      BY DEF SoleRun, OneStream, Live, LiveStates, CutInv, Decided
    <3> QED BY <1>2, <2>3, <3>1 DEF Closed, Finishing
  <2>4. CASE ~Streaming
    BY <1>2, <2>4, IdleNone DEF NoneLive, Live, LiveStates, Closed
  <2> QED BY <1>2, <2>2, <2>3, <2>4 DEF NothingToCut, CutGuarded
<1> QED BY <1>1, <1>2 DEF Quit

\* The shutdown aborts only what the guards let it.
LEMMA QuitCuts ==
    ASSUME TypeOK, SoleRun, CutInv, Quit PROVE CutInv'
<1>1. loop = "select" /\ UNCHANGED <<born, pc, out, steer, done>>
  BY DEF Quit, BeginCut, AtSelect, runVars
<1>2. Decided' /\ TerminalNotTorn' /\ FinalizingOwned'
  BY <1>1 DEF Quit, CutInv, Decided, CutsKnown, TerminalNotTorn, FinalizingOwned
<1>3. CutsKnown'
  BY <1>1, <1>2 DEF Quit, BeginCut, CutInv, CutsKnown, CutGuarded, Live
<1> QED BY <1>2, <1>3, QuitCloses DEF CutInv

\* An item leaves its run streaming, or moves it into a cut of its own.
LEMMA ItemCuts ==
    ASSUME Windows = {}, TypeOK, SoleRun, CutInv, NEW t \in Runs, StreamStep(t),
           UNCHANGED <<loop, active, born, done>>,
           UNCHANGED <<pc, out, steer>> \/ ClaimCut(t) \/ TakeDenial(t)
    PROVE  CutInv'
<1>1. t = active /\ loop \notin {"cut", "ended"} /\ pc[t] = "stream" /\ t <= born
  BY ConstantsType
  DEF StreamStep, Scheduled, SoleRun, OneStream, Live, LiveStates, CutInv, Decided,
      TypeOK, CountersTypeOK
<1>2. CASE UNCHANGED <<pc, out, steer>>
  BY <1>2
  DEF CutInv, Decided, CutsKnown, TerminalNotTorn, FinalizingOwned, Closed, CutGuarded,
      Live
<1>3. ASSUME NEW kind \in {"Preempted", "Denied"}, pc' = [pc EXCEPT ![t] = "cut"],
             out' = [out EXCEPT ![t] = kind],
             IF kind = "Preempted" THEN steer' = "finalizing" ELSE UNCHANGED steer
      PROVE  CutInv'
  <2>1. /\ pc'[t] = "cut" /\ out'[t] = kind
        /\ \A u \in Runs : u # t => pc'[u] = pc[u] /\ out'[u] = out[u] /\ ~Live(u)
    BY <1>1, <1>3 DEF TypeOK, RunsTypeOK, SoleRun, OneStream
  <2>2. Decided'
    BY <1>1, <1>3, <2>1 DEF CutInv, Decided
  <2>3. CutsKnown'
    BY <1>1, <1>3, <2>1 DEF CutInv, CutsKnown, TerminalNotTorn, Live
  <2>4. FinalizingOwned'
    BY <1>1, <1>3, <2>1 DEF CutInv, FinalizingOwned, Live, LiveStates
  <2>5. Closed'
    BY <1>1, <1>3, <2>1 DEF CutInv, Closed
  <2> QED BY <2>2, <2>3, <2>4, <2>5 DEF CutInv
<1>4. CASE ClaimCut(t)
  BY <1>3, <1>4 DEF ClaimCut
<1>5. CASE TakeDenial(t)
  BY <1>3, <1>5 DEF TakeDenial
<1> QED BY <1>2, <1>4, <1>5

\* An item that starts an action claims at most its own run's cut.
LEMMA StartActionCuts ==
    ASSUME Windows = {}, TypeOK, SoleRun, CutInv, NEW t \in Runs, NEW ph \in Phases,
           StartAction(t, ph)
    PROVE  CutInv'
<1>1. UNCHANGED <<pc, out, steer>> \/ ClaimCut(t) \/ TakeDenial(t)
  BY DEF StartAction, AfterItem
<1> QED BY <1>1, ItemCuts DEF StartAction, loopVars, handleVars

\* So does a tool's result.
LEMMA ToolResultCuts ==
    ASSUME Windows = {}, TypeOK, SoleRun, CutInv, NEW t \in Runs, NEW ph \in Phases,
           ToolResult(t, ph)
    PROVE  CutInv'
<1>1. UNCHANGED <<pc, out, steer>> \/ ClaimCut(t) \/ TakeDenial(t)
  BY DEF ToolResult, AfterItem
<1> QED BY <1>1, ItemCuts DEF ToolResult, loopVars, handleVars

\* A run whose stream ends is under the `finishing` guard from then on.
LEMMA EndsCuts ==
    ASSUME Windows = {}, TypeOK, SoleRun, CutInv, NEW t \in Runs, NEW kind \in Finishing,
           Ends(t, kind)
    PROVE  CutInv'
<1>1. /\ loop \notin {"cut", "ended"} /\ pc[t] = "stream" /\ pc'[t] = "finish" /\ out'[t] = kind
      /\ \A u \in Runs : u # t => pc'[u] = pc[u] /\ out'[u] = out[u]
      /\ UNCHANGED <<loop, born, steer, done>>
  BY DEF Ends, StreamStep, Scheduled, loopVars, TypeOK, RunsTypeOK
<1>2. Decided'
  BY <1>1 DEF CutInv, Decided
<1>3. CutsKnown'
  BY <1>1 DEF CutInv, CutsKnown, TerminalNotTorn, Live, Finishing
<1>4. FinalizingOwned'
  BY <1>1 DEF CutInv, FinalizingOwned
<1>5. Closed'
  BY <1>1 DEF CutInv, Closed
<1> QED BY <1>2, <1>3, <1>4, <1>5 DEF CutInv

\* The grace aborts under the same guards as a cancel.
LEMMA GraceFiresCuts ==
    ASSUME TypeOK, SoleRun, CutInv, GraceFires PROVE CutInv'
<1>1. loop = "select" /\ UNCHANGED <<born, pc, out, steer, done>>
  BY DEF GraceFires, BeginCut, AtSelect, runVars
<1>2. Decided' /\ TerminalNotTorn' /\ FinalizingOwned'
  BY <1>1
  DEF GraceFires, CutInv, Decided, CutsKnown, TerminalNotTorn, FinalizingOwned, loopVars
<1>3. CutsKnown'
  BY <1>1, <1>2 DEF GraceFires, BeginCut, loopVars, CutInv, CutsKnown, CutGuarded, Live
<1>4. Closed'
  BY <1>1 DEF GraceFires, BeginCut, loopVars, Closed
<1> QED BY <1>2, <1>3, <1>4 DEF CutInv

\* Every step keeps the cuts, the terminal sequences and the shutdown in order.
LEMMA CutsKept ==
    ASSUME Windows = {}, TypeOK, TypeOK', SoleRun, CutInv, [Next]_vars
    PROVE  CutInv'
<1>1. CASE SendMessage
  BY <1>1, SendMessageCuts
<1>2. CASE CancelFlow
  BY <1>2
  DEF CancelFlow, loopVars, queueVars, retryVars, handleVars, Dismissed, CutInv,
      Decided, CutsKnown, CutGuarded, TerminalNotTorn, FinalizingOwned, Closed, Live
<1>3. CASE CancelCut
  BY <1>3
  DEF CancelCut, BeginCut, queueVars, retryVars, askVars, runVars, CutInv, Decided,
      CutsKnown, CutGuarded, TerminalNotTorn, FinalizingOwned, Closed, Live
<1>4. CASE CancelRetry
  BY <1>4, CancelRetryCuts
<1>5. CASE RecallSteered
  BY <1>5
  DEF RecallSteered, Stored, loopVars, retryVars, askVars, handleVars, runVars, CutInv,
      Decided, CutsKnown, CutGuarded, TerminalNotTorn, FinalizingOwned, Closed, Live
<1>6. CASE ForkCut
  BY <1>6
  DEF ForkCut, BeginCut, queueVars, retryVars, askVars, runVars, CutInv, Decided,
      CutsKnown, CutGuarded, TerminalNotTorn, FinalizingOwned, Closed, Live
<1>7. CASE ForkSession
  BY <1>7
  DEF ForkSession, QueueCleared, Disarmed, loopVars, askVars, runVars, NothingToCut,
      CutInv, Decided, CutsKnown, TerminalNotTorn, FinalizingOwned, Closed, SoleRun,
      Live
<1>8. CASE NewSession
  BY <1>8
  DEF NewSession, QueueCleared, Disarmed, loopVars, handleVars, runVars, Dismissed,
      CutInv, Decided, CutsKnown, TerminalNotTorn, FinalizingOwned, Closed, SoleRun,
      Live
<1>9. CASE LoadSession
  BY <1>9
  DEF LoadSession, QueueCleared, Disarmed, loopVars, handleVars, runVars, Dismissed,
      CutInv, Decided, CutsKnown, TerminalNotTorn, FinalizingOwned, Closed, SoleRun,
      Live
<1>10. CASE DeleteSession
  BY <1>10
  DEF DeleteSession, QueueCleared, Disarmed, loopVars, askVars, handleVars, runVars,
      CutInv, Decided, CutsKnown, TerminalNotTorn, FinalizingOwned, Closed, SoleRun,
      Live
<1>11. CASE DeleteBranch
  BY <1>11
  DEF DeleteBranch, QueueCleared, Disarmed, loopVars, askVars, handleVars, runVars,
      CutInv, Decided, CutsKnown, TerminalNotTorn, FinalizingOwned, Closed, SoleRun,
      Live
<1>12. CASE Replay
  BY <1>12, ReplayCuts
<1>13. CASE Quit
  BY <1>13, QuitCuts
<1>14. CASE AbortCut
  BY <1>14, AbortCutCuts
<1>15. CASE Close
  BY <1>15
  DEF Close, queueVars, retryVars, askVars, handleVars, runVars, CutInv, Decided,
      CutsKnown, TerminalNotTorn, FinalizingOwned, Closed, Live
<1>16. CASE HandleOutcome
  BY <1>16, HandleOutcomeCuts
<1>17. CASE RetryFires
  BY <1>17, RetryFiresCuts
<1>18. CASE GraceFires
  BY <1>18, GraceFiresCuts
<1>19. ASSUME NEW t \in Runs, Answer(t) PROVE CutInv'
  BY <1>19
  DEF Answer, loopVars, queueVars, retryVars, handleVars, runVars, CutInv, Decided,
      CutsKnown, CutGuarded, TerminalNotTorn, FinalizingOwned, Closed, Live
<1>20. ASSUME NEW t \in Runs, ReceiveAsk(t) PROVE CutInv'
  BY <1>20
  DEF ReceiveAsk, loopVars, queueVars, retryVars, handleVars, runVars, CutInv, Decided,
      CutsKnown, CutGuarded, TerminalNotTorn, FinalizingOwned, Closed, Live
<1>21. ASSUME NEW t \in Runs, NEW ph \in Phases, StartAction(t, ph) PROVE CutInv'
  BY <1>21, StartActionCuts
<1>22. ASSUME NEW t \in Runs, NEW ph \in Phases, ToolResult(t, ph) PROVE CutInv'
  BY <1>22, ToolResultCuts
<1>23. ASSUME NEW t \in Runs, RuleDenies(t) PROVE CutInv'
  BY <1>23
  DEF RuleDenies, loopVars, queueVars, retryVars, askVars, handleVars, runVars, CutInv,
      Decided, CutsKnown, CutGuarded, TerminalNotTorn, FinalizingOwned, Closed, Live
<1>24. ASSUME NEW t \in Runs, AskUser(t) PROVE CutInv'
  BY <1>24
  DEF AskUser, loopVars, queueVars, retryVars, handleVars, runVars, StreamStep,
      Scheduled, CutInv, Decided, CutsKnown, TerminalNotTorn, FinalizingOwned, Closed,
      Live
<1>25. ASSUME NEW t \in Runs, ReplyDone(t) PROVE CutInv'
  BY <1>25, EndsCuts DEF ReplyDone, Finishing
<1>26. ASSUME NEW t \in Runs, StopAtBoundary(t) PROVE CutInv'
  BY <1>26, EndsCuts DEF StopAtBoundary, Finishing
<1>27. ASSUME NEW t \in Runs, ProviderFails(t) PROVE CutInv'
  BY <1>27, EndsCuts DEF ProviderFails, Finishing
<1>28. ASSUME NEW t \in Runs, Persist(t) PROVE CutInv'
  BY <1>28
  DEF Persist, loopVars, queueVars, retryVars, askVars, handleVars, CutInv, Decided,
      CutsKnown, CutGuarded, TerminalNotTorn, FinalizingOwned, Closed, Finishing, Live,
      LiveStates
<1>29. ASSUME NEW t \in Runs, Report(t) PROVE CutInv'
  BY <1>29
  DEF Report, loopVars, queueVars, retryVars, askVars, handleVars, TypeOK, RunsTypeOK,
      CutInv, Decided, CutsKnown, CutGuarded, TerminalNotTorn, FinalizingOwned, Closed,
      Finishing, Live
<1>30. CASE UNCHANGED vars
  BY <1>30
  DEF vars, CutInv, Decided, CutsKnown, CutGuarded, TerminalNotTorn, FinalizingOwned,
      Closed, Live
<1> QED
  BY <1>1, <1>2, <1>3, <1>4, <1>5, <1>6, <1>7, <1>8, <1>9, <1>10, <1>11, <1>12, <1>13,
     <1>14, <1>15, <1>16, <1>17, <1>18, <1>19, <1>20, <1>21, <1>22, <1>23, <1>24, <1>25,
     <1>26, <1>27, <1>28, <1>29, <1>30
  DEF Next, Command, LoopStep, Stream, Terminal

(***************************************************************************)
(* What a run streamed is written once                                     *)
(***************************************************************************)
LEMMA StartsReplies ==
    ASSUME TypeOK, Decided, RepliesSettled, StartsOne, UNCHANGED reply
    PROVE  RepliesSettled'
BY ConstantsType DEF TypeOK, CountersTypeOK, Decided, RepliesSettled, StartsOne

\* The cut writes what the run it aborts had not.
LEMMA AbortCutReplies ==
    ASSUME TypeOK, SoleRun, Decided, CutsKnown, NoDenial, RepliesSettled, AbortCut
    PROVE  RepliesSettled'
<1>1. /\ active \in Runs /\ Live(active)
      /\ out[active] \notin Finishing \cup {"Preempted", "Denied"}
  BY AbortedRun DEF AbortCut, NoDenial
<1>2. pc[active] \in {"stream", "ask"}
  BY <1>1 DEF Live, LiveStates, Decided, TypeOK, RunsTypeOK, Decisions
<1>3. reply'[active] \in {"empty", "saved"} /\ \A t \in Runs : t # active => reply'[t] = reply[t]
  BY <1>1, <1>2 DEF AbortCut, PartialPersisted, Saved, RepliesSettled, TypeOK, RunsTypeOK
<1>4. \A t \in Runs : \/ t = active /\ pc'[t] = "aborted"
                      \/ t # active /\ pc'[t] = pc[t]
                      \/ t # active /\ pc[t] = "unborn" /\ pc'[t] = "stream"
  <2>1. active # born + 1 /\ \A t \in Runs : t = born + 1 => pc[t] = "unborn"
    BY <1>1 DEF Decided, TypeOK, CountersTypeOK, Live, LiveStates
  <2>2. \A t \in Runs : \/ t = active /\ pc'[t] = "aborted"
                        \/ t # active /\ pc'[t] = pc[t]
                        \/ t = born + 1 /\ pc'[t] = "stream"
    BY AbortMoves
  <2> QED BY <2>1, <2>2
<1> QED BY <1>3, <1>4 DEF RepliesSettled

\* Every step writes a reply at most once.
LEMMA RepliesKept ==
    ASSUME Windows = {}, TypeOK, TypeOK', SoleRun, Decided, CutsKnown, NoDenial,
           RepliesSettled, [Next]_vars
    PROVE  RepliesSettled'
<1>1. CASE SendMessage
  BY <1>1, HandlersStart, StartsReplies
<1>2. CASE CancelFlow
  BY <1>2
  DEF CancelFlow, loopVars, queueVars, retryVars, handleVars, Dismissed, RepliesSettled
<1>3. CASE CancelCut
  BY <1>3 DEF CancelCut, BeginCut, queueVars, retryVars, askVars, runVars, RepliesSettled
<1>4. CASE CancelRetry
  BY <1>4, HandlersStart, StartsReplies
<1>5. CASE RecallSteered
  BY <1>5
  DEF RecallSteered, loopVars, retryVars, askVars, handleVars, runVars, RepliesSettled
<1>6. CASE ForkCut
  BY <1>6 DEF ForkCut, BeginCut, queueVars, retryVars, askVars, runVars, RepliesSettled
<1>7. CASE ForkSession
  BY <1>7 DEF ForkSession, loopVars, askVars, runVars, RepliesSettled
<1>8. CASE NewSession
  BY <1>8 DEF NewSession, loopVars, handleVars, runVars, Dismissed, RepliesSettled
<1>9. CASE LoadSession
  BY <1>9 DEF LoadSession, loopVars, handleVars, runVars, Dismissed, RepliesSettled
<1>10. CASE DeleteSession
  BY <1>10 DEF DeleteSession, loopVars, askVars, handleVars, runVars, RepliesSettled
<1>11. CASE DeleteBranch
  BY <1>11 DEF DeleteBranch, loopVars, askVars, handleVars, runVars, RepliesSettled
<1>12. CASE Replay
  BY <1>12, HandlersStart, StartsReplies
<1>13. CASE Quit
  BY <1>13 DEF Quit, BeginCut, queueVars, retryVars, askVars, runVars, RepliesSettled
<1>14. CASE AbortCut
  BY <1>14, AbortCutReplies
<1>15. CASE Close
  BY <1>15 DEF Close, queueVars, retryVars, askVars, handleVars, runVars, RepliesSettled
<1>16. CASE HandleOutcome
  BY <1>16, HandlersStart, StartsReplies
<1>17. CASE RetryFires
  BY <1>17, HandlersStart, StartsReplies
<1>18. CASE GraceFires
  BY <1>18
  DEF GraceFires, BeginCut, loopVars, queueVars, retryVars, askVars, runVars,
      RepliesSettled
<1>19. ASSUME NEW t \in Runs, Answer(t) PROVE RepliesSettled'
  BY <1>19 DEF Answer, loopVars, queueVars, retryVars, handleVars, runVars, RepliesSettled
<1>20. ASSUME NEW t \in Runs, ReceiveAsk(t) PROVE RepliesSettled'
  BY <1>20
  DEF ReceiveAsk, loopVars, queueVars, retryVars, handleVars, runVars, RepliesSettled
<1>21. ASSUME NEW t \in Runs, NEW ph \in Phases, StartAction(t, ph) PROVE RepliesSettled'
  BY <1>21
  DEF StartAction, AfterItem, ClaimCut, TakeDenial, loopVars, queueVars, retryVars,
      askVars, handleVars, Streamed, StreamStep, TypeOK, RunsTypeOK, RepliesSettled
<1>22. ASSUME NEW t \in Runs, NEW ph \in Phases, ToolResult(t, ph) PROVE RepliesSettled'
  BY <1>22
  DEF ToolResult, AfterItem, ClaimCut, TakeDenial, loopVars, queueVars, retryVars,
      askVars, handleVars, Streamed, StreamStep, TypeOK, RunsTypeOK, RepliesSettled
<1>23. ASSUME NEW t \in Runs, RuleDenies(t) PROVE RepliesSettled'
  BY <1>23
  DEF RuleDenies, loopVars, queueVars, retryVars, askVars, handleVars, runVars,
      RepliesSettled
<1>24. ASSUME NEW t \in Runs, AskUser(t) PROVE RepliesSettled'
  BY <1>24
  DEF AskUser, loopVars, queueVars, retryVars, handleVars, runVars, StreamStep,
      RepliesSettled
<1>25. ASSUME NEW t \in Runs, ReplyDone(t) PROVE RepliesSettled'
  BY <1>25
  DEF ReplyDone, Ends, Streamed, loopVars, queueVars, retryVars, askVars, handleVars,
      StreamStep, RepliesSettled
<1>26. ASSUME NEW t \in Runs, StopAtBoundary(t) PROVE RepliesSettled'
  BY <1>26
  DEF StopAtBoundary, Ends, loopVars, queueVars, retryVars, askVars, handleVars,
      StreamStep, RepliesSettled
<1>27. ASSUME NEW t \in Runs, ProviderFails(t) PROVE RepliesSettled'
  BY <1>27
  DEF ProviderFails, Ends, loopVars, queueVars, retryVars, askVars, handleVars,
      StreamStep, TypeOK, RunsTypeOK, RepliesSettled
<1>28. ASSUME NEW t \in Runs, Persist(t) PROVE RepliesSettled'
  BY <1>28
  DEF Persist, loopVars, queueVars, retryVars, askVars, handleVars, Saved, TypeOK,
      RunsTypeOK, RepliesSettled
<1>29. ASSUME NEW t \in Runs, Report(t) PROVE RepliesSettled'
  BY <1>29 DEF Report, loopVars, queueVars, retryVars, askVars, handleVars, RepliesSettled
<1>30. CASE UNCHANGED vars
  BY <1>30 DEF vars, RepliesSettled
<1> QED
  BY <1>1, <1>2, <1>3, <1>4, <1>5, <1>6, <1>7, <1>8, <1>9, <1>10, <1>11, <1>12, <1>13,
     <1>14, <1>15, <1>16, <1>17, <1>18, <1>19, <1>20, <1>21, <1>22, <1>23, <1>24, <1>25,
     <1>26, <1>27, <1>28, <1>29, <1>30
  DEF Next, Command, LoopStep, Stream, Terminal

\* Where nobody denies a call the deny cut stays unset.
LEMMA DenialKept ==
    ASSUME "Deny" \notin Endings, TypeOK, TypeOK', NoDenial, [Next]_vars
    PROVE  NoDenial'
<1>1. CASE SendMessage
  BY <1>1
  DEF SendMessage, Armed, DispatchSteered, StartUserTurn, ResumeLastTurn, SpawnRun,
      loopVars, retryVars, askVars, handleVars, runVars, NoDenial
<1>2. CASE CancelFlow
  BY <1>2 DEF CancelFlow, loopVars, queueVars, retryVars, handleVars, NoDenial
<1>3. CASE CancelCut
  BY <1>3 DEF CancelCut, BeginCut, queueVars, retryVars, askVars, runVars, NoDenial
<1>4. CASE CancelRetry
  BY <1>4
  DEF CancelRetry, DispatchSteered, StartUserTurn, ResumeLastTurn, SpawnRun, loopVars,
      queueVars, askVars, runVars, NoDenial
<1>5. CASE RecallSteered
  BY <1>5 DEF RecallSteered, loopVars, retryVars, askVars, handleVars, runVars, NoDenial
<1>6. CASE ForkCut
  BY <1>6 DEF ForkCut, BeginCut, queueVars, retryVars, askVars, runVars, NoDenial
<1>7. CASE ForkSession
  BY <1>7 DEF ForkSession, loopVars, askVars, runVars, NoDenial
<1>8. CASE NewSession
  BY <1>8 DEF NewSession, loopVars, handleVars, runVars, NoDenial
<1>9. CASE LoadSession
  BY <1>9 DEF LoadSession, loopVars, handleVars, runVars, NoDenial
<1>10. CASE DeleteSession
  BY <1>10 DEF DeleteSession, loopVars, askVars, handleVars, runVars, NoDenial
<1>11. CASE DeleteBranch
  BY <1>11 DEF DeleteBranch, loopVars, askVars, handleVars, runVars, NoDenial
<1>12. CASE Replay
  BY <1>12
  DEF Replay, DispatchSteered, StartUserTurn, ResumeLastTurn, SpawnRun, loopVars,
      askVars, runVars, NoDenial
<1>13. CASE Quit
  BY <1>13 DEF Quit, BeginCut, queueVars, retryVars, askVars, runVars, NoDenial
<1>14. CASE AbortCut
  BY <1>14
  DEF AbortCut, PartialPersisted, DispatchSteered, StartUserTurn, ResumeLastTurn,
      SpawnRun, NoDenial
<1>15. CASE Close
  BY <1>15 DEF Close, queueVars, retryVars, askVars, handleVars, runVars, NoDenial
<1>16. CASE HandleOutcome
  BY <1>16
  DEF HandleOutcome, HandleEnd, HandleOverflow, HandleFailure, DispatchSteered,
      StartUserTurn, ResumeLastTurn, SpawnRun, loopVars, runVars, queueVars, NoDenial
<1>17. CASE RetryFires
  BY <1>17
  DEF RetryFires, DispatchSteered, StartUserTurn, ResumeLastTurn, SpawnRun, loopVars,
      queueVars, askVars, runVars, NoDenial
<1>18. CASE GraceFires
  BY <1>18
  DEF GraceFires, BeginCut, loopVars, queueVars, retryVars, askVars, runVars, NoDenial
<1>19. ASSUME NEW t \in Runs, Answer(t) PROVE NoDenial'
  BY <1>19 DEF Answer, loopVars, queueVars, retryVars, handleVars, runVars, NoDenial
<1>20. ASSUME NEW t \in Runs, ReceiveAsk(t) PROVE NoDenial'
  BY <1>20 DEF ReceiveAsk, loopVars, queueVars, retryVars, handleVars, runVars, NoDenial
<1>21. ASSUME NEW t \in Runs, NEW ph \in Phases, StartAction(t, ph) PROVE NoDenial'
  BY <1>21
  DEF StartAction, AfterItem, ClaimCut, TakeDenial, loopVars, queueVars, retryVars,
      askVars, handleVars, TypeOK, RunsTypeOK, NoDenial
<1>22. ASSUME NEW t \in Runs, NEW ph \in Phases, ToolResult(t, ph) PROVE NoDenial'
  BY <1>22
  DEF ToolResult, AfterItem, ClaimCut, TakeDenial, loopVars, queueVars, retryVars,
      askVars, handleVars, TypeOK, RunsTypeOK, NoDenial
<1>23. ASSUME NEW t \in Runs, RuleDenies(t) PROVE NoDenial'
  BY <1>23
  DEF RuleDenies, loopVars, queueVars, retryVars, askVars, handleVars, runVars, NoDenial
<1>24. ASSUME NEW t \in Runs, AskUser(t) PROVE NoDenial'
  BY <1>24 DEF AskUser, loopVars, queueVars, retryVars, handleVars, runVars, NoDenial
<1>25. ASSUME NEW t \in Runs, ReplyDone(t) PROVE NoDenial'
  BY <1>25
  DEF ReplyDone, Ends, loopVars, queueVars, retryVars, askVars, handleVars, NoDenial
<1>26. ASSUME NEW t \in Runs, StopAtBoundary(t) PROVE NoDenial'
  BY <1>26
  DEF StopAtBoundary, Ends, loopVars, queueVars, retryVars, askVars, handleVars,
      NoDenial
<1>27. ASSUME NEW t \in Runs, ProviderFails(t) PROVE NoDenial'
  BY <1>27
  DEF ProviderFails, Ends, loopVars, queueVars, retryVars, askVars, handleVars, TypeOK,
      RunsTypeOK, NoDenial
<1>28. ASSUME NEW t \in Runs, Persist(t) PROVE NoDenial'
  BY <1>28 DEF Persist, loopVars, queueVars, retryVars, askVars, handleVars, NoDenial
<1>29. ASSUME NEW t \in Runs, Report(t) PROVE NoDenial'
  BY <1>29 DEF Report, loopVars, queueVars, retryVars, askVars, handleVars, NoDenial
<1>30. CASE UNCHANGED vars
  BY <1>30 DEF vars, NoDenial
<1> QED
  BY <1>1, <1>2, <1>3, <1>4, <1>5, <1>6, <1>7, <1>8, <1>9, <1>10, <1>11, <1>12, <1>13,
     <1>14, <1>15, <1>16, <1>17, <1>18, <1>19, <1>20, <1>21, <1>22, <1>23, <1>24, <1>25,
     <1>26, <1>27, <1>28, <1>29, <1>30
  DEF Next, Command, LoopStep, Stream, Terminal

\* Past its terminal sequence or its abort, a run has nothing left unwritten.
ReplyWritten ==
    \A t \in Runs : /\ t > born => pc[t] = "unborn"
                    /\ pc[t] \in {"report", "over", "aborted"} => reply[t] # "partial"

\* Spawning the next run leaves the others as the handler did.
LEMMA SpawnWritten ==
    ASSUME TypeOK, NEW pcs \in [Runs -> RunStates],
           \A t \in Runs : /\ t > born => pcs[t] = "unborn"
                           /\ pcs[t] \in {"report", "over", "aborted"} => reply'[t] # "partial",
           SpawnRun(pcs) \/ (pc' = pcs /\ born' = born)
    PROVE  ReplyWritten'
<1>1. CASE SpawnRun(pcs)
  <2>1. born' = born + 1 /\ pc' = [pcs EXCEPT ![born + 1] = "stream"]
    BY <1>1 DEF SpawnRun
  <2> QED BY <2>1, ConstantsType DEF ReplyWritten, TypeOK, CountersTypeOK
<1>2. CASE pc' = pcs /\ born' = born
  BY <1>2 DEF ReplyWritten
<1> QED BY <1>1, <1>2

\* An outcome is only reported by a run that has written its reply.
LEMMA HandleOutcomeWritten ==
    ASSUME TypeOK, ReplyWritten, HandleOutcome PROVE ReplyWritten'
<1>1. UNCHANGED reply
  BY DEF HandleOutcome, runVars
<1>2. CASE HandleEnd
  <2>1. Dismissed \in [Runs -> RunStates]
    BY DismissedType DEF TypeOK
  <2>2. \A t \in Runs : Dismissed[t] = pc[t] \/ (pc[t] = "ask" /\ Dismissed[t] = "stream")
    BY DEF Dismissed
  <2>3. SpawnRun(Dismissed) \/ (pc' = Dismissed /\ born' = born)
    BY <1>2 DEF HandleEnd, DispatchSteered, StartUserTurn
  <2> HIDE DEF Dismissed
  <2> QED BY <1>1, <2>1, <2>2, <2>3, SpawnWritten DEF ReplyWritten
<1>3. CASE ~HandleEnd
  <2>1. SpawnRun(pc) \/ (pc' = pc /\ born' = born)
    BY <1>3 DEF HandleOutcome, HandleOverflow, HandleFailure, ResumeLastTurn
  <2> QED BY <1>1, <2>1, SpawnWritten DEF ReplyWritten, TypeOK, RunsTypeOK
<1> QED BY <1>2, <1>3

\* The handler that aborts a run writes what it had streamed.
LEMMA AbortCutWritten ==
    ASSUME TypeOK, ReplyWritten, AbortCut PROVE ReplyWritten'
<1> DEFINE pcs == [Dismissed EXCEPT ![active] = IF Live(active) THEN "aborted" ELSE pc[active]]
<1>1. /\ reply' = PartialPersisted
      /\ SpawnRun(pcs) \/ (pc' = pcs /\ born' = born)
  BY DEF AbortCut, DispatchSteered, StartUserTurn
<1>2. pcs \in [Runs -> RunStates]
  <2>1. Dismissed \in [Runs -> RunStates]
    BY DismissedType DEF TypeOK
  <2> QED BY <2>1 DEF RunStates, TypeOK, RunsTypeOK
<1>3. \A t \in Runs : /\ t > born => pcs[t] = "unborn"
                      /\ pcs[t] \in {"report", "over", "aborted"} => reply'[t] # "partial"
  <2> SUFFICES ASSUME NEW t \in Runs
               PROVE  /\ t > born => pcs[t] = "unborn"
                      /\ pcs[t] \in {"report", "over", "aborted"} => reply'[t] # "partial"
    OBVIOUS
  <2>1. Dismissed[t] = pc[t] \/ (pc[t] = "ask" /\ Dismissed[t] = "stream")
    BY DEF Dismissed
  <2>2. t > born => pcs[t] = "unborn"
    BY <2>1 DEF ReplyWritten, Dismissed, Live, LiveStates
  <2>3. CASE t = active
    <3>1. reply'[t] = Saved(reply[t])
      BY <1>1, <2>3 DEF PartialPersisted, TypeOK, RunsTypeOK
    <3>2. Saved(reply[t]) # "partial"
      BY DEF Saved
    <3> QED BY <2>2, <3>1, <3>2
  <2>4. CASE t # active
    BY <1>1, <2>1, <2>2, <2>4 DEF PartialPersisted, ReplyWritten, Dismissed
  <2> QED BY <2>2, <2>3, <2>4
<1> HIDE DEF pcs
<1> QED BY <1>1, <1>2, <1>3, SpawnWritten

\* Every step writes what the run it ends had streamed.
LEMMA WrittenKept ==
    ASSUME TypeOK, TypeOK', ReplyWritten, [Next]_vars
    PROVE  ReplyWritten'
<1>1. CASE SendMessage
  BY <1>1, ConstantsType
  DEF SendMessage, Armed, DispatchSteered, StartUserTurn, ResumeLastTurn, SpawnRun,
      loopVars, retryVars, askVars, handleVars, runVars, TypeOK, CountersTypeOK,
      RunsTypeOK, ReplyWritten
<1>2. CASE CancelFlow
  BY <1>2
  DEF CancelFlow, loopVars, queueVars, retryVars, handleVars, Dismissed, ReplyWritten
<1>3. CASE CancelCut
  BY <1>3 DEF CancelCut, BeginCut, queueVars, retryVars, askVars, runVars, ReplyWritten
<1>4. CASE CancelRetry
  BY <1>4, ConstantsType
  DEF CancelRetry, DispatchSteered, StartUserTurn, ResumeLastTurn, SpawnRun, loopVars,
      queueVars, askVars, runVars, TypeOK, CountersTypeOK, RunsTypeOK, ReplyWritten
<1>5. CASE RecallSteered
  BY <1>5
  DEF RecallSteered, loopVars, retryVars, askVars, handleVars, runVars, ReplyWritten
<1>6. CASE ForkCut
  BY <1>6 DEF ForkCut, BeginCut, queueVars, retryVars, askVars, runVars, ReplyWritten
<1>7. CASE ForkSession
  BY <1>7 DEF ForkSession, loopVars, askVars, runVars, ReplyWritten
<1>8. CASE NewSession
  BY <1>8 DEF NewSession, loopVars, handleVars, runVars, Dismissed, ReplyWritten
<1>9. CASE LoadSession
  BY <1>9 DEF LoadSession, loopVars, handleVars, runVars, Dismissed, ReplyWritten
<1>10. CASE DeleteSession
  BY <1>10 DEF DeleteSession, loopVars, askVars, handleVars, runVars, ReplyWritten
<1>11. CASE DeleteBranch
  BY <1>11 DEF DeleteBranch, loopVars, askVars, handleVars, runVars, ReplyWritten
<1>12. CASE Replay
  BY <1>12, ConstantsType
  DEF Replay, DispatchSteered, StartUserTurn, ResumeLastTurn, SpawnRun, loopVars,
      askVars, runVars, TypeOK, CountersTypeOK, RunsTypeOK, ReplyWritten
<1>13. CASE Quit
  BY <1>13 DEF Quit, BeginCut, queueVars, retryVars, askVars, runVars, ReplyWritten
<1>14. CASE AbortCut
  BY <1>14, AbortCutWritten
<1>15. CASE Close
  BY <1>15 DEF Close, queueVars, retryVars, askVars, handleVars, runVars, ReplyWritten
<1>16. CASE HandleOutcome
  BY <1>16, HandleOutcomeWritten
<1>17. CASE RetryFires
  BY <1>17, ConstantsType
  DEF RetryFires, DispatchSteered, StartUserTurn, ResumeLastTurn, SpawnRun, loopVars,
      queueVars, askVars, runVars, TypeOK, CountersTypeOK, RunsTypeOK, ReplyWritten
<1>18. CASE GraceFires
  BY <1>18
  DEF GraceFires, BeginCut, loopVars, queueVars, retryVars, askVars, runVars,
      ReplyWritten
<1>19. ASSUME NEW t \in Runs, Answer(t) PROVE ReplyWritten'
  BY <1>19 DEF Answer, loopVars, queueVars, retryVars, handleVars, runVars, ReplyWritten
<1>20. ASSUME NEW t \in Runs, ReceiveAsk(t) PROVE ReplyWritten'
  BY <1>20
  DEF ReceiveAsk, loopVars, queueVars, retryVars, handleVars, runVars, ReplyWritten
<1>21. ASSUME NEW t \in Runs, NEW ph \in Phases, StartAction(t, ph) PROVE ReplyWritten'
  BY <1>21
  DEF StartAction, AfterItem, ClaimCut, TakeDenial, loopVars, queueVars, retryVars,
      askVars, handleVars, StreamStep, TypeOK, RunsTypeOK, ReplyWritten
<1>22. ASSUME NEW t \in Runs, NEW ph \in Phases, ToolResult(t, ph) PROVE ReplyWritten'
  BY <1>22
  DEF ToolResult, AfterItem, ClaimCut, TakeDenial, loopVars, queueVars, retryVars,
      askVars, handleVars, StreamStep, TypeOK, RunsTypeOK, ReplyWritten
<1>23. ASSUME NEW t \in Runs, RuleDenies(t) PROVE ReplyWritten'
  BY <1>23
  DEF RuleDenies, loopVars, queueVars, retryVars, askVars, handleVars, runVars,
      ReplyWritten
<1>24. ASSUME NEW t \in Runs, AskUser(t) PROVE ReplyWritten'
  BY <1>24
  DEF AskUser, loopVars, queueVars, retryVars, handleVars, runVars, StreamStep,
      ReplyWritten
<1>25. ASSUME NEW t \in Runs, ReplyDone(t) PROVE ReplyWritten'
  BY <1>25
  DEF ReplyDone, Ends, loopVars, queueVars, retryVars, askVars, handleVars, StreamStep,
      ReplyWritten
<1>26. ASSUME NEW t \in Runs, StopAtBoundary(t) PROVE ReplyWritten'
  BY <1>26
  DEF StopAtBoundary, Ends, loopVars, queueVars, retryVars, askVars, handleVars,
      StreamStep, ReplyWritten
<1>27. ASSUME NEW t \in Runs, ProviderFails(t) PROVE ReplyWritten'
  BY <1>27
  DEF ProviderFails, Ends, loopVars, queueVars, retryVars, askVars, handleVars,
      StreamStep, TypeOK, RunsTypeOK, ReplyWritten
<1>28. ASSUME NEW t \in Runs, Persist(t) PROVE ReplyWritten'
  BY <1>28
  DEF Persist, loopVars, queueVars, retryVars, askVars, handleVars, Saved, TypeOK,
      RunsTypeOK, ReplyWritten
<1>29. ASSUME NEW t \in Runs, Report(t) PROVE ReplyWritten'
  BY <1>29 DEF Report, loopVars, queueVars, retryVars, askVars, handleVars, ReplyWritten
<1>30. CASE UNCHANGED vars
  BY <1>30 DEF vars, ReplyWritten
<1> QED
  BY <1>1, <1>2, <1>3, <1>4, <1>5, <1>6, <1>7, <1>8, <1>9, <1>10, <1>11, <1>12, <1>13,
     <1>14, <1>15, <1>16, <1>17, <1>18, <1>19, <1>20, <1>21, <1>22, <1>23, <1>24, <1>25,
     <1>26, <1>27, <1>28, <1>29, <1>30
  DEF Next, Command, LoopStep, Stream, Terminal

(***************************************************************************)
(* The theorems                                                            *)
(***************************************************************************)
SafetyInv == TypeOK /\ SoleRun /\ CutInv

\* Nothing has started, so nothing is torn, unwritten or denied.
LEMMA InitSafe == Init => CutInv /\ RepliesSettled /\ NoDenial /\ ReplyWritten
BY ConstantsType
DEF Init, CutInv, Decided, CutsKnown, TerminalNotTorn, FinalizingOwned, Closed,
    RepliesSettled, NoDenial, ReplyWritten

\* The parts of the invariant together are inductive.
LEMMA SafetyStep ==
    ASSUME Windows = {}, SafetyInv, [Next]_vars
    PROVE  SafetyInv'
<1>1. TypeOK'
  BY StepType DEF SafetyInv
<1>2. SoleRun'
  BY <1>1, SoleKept DEF SafetyInv
<1>3. CutInv'
  BY <1>1, CutsKept DEF SafetyInv
<1> QED BY <1>1, <1>2, <1>3 DEF SafetyInv

\* With the windows shut the inductive invariant holds.
THEOREM SafetyInvariant == ASSUME Windows = {} PROVE Spec => []SafetyInv
<1>1. Init => SafetyInv
  BY InitType, InitSole, InitSafe DEF SafetyInv
<1>2. SafetyInv /\ [Next]_vars => SafetyInv'
  BY SafetyStep
<1> QED BY <1>1, <1>2, PTL DEF Spec

\* With the windows shut, only the run whose handle the loop holds is live:
\* start_user_turn, a retry and a resume never orphan a stream.
THEOREM OneStreamSafe == ASSUME Windows = {} PROVE Spec => []OneStream
<1>1. SafetyInv => OneStream
  BY DEF SafetyInv, SoleRun
<1> QED BY <1>1, SafetyInvariant, PTL

\* With the windows shut, cut_running_stream never aborts a run inside a
\* terminal sequence or inside a steer cut.
THEOREM TerminalNotTornSafe == ASSUME Windows = {} PROVE Spec => []TerminalNotTorn
<1>1. SafetyInv => TerminalNotTorn
  BY DEF SafetyInv, CutInv, CutsKnown
<1> QED BY <1>1, SafetyInvariant, PTL

\* With the windows shut, FINALIZING is always some cut's that will reach the
\* loop, so that CancelStream is never ignored for good.
THEOREM FinalizingOwnedSafe == ASSUME Windows = {} PROVE Spec => []FinalizingOwned
<1>1. SafetyInv => FinalizingOwned
  BY DEF SafetyInv, CutInv
<1> QED BY <1>1, SafetyInvariant, PTL

\* With the windows shut, no stream is left running when the loop ends.
THEOREM QuitSavesSafe == ASSUME Windows = {} PROVE Spec => []QuitSaves
<1>1. SafetyInv => QuitSaves
  BY DEF SafetyInv, CutInv, Closed, QuitSaves
<1> QED BY <1>1, SafetyInvariant, PTL

\* Whatever the windows, the denials and the failures, a run that is gone has
\* had what it streamed written.
THEOREM ReplyNotLostSafe == Spec => []ReplyNotLost
<1>1. Init => TypeOK /\ ReplyWritten
  BY InitType, InitSafe
<1>2. TypeOK /\ ReplyWritten /\ [Next]_vars => (TypeOK /\ ReplyWritten)'
  BY StepType, WrittenKept
<1>3. ReplyWritten => ReplyNotLost
  BY DEF ReplyWritten, ReplyNotLost
<1> QED BY <1>1, <1>2, <1>3, PTL DEF Spec

\* With the windows shut and no denials, what a run streamed is written once:
\* by its own terminal sequence or by the cut, never by both.
THEOREM ReplySavedOnceSafe ==
    ASSUME Windows = {}, "Deny" \notin Endings
    PROVE  Spec => []ReplySavedOnce
<1> DEFINE Inv == SafetyInv /\ NoDenial /\ RepliesSettled
<1>1. Init => Inv
  BY InitType, InitSole, InitSafe DEF SafetyInv
<1>2. Inv /\ [Next]_vars => Inv'
  <2> SUFFICES ASSUME Inv, [Next]_vars PROVE Inv'
    OBVIOUS
  <2>1. SafetyInv'
    BY SafetyStep
  <2>2. NoDenial'
    BY <2>1, DenialKept DEF SafetyInv
  <2>3. RepliesSettled'
    BY <2>1, RepliesKept DEF SafetyInv, CutInv
  <2> QED BY <2>1, <2>2, <2>3
<1>3. Inv => ReplySavedOnce
  BY DEF RepliesSettled, ReplySavedOnce, ReplyNotLost, ReplyStates, RunStates, SafetyInv,
         TypeOK, RunsTypeOK
<1> QED BY <1>1, <1>2, <1>3, PTL DEF Spec

(***************************************************************************)
(* The queue of steered prompts                                            *)
(***************************************************************************)
\* The front of an ordered queue dispatched leaves an ordered queue, newer than
\* the turn it became.
LEMMA DispatchOrdered ==
    ASSUME TypeOK, QueueOrdered, steered # <<>>,
           NEW pcs, NEW signal, DispatchSteered(pcs, signal)
    PROVE  QueueOrdered'
<1>1. steered' = Tail(steered) /\ latest' = Head(steered) /\ sent' = sent
  BY DEF DispatchSteered, StartUserTurn
<1>2. steered \in Seq(Prompts) /\ Len(steered) \in Nat /\ Len(steered) > 0
  BY DEF TypeOK, ChannelsTypeOK
<1>3. latest' = steered[1] /\ 1 \in DOMAIN steered
  BY <1>1, <1>2
<1>4. /\ DOMAIN steered' = 1..(Len(steered) - 1)
      /\ \A i \in DOMAIN steered' : i + 1 \in DOMAIN steered /\ steered'[i] = steered[i + 1]
  BY <1>1, <1>2
<1>5. \A i \in DOMAIN steered' : steered[1] < steered[i + 1]
  BY <1>2, <1>3, <1>4 DEF QueueOrdered
<1>6. \A i, j \in DOMAIN steered' : i < j => steered[i + 1] < steered[j + 1]
  BY <1>2, <1>4 DEF QueueOrdered
<1> QED BY <1>1, <1>3, <1>4, <1>5, <1>6 DEF QueueOrdered

\* A prompt is queued last, or starts a turn where the queue is empty.
LEMMA SendMessageOrdered ==
    ASSUME Windows = {}, TypeOK, NothingFails, QueueAwaits, QueueOrdered, SendMessage
    PROVE  QueueOrdered'
<1>1. steered \in Seq(Prompts) /\ sent \in Nat /\ latest \in Nat /\ sent' = sent + 1
  BY DEF TypeOK, ChannelsTypeOK, CountersTypeOK, SendMessage
<1>2. CASE steered' = Append(steered, sent + 1) /\ latest' = latest
  <2>1. /\ DOMAIN steered' = 1..(Len(steered) + 1)
        /\ \A i \in DOMAIN steered' :
             \/ i \in DOMAIN steered /\ steered'[i] = steered[i] /\ steered[i] \in Prompts
             \/ i = Len(steered) + 1 /\ steered'[i] = sent + 1
    BY <1>1, <1>2
  <2>2. \A i \in DOMAIN steered : steered[i] <= sent /\ steered[i] \in Prompts /\ i < Len(steered) + 1
    BY <1>1 DEF QueueOrdered
  <2> QED BY <1>1, <1>2, <2>1, <2>2, ConstantsType DEF QueueOrdered
<1>3. CASE ~AgentBusy /\ steered' = steered /\ latest' = sent + 1
  <2>1. steered = <<>>
    BY <1>3 DEF AgentBusy, QueueAwaits, SendMessage, TakeCommand, AtSelect
  <2> QED BY <1>1, <1>3, <2>1 DEF QueueOrdered
<1> QED BY <1>2, <1>3 DEF SendMessage, StartUserTurn

\* The newest queued prompt recalled leaves the rest in order.
LEMMA RecallOrdered ==
    ASSUME TypeOK, QueueOrdered, RecallSteered PROVE QueueOrdered'
<1>1. steered \in Seq(Prompts) /\ latest' = latest /\ sent' = sent
  BY DEF TypeOK, ChannelsTypeOK, RecallSteered
<1>2. CASE steered = <<>>
  BY <1>1, <1>2 DEF QueueOrdered, RecallSteered
<1>3. CASE steered # <<>>
  <2>1. steered' = SubSeq(steered, 1, Len(steered) - 1)
    BY <1>3 DEF RecallSteered
  <2>2. /\ DOMAIN steered' \subseteq DOMAIN steered
        /\ \A i \in DOMAIN steered' : steered'[i] = steered[i]
    BY <1>1, <1>3, <2>1
  <2> QED BY <1>1, <2>2 DEF QueueOrdered
<1> QED BY <1>2, <1>3

\* A replay takes a number of its own where the queue is empty.
LEMMA ReplayOrdered ==
    ASSUME Windows = {}, TypeOK, NothingFails, QueueAwaits, QueueOrdered, Replay
    PROVE  QueueOrdered'
<1>1. steered = <<>> /\ steered' = steered
  BY DEF Replay, QueueAwaits, TakeCommand, AtSelect
<1>2. sent \in Nat /\ latest \in Nat
  BY DEF TypeOK, CountersTypeOK
<1> QED BY <1>1, <1>2 DEF QueueOrdered, Replay

\* The abort dispatches the front of the queue, keeps it or wipes it.
LEMMA AbortCutOrdered ==
    ASSUME TypeOK, QueueOrdered, AbortCut PROVE QueueOrdered'
<1>1. CASE steered # <<>> /\ \E pcs : DispatchSteered(pcs, "idle")
  BY <1>1, DispatchOrdered
<1>2. CASE steered' \in {steered, <<>>} /\ UNCHANGED <<sent, latest>>
  BY <1>2 DEF QueueOrdered
<1> QED BY <1>1, <1>2 DEF AbortCut

\* So does an outcome.
LEMMA HandleOutcomeOrdered ==
    ASSUME TypeOK, QueueOrdered, HandleOutcome PROVE QueueOrdered'
<1>1. CASE steered # <<>> /\ DispatchSteered(Dismissed, RestArmed)
  BY <1>1, DispatchOrdered
<1>2. CASE UNCHANGED queueVars
  BY <1>2 DEF QueueOrdered, queueVars
<1> QED BY <1>1, <1>2 DEF HandleOutcome, HandleEnd, DispatchDue, HandleOverflow, HandleFailure, queueVars

\* Every step keeps the queue in order and newer than the turn last given.
LEMMA OrderKept ==
    ASSUME Windows = {}, TypeOK, NothingFails, QueueAwaits, QueueOrdered, [Next]_vars
    PROVE  QueueOrdered'
<1>1. CASE SendMessage
  BY <1>1, SendMessageOrdered
<1>2. CASE CancelFlow
  BY <1>2
  DEF CancelFlow, loopVars, queueVars, retryVars, handleVars, TakeCommand, Dismissed,
      AtSelect, QueueOrdered
<1>3. CASE CancelCut
  BY <1>3
  DEF CancelCut, TakeCommand, BeginCut, queueVars, retryVars, askVars, runVars,
      CutGuarded, AtSelect, QueueOrdered
<1>4. CASE CancelRetry
  BY <1>4
  DEF CancelRetry, loopVars, queueVars, askVars, runVars, TakeCommand, HandleAfterNoCut,
      CutGuarded, AtSelect, QueueOrdered, NothingFails
<1>5. CASE RecallSteered
  BY <1>5, RecallOrdered
<1>6. CASE ForkCut
  BY <1>6
  DEF ForkCut, TakeCommand, BeginCut, queueVars, retryVars, askVars, runVars,
      CutGuarded, AtSelect, QueueOrdered
<1>7. CASE ForkSession
  BY <1>7
  DEF ForkSession, loopVars, askVars, runVars, TakeCommand, HandleAfterNoCut,
      RetryDropped, QueueCleared, NothingToCut, CutGuarded, Disarmed, AtSelect,
      QueueOrdered
<1>8. CASE NewSession
  BY <1>8
  DEF NewSession, loopVars, handleVars, runVars, TakeCommand, Dismissed, RetryDropped,
      QueueCleared, Disarmed, AtSelect, QueueOrdered
<1>9. CASE LoadSession
  BY <1>9
  DEF LoadSession, loopVars, handleVars, runVars, TakeCommand, Dismissed, RetryDropped,
      QueueCleared, Disarmed, AtSelect, QueueOrdered
<1>10. CASE DeleteSession
  BY <1>10
  DEF DeleteSession, loopVars, askVars, handleVars, runVars, TakeCommand, RetryDropped,
      QueueCleared, Disarmed, AtSelect, QueueOrdered
<1>11. CASE DeleteBranch
  BY <1>11
  DEF DeleteBranch, loopVars, askVars, handleVars, runVars, TakeCommand, RetryDropped,
      QueueCleared, Disarmed, AtSelect, QueueOrdered
<1>12. CASE Replay
  BY <1>12, ReplayOrdered
<1>13. CASE Quit
  BY <1>13
  DEF Quit, queueVars, retryVars, askVars, runVars, AtSelect, BeginCut,
      HandleAfterNoCut, NothingToCut, CutGuarded, QueueOrdered
<1>14. CASE AbortCut
  BY <1>14, AbortCutOrdered
<1>15. CASE Close
  BY <1>15
  DEF Close, queueVars, retryVars, askVars, handleVars, runVars, QueueOrdered
<1>16. CASE HandleOutcome
  BY <1>16, HandleOutcomeOrdered
<1>17. CASE RetryFires
  BY <1>17
  DEF RetryFires, loopVars, queueVars, askVars, runVars, AtSelect, QueueOrdered
<1>18. CASE GraceFires
  BY <1>18
  DEF GraceFires, loopVars, queueVars, retryVars, askVars, runVars, AtSelect, BeginCut,
      HandleAfterNoCut, NothingToCut, CutGuarded, QueueOrdered
<1>19. ASSUME NEW t \in Runs, Answer(t) PROVE QueueOrdered'
  BY <1>19
  DEF Answer, loopVars, queueVars, retryVars, handleVars, runVars, TakeCommand,
      AtSelect, QueueOrdered
<1>20. ASSUME NEW t \in Runs, ReceiveAsk(t) PROVE QueueOrdered'
  BY <1>20
  DEF ReceiveAsk, loopVars, queueVars, retryVars, handleVars, runVars, AtSelect,
      QueueOrdered
<1>21. ASSUME NEW t \in Runs, NEW ph \in Phases, StartAction(t, ph) PROVE QueueOrdered'
  BY <1>21
  DEF StartAction, loopVars, queueVars, retryVars, askVars, handleVars, AfterItem,
      ClaimCut, StreamStep, Scheduled, TakeDenial, QueueOrdered
<1>22. ASSUME NEW t \in Runs, NEW ph \in Phases, ToolResult(t, ph) PROVE QueueOrdered'
  BY <1>22
  DEF ToolResult, loopVars, queueVars, retryVars, askVars, handleVars, AfterItem,
      StreamStep, Scheduled, ClaimCut, TakeDenial, QueueOrdered
<1>23. ASSUME NEW t \in Runs, RuleDenies(t) PROVE QueueOrdered'
  BY <1>23
  DEF RuleDenies, loopVars, queueVars, retryVars, askVars, handleVars, runVars,
      StreamStep, Scheduled, QueueOrdered
<1>24. ASSUME NEW t \in Runs, AskUser(t) PROVE QueueOrdered'
  BY <1>24
  DEF AskUser, loopVars, queueVars, retryVars, handleVars, runVars, StreamStep,
      Scheduled, QueueOrdered
<1>25. ASSUME NEW t \in Runs, ReplyDone(t) PROVE QueueOrdered'
  BY <1>25
  DEF ReplyDone, Ends, loopVars, queueVars, retryVars, askVars, handleVars, StreamStep,
      Scheduled, QueueOrdered
<1>26. ASSUME NEW t \in Runs, StopAtBoundary(t) PROVE QueueOrdered'
  BY <1>26
  DEF StopAtBoundary, Ends, loopVars, queueVars, retryVars, askVars, handleVars,
      StreamStep, Scheduled, QueueOrdered
<1>27. ASSUME NEW t \in Runs, ProviderFails(t) PROVE QueueOrdered'
  BY <1>27
  DEF ProviderFails, Ends, loopVars, queueVars, retryVars, askVars, handleVars,
      StreamStep, Scheduled, QueueOrdered
<1>28. ASSUME NEW t \in Runs, Persist(t) PROVE QueueOrdered'
  BY <1>28
  DEF Persist, loopVars, queueVars, retryVars, askVars, handleVars, Scheduled,
      QueueOrdered
<1>29. ASSUME NEW t \in Runs, Report(t) PROVE QueueOrdered'
  BY <1>29
  DEF Report, loopVars, queueVars, retryVars, askVars, handleVars, Scheduled,
      QueueOrdered
<1>30. CASE UNCHANGED vars
  BY <1>30
  DEF vars, QueueOrdered
<1> QED
  BY <1>1, <1>2, <1>3, <1>4, <1>5, <1>6, <1>7, <1>8, <1>9, <1>10, <1>11, <1>12, <1>13,
     <1>14, <1>15, <1>16, <1>17, <1>18, <1>19, <1>20, <1>21, <1>22, <1>23, <1>24, <1>25,
     <1>26, <1>27, <1>28, <1>29, <1>30 DEF Next, Command, LoopStep, Stream, Terminal

\* A provider that does not fail leaves no failure and no retry behind.
LEMMA FailuresKept ==
    ASSUME Endings \subseteq {"Deny"}, TypeOK, NothingFails, [Next]_vars
    PROVE  NothingFails'
<1>1. CASE SendMessage
  BY <1>1
  DEF SendMessage, loopVars, retryVars, askVars, handleVars, runVars, TakeCommand,
      AgentBusy, Armed, Stored, AtSelect, NothingFails, Failures, Finishing, TypeOK,
      RunsTypeOK
<1>2. CASE CancelFlow
  BY <1>2
  DEF CancelFlow, loopVars, queueVars, retryVars, handleVars, TakeCommand, AtSelect,
      NothingFails, Failures, Finishing, TypeOK, RunsTypeOK
<1>3. CASE CancelCut
  BY <1>3
  DEF CancelCut, TakeCommand, BeginCut, queueVars, retryVars, askVars, runVars,
      CutGuarded, AtSelect, NothingFails, Failures, Finishing, TypeOK, RunsTypeOK
<1>4. CASE CancelRetry
  BY <1>4
  DEF CancelRetry, loopVars, queueVars, askVars, runVars, TakeCommand, HandleAfterNoCut,
      CutGuarded, AtSelect, NothingFails, Failures, Finishing, TypeOK, RunsTypeOK
<1>5. CASE RecallSteered
  BY <1>5
  DEF RecallSteered, loopVars, retryVars, askVars, handleVars, runVars, TakeCommand,
      Stored, AtSelect, NothingFails, Failures, Finishing, TypeOK, RunsTypeOK
<1>6. CASE ForkCut
  BY <1>6
  DEF ForkCut, TakeCommand, BeginCut, queueVars, retryVars, askVars, runVars,
      CutGuarded, AtSelect, NothingFails, Failures, Finishing, TypeOK, RunsTypeOK
<1>7. CASE ForkSession
  BY <1>7
  DEF ForkSession, loopVars, askVars, runVars, TakeCommand, HandleAfterNoCut,
      RetryDropped, QueueCleared, NothingToCut, CutGuarded, Disarmed, AtSelect,
      NothingFails, Failures, Finishing, TypeOK, RunsTypeOK
<1>8. CASE NewSession
  BY <1>8
  DEF NewSession, loopVars, handleVars, runVars, TakeCommand, RetryDropped,
      QueueCleared, Disarmed, AtSelect, NothingFails, Failures, Finishing, TypeOK,
      RunsTypeOK
<1>9. CASE LoadSession
  BY <1>9
  DEF LoadSession, loopVars, handleVars, runVars, TakeCommand, RetryDropped,
      QueueCleared, Disarmed, AtSelect, NothingFails, Failures, Finishing, TypeOK,
      RunsTypeOK
<1>10. CASE DeleteSession
  BY <1>10
  DEF DeleteSession, loopVars, askVars, handleVars, runVars, TakeCommand, RetryDropped,
      QueueCleared, Disarmed, AtSelect, NothingFails, Failures, Finishing, TypeOK,
      RunsTypeOK
<1>11. CASE DeleteBranch
  BY <1>11
  DEF DeleteBranch, loopVars, askVars, handleVars, runVars, TakeCommand, RetryDropped,
      QueueCleared, Disarmed, AtSelect, NothingFails, Failures, Finishing, TypeOK,
      RunsTypeOK
<1>12. CASE Replay
  BY <1>12
  DEF Replay, loopVars, askVars, runVars, TakeCommand, RetryDropped, AtSelect,
      NothingFails, Failures, Finishing, TypeOK, RunsTypeOK
<1>13. CASE Quit
  BY <1>13
  DEF Quit, queueVars, retryVars, askVars, runVars, AtSelect, BeginCut,
      HandleAfterNoCut, NothingToCut, CutGuarded, NothingFails, Failures, Finishing,
      TypeOK, RunsTypeOK
<1>14. CASE AbortCut
  BY <1>14
  DEF AbortCut, PartialPersisted, NothingFails, Failures, Finishing, TypeOK, RunsTypeOK
<1>15. CASE Close
  BY <1>15
  DEF Close, queueVars, retryVars, askVars, handleVars, runVars, NothingFails, Failures,
      Finishing, TypeOK, RunsTypeOK
<1>16. CASE HandleOutcome
  BY <1>16
  DEF HandleOutcome, loopVars, runVars, AtSelect, HandleEnd, HandleOverflow,
      HandleFailure, queueVars, RestArmed, DispatchDue, NothingFails, Failures,
      Finishing, TypeOK, RunsTypeOK
<1>17. CASE RetryFires
  BY <1>17
  DEF RetryFires, loopVars, queueVars, askVars, runVars, AtSelect, NothingFails,
      Failures, Finishing, TypeOK, RunsTypeOK
<1>18. CASE GraceFires
  BY <1>18
  DEF GraceFires, loopVars, queueVars, retryVars, askVars, runVars, AtSelect, BeginCut,
      HandleAfterNoCut, NothingToCut, CutGuarded, NothingFails, Failures, Finishing,
      TypeOK, RunsTypeOK
<1>19. ASSUME NEW t \in Runs, Answer(t) PROVE NothingFails'
  BY <1>19
  DEF Answer, loopVars, queueVars, retryVars, handleVars, runVars, TakeCommand,
      AtSelect, NothingFails, Failures, Finishing, TypeOK, RunsTypeOK
<1>20. ASSUME NEW t \in Runs, ReceiveAsk(t) PROVE NothingFails'
  BY <1>20
  DEF ReceiveAsk, loopVars, queueVars, retryVars, handleVars, runVars, AtSelect,
      NothingFails, Failures, Finishing, TypeOK, RunsTypeOK
<1>21. ASSUME NEW t \in Runs, NEW ph \in Phases, StartAction(t, ph) PROVE NothingFails'
  BY <1>21
  DEF StartAction, loopVars, queueVars, retryVars, askVars, handleVars, AfterItem,
      ClaimCut, StreamStep, Scheduled, TakeDenial, NothingFails, Failures, Finishing,
      TypeOK, RunsTypeOK
<1>22. ASSUME NEW t \in Runs, NEW ph \in Phases, ToolResult(t, ph) PROVE NothingFails'
  BY <1>22
  DEF ToolResult, loopVars, queueVars, retryVars, askVars, handleVars, AfterItem,
      StreamStep, Scheduled, ClaimCut, TakeDenial, NothingFails, Failures, Finishing,
      TypeOK, RunsTypeOK
<1>23. ASSUME NEW t \in Runs, RuleDenies(t) PROVE NothingFails'
  BY <1>23
  DEF RuleDenies, loopVars, queueVars, retryVars, askVars, handleVars, runVars,
      StreamStep, Scheduled, NothingFails, Failures, Finishing, TypeOK, RunsTypeOK
<1>24. ASSUME NEW t \in Runs, AskUser(t) PROVE NothingFails'
  BY <1>24
  DEF AskUser, loopVars, queueVars, retryVars, handleVars, runVars, StreamStep,
      Scheduled, NothingFails, Failures, Finishing, TypeOK, RunsTypeOK
<1>25. ASSUME NEW t \in Runs, ReplyDone(t) PROVE NothingFails'
  BY <1>25
  DEF ReplyDone, Ends, loopVars, queueVars, retryVars, askVars, handleVars, StreamStep,
      Scheduled, NothingFails, Failures, Finishing, TypeOK, RunsTypeOK
<1>26. ASSUME NEW t \in Runs, StopAtBoundary(t) PROVE NothingFails'
  BY <1>26
  DEF StopAtBoundary, Ends, loopVars, queueVars, retryVars, askVars, handleVars,
      StreamStep, Scheduled, NothingFails, Failures, Finishing, TypeOK, RunsTypeOK
<1>27. ASSUME NEW t \in Runs, ProviderFails(t) PROVE NothingFails'
  BY <1>27
  DEF ProviderFails, Ends, loopVars, queueVars, retryVars, askVars, handleVars,
      StreamStep, Scheduled, NothingFails, Failures, Finishing, TypeOK, RunsTypeOK
<1>28. ASSUME NEW t \in Runs, Persist(t) PROVE NothingFails'
  BY <1>28
  DEF Persist, loopVars, queueVars, retryVars, askVars, handleVars, Scheduled,
      NothingFails, Failures, Finishing, TypeOK, RunsTypeOK
<1>29. ASSUME NEW t \in Runs, Report(t) PROVE NothingFails'
  BY <1>29
  DEF Report, loopVars, queueVars, retryVars, askVars, handleVars, Scheduled,
      NothingFails, Failures, Finishing, TypeOK, RunsTypeOK
<1>30. CASE UNCHANGED vars
  BY <1>30
  DEF vars, NothingFails, Failures, Finishing, TypeOK, RunsTypeOK
<1> QED
  BY <1>1, <1>2, <1>3, <1>4, <1>5, <1>6, <1>7, <1>8, <1>9, <1>10, <1>11, <1>12, <1>13,
     <1>14, <1>15, <1>16, <1>17, <1>18, <1>19, <1>20, <1>21, <1>22, <1>23, <1>24, <1>25,
     <1>26, <1>27, <1>28, <1>29, <1>30 DEF Next, Command, LoopStep, Stream, Terminal

\* Where a turn cannot fail to start, a dispatched prompt streams.
LEMMA DispatchStreams ==
    ASSUME "start" \notin Faults, TypeOK, NEW pcs \in [Runs -> RunStates],
           NEW p, NEW signal, StartUserTurn(p, pcs, signal)
    PROVE  Streaming'
<1>1. active' = born + 1 /\ pc' = [pcs EXCEPT ![born + 1] = "stream"] /\ born < MaxRuns
  BY DEF StartUserTurn, SpawnRun
<1>2. born + 1 \in Runs /\ born + 1 # NoRun
  BY <1>1, ConstantsType DEF TypeOK, CountersTypeOK
<1> QED BY <1>1, <1>2 DEF Streaming, Live, LiveStates

\* Steered, it waits behind the busy agent; sent, it streams at once.
LEMMA SendMessageAwaits ==
    ASSUME "start" \notin Faults, TypeOK, NothingFails, QueueAwaits, SendMessage
    PROVE  QueueAwaits'
<1>1. loop = "select" /\ loop' = "select" /\ pc \in [Runs -> RunStates]
  BY DEF SendMessage, TakeCommand, AtSelect, loopVars, TypeOK, RunsTypeOK
<1>2. CASE AgentBusy /\ UNCHANGED <<handleVars, pc>>
  BY <1>1, <1>2 DEF AgentBusy, NothingFails, QueueAwaits, Streaming, Live, handleVars
<1>3. CASE StartUserTurn(sent + 1, pc, "idle")
  BY <1>1, <1>3, DispatchStreams DEF QueueAwaits
<1> QED BY <1>2, <1>3 DEF SendMessage

\* The aborted run's outcome is the next prompt's start, unless the queue goes
\* or the loop ends.
LEMMA AbortCutAwaits ==
    ASSUME "start" \notin Faults, TypeOK, SoleRun, QueueAwaits, AbortCut
    PROVE  QueueAwaits'
<1> DEFINE pcs == [Dismissed EXCEPT ![active] = IF Live(active) THEN "aborted" ELSE pc[active]]
<1>1. pcs \in [Runs -> RunStates]
  <2>1. Dismissed \in [Runs -> RunStates] /\ pc \in [Runs -> RunStates]
    BY DismissedType DEF TypeOK, RunsTypeOK
  <2>2. active \in Runs
    BY ConstantsType DEF AbortCut, SoleRun, Streaming, TypeOK, CountersTypeOK
  <2> QED BY <2>1, <2>2 DEF RunStates
<1>2. loop' \in {"select", "ended"} /\ cutFor \in {"cancel", "grace", "fork", "quit"}
  BY DEF AbortCut, QueueAwaits, TypeOK, FlagsTypeOK
<1>3. CASE cutFor \in {"cancel", "grace"} /\ steered # <<>>
  <2>1. DispatchSteered(pcs, "idle")
    BY <1>3 DEF AbortCut
  <2> HIDE DEF pcs
  <2> QED BY <1>1, <1>2, <2>1, DispatchStreams DEF DispatchSteered, QueueAwaits
<1>4. CASE steered = <<>> \/ cutFor = "fork"
  BY <1>2, <1>4 DEF AbortCut, QueueAwaits
<1>5. CASE cutFor = "quit"
  BY <1>5 DEF AbortCut, QueueAwaits
<1> QED BY <1>2, <1>3, <1>4, <1>5

\* An outcome dispatches the front of a queue that waits.
LEMMA HandleOutcomeAwaits ==
    ASSUME "start" \notin Faults, TypeOK, NothingFails, QueueAwaits, HandleOutcome
    PROVE  QueueAwaits'
<1>1. HandleEnd /\ loop' = "select"
  BY DEF HandleOutcome, HandleOverflow, HandleFailure, NothingFails, Failures, loopVars,
         AtSelect
<1>2. CASE DispatchSteered(Dismissed, RestArmed)
  <2>1. Dismissed \in [Runs -> RunStates]
    BY DismissedType DEF TypeOK
  <2> QED BY <1>1, <1>2, <2>1, DispatchStreams DEF DispatchSteered, QueueAwaits
<1>3. CASE steered' = <<>>
  BY <1>1, <1>3 DEF QueueAwaits
<1> QED BY <1>1, <1>2, <1>3 DEF HandleEnd, DispatchDue, queueVars

\* Every step keeps the queue behind a run, or behind the outcome of one.
LEMMA AwaitsKept ==
    ASSUME "start" \notin Faults, Windows = {}, TypeOK, SoleRun, NothingFails, QueueAwaits, [Next]_vars
    PROVE  QueueAwaits'
<1>1. CASE SendMessage
  BY <1>1, SendMessageAwaits
<1>2. CASE CancelFlow
  BY <1>2
  DEF CancelFlow, loopVars, queueVars, retryVars, handleVars, TakeCommand, Dismissed,
      AtSelect, QueueAwaits, NothingFails, SoleRun, OneStream, Streaming, Live,
      LiveStates, TypeOK, RunsTypeOK
<1>3. CASE CancelCut
  BY <1>3
  DEF CancelCut, TakeCommand, BeginCut, queueVars, retryVars, askVars, runVars,
      CutGuarded, AtSelect, QueueAwaits, NothingFails, SoleRun, OneStream, Streaming,
      Live, LiveStates, TypeOK, RunsTypeOK
<1>4. CASE CancelRetry
  BY <1>4
  DEF CancelRetry, loopVars, queueVars, askVars, runVars, TakeCommand, HandleAfterNoCut,
      CutGuarded, AtSelect, QueueAwaits, NothingFails, SoleRun, OneStream, Streaming,
      Live, LiveStates, TypeOK, RunsTypeOK
<1>5. CASE RecallSteered
  BY <1>5
  DEF RecallSteered, loopVars, retryVars, askVars, handleVars, runVars, TakeCommand,
      Stored, AtSelect, QueueAwaits, NothingFails, SoleRun, OneStream, Streaming, Live,
      LiveStates, TypeOK, RunsTypeOK
<1>6. CASE ForkCut
  BY <1>6
  DEF ForkCut, TakeCommand, BeginCut, queueVars, retryVars, askVars, runVars,
      CutGuarded, AtSelect, QueueAwaits, NothingFails, SoleRun, OneStream, Streaming,
      Live, LiveStates, TypeOK, RunsTypeOK
<1>7. CASE ForkSession
  BY <1>7
  DEF ForkSession, loopVars, askVars, runVars, TakeCommand, HandleAfterNoCut,
      RetryDropped, QueueCleared, NothingToCut, CutGuarded, Disarmed, AtSelect,
      QueueAwaits, NothingFails, SoleRun, OneStream, Streaming, Live, LiveStates,
      TypeOK, RunsTypeOK
<1>8. CASE NewSession
  BY <1>8
  DEF NewSession, loopVars, handleVars, runVars, TakeCommand, Dismissed, RetryDropped,
      QueueCleared, Disarmed, AtSelect, QueueAwaits, NothingFails, SoleRun, OneStream,
      Streaming, Live, LiveStates, TypeOK, RunsTypeOK
<1>9. CASE LoadSession
  BY <1>9
  DEF LoadSession, loopVars, handleVars, runVars, TakeCommand, Dismissed, RetryDropped,
      QueueCleared, Disarmed, AtSelect, QueueAwaits, NothingFails, SoleRun, OneStream,
      Streaming, Live, LiveStates, TypeOK, RunsTypeOK
<1>10. CASE DeleteSession
  BY <1>10
  DEF DeleteSession, loopVars, askVars, handleVars, runVars, TakeCommand, RetryDropped,
      QueueCleared, Disarmed, AtSelect, QueueAwaits, NothingFails, SoleRun, OneStream,
      Streaming, Live, LiveStates, TypeOK, RunsTypeOK
<1>11. CASE DeleteBranch
  BY <1>11
  DEF DeleteBranch, loopVars, askVars, handleVars, runVars, TakeCommand, RetryDropped,
      QueueCleared, Disarmed, AtSelect, QueueAwaits, NothingFails, SoleRun, OneStream,
      Streaming, Live, LiveStates, TypeOK, RunsTypeOK
<1>12. CASE Replay
  BY <1>12
  DEF Replay, loopVars, askVars, runVars, TakeCommand, RetryDropped, AtSelect,
      QueueAwaits, NothingFails, SoleRun, OneStream, Streaming, Live, LiveStates,
      TypeOK, RunsTypeOK
<1>13. CASE Quit
  BY <1>13
  DEF Quit, queueVars, retryVars, askVars, runVars, AtSelect, BeginCut,
      HandleAfterNoCut, NothingToCut, CutGuarded, QueueAwaits, NothingFails, SoleRun,
      OneStream, Streaming, Live, LiveStates, TypeOK, RunsTypeOK
<1>14. CASE AbortCut
  BY <1>14, AbortCutAwaits
<1>15. CASE Close
  BY <1>15
  DEF Close, queueVars, retryVars, askVars, handleVars, runVars, QueueAwaits,
      NothingFails, SoleRun, OneStream, Streaming, Live, LiveStates, TypeOK, RunsTypeOK
<1>16. CASE HandleOutcome
  BY <1>16, HandleOutcomeAwaits
<1>17. CASE RetryFires
  BY <1>17
  DEF RetryFires, loopVars, queueVars, askVars, runVars, AtSelect, QueueAwaits,
      NothingFails, SoleRun, OneStream, Streaming, Live, LiveStates, TypeOK, RunsTypeOK
<1>18. CASE GraceFires
  BY <1>18
  DEF GraceFires, loopVars, queueVars, retryVars, askVars, runVars, AtSelect, BeginCut,
      HandleAfterNoCut, NothingToCut, CutGuarded, QueueAwaits, NothingFails, SoleRun,
      OneStream, Streaming, Live, LiveStates, TypeOK, RunsTypeOK
<1>19. ASSUME NEW t \in Runs, Answer(t) PROVE QueueAwaits'
  BY <1>19
  DEF Answer, loopVars, queueVars, retryVars, handleVars, runVars, TakeCommand,
      AtSelect, QueueAwaits, NothingFails, SoleRun, OneStream, Streaming, Live,
      LiveStates, TypeOK, RunsTypeOK
<1>20. ASSUME NEW t \in Runs, ReceiveAsk(t) PROVE QueueAwaits'
  BY <1>20
  DEF ReceiveAsk, loopVars, queueVars, retryVars, handleVars, runVars, AtSelect,
      QueueAwaits, NothingFails, SoleRun, OneStream, Streaming, Live, LiveStates,
      TypeOK, RunsTypeOK
<1>21. ASSUME NEW t \in Runs, NEW ph \in Phases, StartAction(t, ph) PROVE QueueAwaits'
  BY <1>21
  DEF StartAction, loopVars, queueVars, retryVars, askVars, handleVars, AfterItem,
      ClaimCut, StreamStep, Scheduled, TakeDenial, QueueAwaits, NothingFails, SoleRun,
      OneStream, Streaming, Live, LiveStates, TypeOK, RunsTypeOK
<1>22. ASSUME NEW t \in Runs, NEW ph \in Phases, ToolResult(t, ph) PROVE QueueAwaits'
  BY <1>22
  DEF ToolResult, loopVars, queueVars, retryVars, askVars, handleVars, AfterItem,
      StreamStep, Scheduled, ClaimCut, TakeDenial, QueueAwaits, NothingFails, SoleRun,
      OneStream, Streaming, Live, LiveStates, TypeOK, RunsTypeOK
<1>23. ASSUME NEW t \in Runs, RuleDenies(t) PROVE QueueAwaits'
  BY <1>23
  DEF RuleDenies, loopVars, queueVars, retryVars, askVars, handleVars, runVars,
      StreamStep, Scheduled, QueueAwaits, NothingFails, SoleRun, OneStream, Streaming,
      Live, LiveStates, TypeOK, RunsTypeOK
<1>24. ASSUME NEW t \in Runs, AskUser(t) PROVE QueueAwaits'
  BY <1>24
  DEF AskUser, loopVars, queueVars, retryVars, handleVars, runVars, StreamStep,
      Scheduled, QueueAwaits, NothingFails, SoleRun, OneStream, Streaming, Live,
      LiveStates, TypeOK, RunsTypeOK
<1>25. ASSUME NEW t \in Runs, ReplyDone(t) PROVE QueueAwaits'
  BY <1>25
  DEF ReplyDone, Ends, loopVars, queueVars, retryVars, askVars, handleVars, StreamStep,
      Scheduled, QueueAwaits, NothingFails, SoleRun, OneStream, Streaming, Live,
      LiveStates, TypeOK, RunsTypeOK
<1>26. ASSUME NEW t \in Runs, StopAtBoundary(t) PROVE QueueAwaits'
  BY <1>26
  DEF StopAtBoundary, Ends, loopVars, queueVars, retryVars, askVars, handleVars,
      StreamStep, Scheduled, QueueAwaits, NothingFails, SoleRun, OneStream, Streaming,
      Live, LiveStates, TypeOK, RunsTypeOK
<1>27. ASSUME NEW t \in Runs, ProviderFails(t) PROVE QueueAwaits'
  BY <1>27
  DEF ProviderFails, Ends, loopVars, queueVars, retryVars, askVars, handleVars,
      StreamStep, Scheduled, QueueAwaits, NothingFails, SoleRun, OneStream, Streaming,
      Live, LiveStates, TypeOK, RunsTypeOK
<1>28. ASSUME NEW t \in Runs, Persist(t) PROVE QueueAwaits'
  BY <1>28
  DEF Persist, loopVars, queueVars, retryVars, askVars, handleVars, Scheduled,
      QueueAwaits, NothingFails, SoleRun, OneStream, Streaming, Live, LiveStates,
      TypeOK, RunsTypeOK
<1>29. ASSUME NEW t \in Runs, Report(t) PROVE QueueAwaits'
  BY <1>29
  DEF Report, loopVars, queueVars, retryVars, askVars, handleVars, Scheduled,
      QueueAwaits, NothingFails, SoleRun, OneStream, Streaming, Live, LiveStates,
      TypeOK, RunsTypeOK
<1>30. CASE UNCHANGED vars
  BY <1>30
  DEF vars, QueueAwaits, NothingFails, SoleRun, OneStream, Streaming, Live, LiveStates,
      TypeOK, RunsTypeOK
<1> QED
  BY <1>1, <1>2, <1>3, <1>4, <1>5, <1>6, <1>7, <1>8, <1>9, <1>10, <1>11, <1>12, <1>13,
     <1>14, <1>15, <1>16, <1>17, <1>18, <1>19, <1>20, <1>21, <1>22, <1>23, <1>24, <1>25,
     <1>26, <1>27, <1>28, <1>29, <1>30 DEF Next, Command, LoopStep, Stream, Terminal

\* Uncancelled, only a fork or the shutdown cuts: no queue waits behind either.
LEMMA AbortCutSignals ==
    ASSUME TypeOK, QueueAwaits, QueueSignals, AbortCut
    PROVE  QueueSignals'
<1>1. cutFor \in {"fork", "quit"} /\ cutFor' = "none" /\ ~cancelDeadline'
  BY DEF AbortCut, QueueAwaits, QueueSignals, TypeOK, FlagsTypeOK
<1>2. steered' = <<>> \/ loop' = "ended"
  BY <1>1 DEF AbortCut
<1> QED BY <1>1, <1>2 DEF QueueSignals

\* A dispatch from an outcome arms the signal for the rest of the queue.
LEMMA HandleOutcomeSignals ==
    ASSUME TypeOK, NothingFails, QueueSignals, HandleOutcome
    PROVE  QueueSignals'
<1>1. HandleEnd /\ cancelDeadline' = FALSE /\ UNCHANGED cutFor
  BY DEF HandleOutcome, HandleOverflow, HandleFailure, NothingFails, Failures, loopVars
<1>2. CASE steered # <<>> /\ DispatchSteered(Dismissed, RestArmed)
  <2>1. steered' = Tail(steered) /\ steer' = RestArmed /\ steered \in Seq(Prompts)
    BY <1>2 DEF DispatchSteered, StartUserTurn, TypeOK, ChannelsTypeOK
  <2>2. steered' # <<>> => Len(steered) > 1
    BY <1>2, <2>1
  <2> QED BY <1>1, <2>1, <2>2 DEF QueueSignals, RestArmed
<1>3. CASE steered' = <<>>
  BY <1>1, <1>3 DEF QueueSignals
<1> QED BY <1>1, <1>2, <1>3 DEF HandleEnd, DispatchDue, queueVars

\* Every step but a cancel keeps the signal armed for a queue that waits.
LEMMA SignalsKept ==
    ASSUME "Cancel" \notin Commands, Windows = {}, TypeOK, TypeOK', SoleRun, NothingFails,
           QueueAwaits, QueueSignals, [Next]_vars
    PROVE  QueueSignals'
<1>1. CASE SendMessage
  BY <1>1
  DEF SendMessage, loopVars, retryVars, askVars, handleVars, runVars, TakeCommand,
      StartUserTurn, AgentBusy, Armed, Stored, AtSelect, QueueSignals, QueueAwaits,
      NothingFails, Streaming
<1>2. CASE CancelFlow
  BY <1>2
  DEF CancelFlow, loopVars, queueVars, retryVars, handleVars, TakeCommand, Dismissed,
      AtSelect, QueueSignals, QueueAwaits, NothingFails, Streaming
<1>3. CASE CancelCut
  BY <1>3
  DEF CancelCut, TakeCommand, BeginCut, queueVars, retryVars, askVars, runVars,
      CutGuarded, AtSelect, QueueSignals, QueueAwaits, NothingFails, Streaming
<1>4. CASE CancelRetry
  BY <1>4
  DEF CancelRetry, loopVars, queueVars, askVars, runVars, TakeCommand, HandleAfterNoCut,
      CutGuarded, AtSelect, QueueSignals, QueueAwaits, NothingFails, Streaming
<1>5. CASE RecallSteered
  BY <1>5
  DEF RecallSteered, loopVars, retryVars, askVars, handleVars, runVars, TakeCommand,
      Stored, AtSelect, QueueSignals, QueueAwaits, NothingFails, Streaming
<1>6. CASE ForkCut
  BY <1>6
  DEF ForkCut, TakeCommand, BeginCut, queueVars, retryVars, askVars, runVars,
      CutGuarded, AtSelect, QueueSignals, QueueAwaits, NothingFails, Streaming
<1>7. CASE ForkSession
  BY <1>7
  DEF ForkSession, loopVars, askVars, runVars, TakeCommand, HandleAfterNoCut,
      RetryDropped, QueueCleared, NothingToCut, CutGuarded, Disarmed, AtSelect,
      QueueSignals, QueueAwaits, NothingFails, Streaming
<1>8. CASE NewSession
  BY <1>8
  DEF NewSession, loopVars, handleVars, runVars, TakeCommand, Dismissed, RetryDropped,
      QueueCleared, Disarmed, AtSelect, QueueSignals, QueueAwaits, NothingFails,
      Streaming
<1>9. CASE LoadSession
  BY <1>9
  DEF LoadSession, loopVars, handleVars, runVars, TakeCommand, Dismissed, RetryDropped,
      QueueCleared, Disarmed, AtSelect, QueueSignals, QueueAwaits, NothingFails,
      Streaming
<1>10. CASE DeleteSession
  BY <1>10
  DEF DeleteSession, loopVars, askVars, handleVars, runVars, TakeCommand, RetryDropped,
      QueueCleared, Disarmed, AtSelect, QueueSignals, QueueAwaits, NothingFails,
      Streaming
<1>11. CASE DeleteBranch
  BY <1>11
  DEF DeleteBranch, loopVars, askVars, handleVars, runVars, TakeCommand, RetryDropped,
      QueueCleared, Disarmed, AtSelect, QueueSignals, QueueAwaits, NothingFails,
      Streaming
<1>12. CASE Replay
  BY <1>12
  DEF Replay, loopVars, askVars, runVars, TakeCommand, RetryDropped, AtSelect,
      QueueSignals, QueueAwaits, NothingFails, Streaming
<1>13. CASE Quit
  BY <1>13
  DEF Quit, queueVars, retryVars, askVars, runVars, AtSelect, BeginCut,
      HandleAfterNoCut, NothingToCut, CutGuarded, QueueSignals, QueueAwaits,
      NothingFails, Streaming
<1>14. CASE AbortCut
  BY <1>14, AbortCutSignals
<1>15. CASE Close
  BY <1>15
  DEF Close, queueVars, retryVars, askVars, handleVars, runVars, QueueSignals,
      QueueAwaits, NothingFails, Streaming
<1>16. CASE HandleOutcome
  BY <1>16, HandleOutcomeSignals
<1>17. CASE RetryFires
  BY <1>17
  DEF RetryFires, loopVars, queueVars, askVars, runVars, AtSelect, QueueSignals,
      QueueAwaits, NothingFails, Streaming
<1>18. CASE GraceFires
  BY <1>18
  DEF GraceFires, loopVars, queueVars, retryVars, askVars, runVars, AtSelect, BeginCut,
      HandleAfterNoCut, NothingToCut, CutGuarded, QueueSignals, QueueAwaits,
      NothingFails, Streaming
<1>19. ASSUME NEW t \in Runs, Answer(t) PROVE QueueSignals'
  BY <1>19
  DEF Answer, loopVars, queueVars, retryVars, handleVars, runVars, TakeCommand,
      AtSelect, QueueSignals, QueueAwaits, NothingFails, Streaming
<1>20. ASSUME NEW t \in Runs, ReceiveAsk(t) PROVE QueueSignals'
  BY <1>20
  DEF ReceiveAsk, loopVars, queueVars, retryVars, handleVars, runVars, AtSelect,
      QueueSignals, QueueAwaits, NothingFails, Streaming
<1>21. ASSUME NEW t \in Runs, NEW ph \in Phases, StartAction(t, ph) PROVE QueueSignals'
  BY <1>21
  DEF StartAction, loopVars, queueVars, retryVars, askVars, handleVars, AfterItem,
      ClaimCut, StreamStep, Scheduled, TakeDenial, QueueSignals, QueueAwaits,
      NothingFails, Streaming
<1>22. ASSUME NEW t \in Runs, NEW ph \in Phases, ToolResult(t, ph) PROVE QueueSignals'
  BY <1>22
  DEF ToolResult, loopVars, queueVars, retryVars, askVars, handleVars, AfterItem,
      StreamStep, Scheduled, ClaimCut, TakeDenial, QueueSignals, QueueAwaits,
      NothingFails, Streaming
<1>23. ASSUME NEW t \in Runs, RuleDenies(t) PROVE QueueSignals'
  BY <1>23
  DEF RuleDenies, loopVars, queueVars, retryVars, askVars, handleVars, runVars,
      StreamStep, Scheduled, QueueSignals, QueueAwaits, NothingFails, Streaming
<1>24. ASSUME NEW t \in Runs, AskUser(t) PROVE QueueSignals'
  BY <1>24
  DEF AskUser, loopVars, queueVars, retryVars, handleVars, runVars, StreamStep,
      Scheduled, QueueSignals, QueueAwaits, NothingFails, Streaming
<1>25. ASSUME NEW t \in Runs, ReplyDone(t) PROVE QueueSignals'
  BY <1>25
  DEF ReplyDone, Ends, loopVars, queueVars, retryVars, askVars, handleVars, StreamStep,
      Scheduled, QueueSignals, QueueAwaits, NothingFails, Streaming
<1>26. ASSUME NEW t \in Runs, StopAtBoundary(t) PROVE QueueSignals'
  BY <1>26
  DEF StopAtBoundary, Ends, loopVars, queueVars, retryVars, askVars, handleVars,
      StreamStep, Scheduled, QueueSignals, QueueAwaits, NothingFails, Streaming
<1>27. ASSUME NEW t \in Runs, ProviderFails(t) PROVE QueueSignals'
  BY <1>27
  DEF ProviderFails, Ends, loopVars, queueVars, retryVars, askVars, handleVars,
      StreamStep, Scheduled, QueueSignals, QueueAwaits, NothingFails, Streaming
<1>28. ASSUME NEW t \in Runs, Persist(t) PROVE QueueSignals'
  BY <1>28
  DEF Persist, loopVars, queueVars, retryVars, askVars, handleVars, Scheduled,
      QueueSignals, QueueAwaits, NothingFails, Streaming
<1>29. ASSUME NEW t \in Runs, Report(t) PROVE QueueSignals'
  BY <1>29
  DEF Report, loopVars, queueVars, retryVars, askVars, handleVars, Scheduled,
      QueueSignals, QueueAwaits, NothingFails, Streaming
<1>30. CASE UNCHANGED vars
  BY <1>30
  DEF vars, QueueSignals, QueueAwaits, NothingFails, Streaming
<1> QED
  BY <1>1, <1>2, <1>3, <1>4, <1>5, <1>6, <1>7, <1>8, <1>9, <1>10, <1>11, <1>12, <1>13,
     <1>14, <1>15, <1>16, <1>17, <1>18, <1>19, <1>20, <1>21, <1>22, <1>23, <1>24, <1>25,
     <1>26, <1>27, <1>28, <1>29, <1>30 DEF Next, Command, LoopStep, Stream, Terminal

\* Where nothing fails, the parts below are inductive together.
QueueInv == SafetyInv /\ NothingFails /\ QueueAwaits /\ QueueOrdered

LEMMA QueueStep ==
    ASSUME Windows = {}, Endings \subseteq {"Deny"}, "start" \notin Faults,
           QueueInv, [Next]_vars
    PROVE  QueueInv'
<1>1. SafetyInv'
  BY SafetyStep DEF QueueInv
<1>2. NothingFails'
  BY FailuresKept DEF QueueInv, SafetyInv
<1>3. QueueAwaits'
  BY AwaitsKept DEF QueueInv, SafetyInv
<1>4. QueueOrdered'
  BY OrderKept DEF QueueInv, SafetyInv
<1> QED BY <1>1, <1>2, <1>3, <1>4 DEF QueueInv

LEMMA InitQueue == Init => QueueInv /\ QueueSignals
<1> SUFFICES ASSUME Init PROVE QueueInv /\ QueueSignals
  OBVIOUS
<1>1. SafetyInv
  BY InitType, InitSole, InitSafe DEF SafetyInv
<1>2. NothingFails /\ QueueAwaits /\ QueueOrdered /\ QueueSignals
  BY DEF Init, NothingFails, Failures, QueueAwaits, QueueOrdered, QueueSignals
<1> QED BY <1>1, <1>2 DEF QueueInv

\* Where no run fails and no turn fails to start, prompts are given turns in
\* the order they were sent: a queued prompt is newer than the turn the agent
\* was last given, whatever is steered, recalled, replayed, forked or
\* cancelled.  (A retry whose budget is spent, or a start that fails, leaves a
\* queue that the next prompt sent overtakes.)
THEOREM NoOvertakingSafe ==
    ASSUME Windows = {}, Endings \subseteq {"Deny"}, "start" \notin Faults
    PROVE  Spec => []NoOvertaking
<1>1. Init => QueueInv
  BY InitQueue
<1>2. QueueInv /\ [Next]_vars => QueueInv'
  BY QueueStep
<1>3. QueueInv => NoOvertaking
  <2> SUFFICES ASSUME QueueInv, NEW i \in DOMAIN steered PROVE steered[i] > latest
    BY DEF NoOvertaking
  <2>1. steered[i] \in Int /\ latest \in Int /\ latest < steered[i]
    BY ConstantsType DEF QueueInv, SafetyInv, QueueOrdered, TypeOK, ChannelsTypeOK, CountersTypeOK
  <2> QED BY <2>1
<1> QED BY <1>1, <1>2, <1>3, PTL DEF Spec

\* ... and a stream that may still reach an action boundary knows of the prompts
\* queued behind it, where nobody cancels (the hard cut of a cancel's grace
\* dispatches one prompt and leaves the rest unarmed).
THEOREM QueueArmedSafe ==
    ASSUME Windows = {}, Endings \subseteq {"Deny"}, "start" \notin Faults,
           "Cancel" \notin Commands
    PROVE  Spec => []QueueArmed
<1> DEFINE Inv == QueueInv /\ QueueSignals
<1>1. Init => Inv
  BY InitQueue
<1>2. Inv /\ [Next]_vars => Inv'
  <2> SUFFICES ASSUME Inv, [Next]_vars PROVE Inv'
    OBVIOUS
  <2>1. QueueInv'
    BY QueueStep
  <2>2. QueueSignals'
    BY <2>1, SignalsKept DEF QueueInv, SafetyInv
  <2> QED BY <2>1, <2>2
<1>3. Inv => QueueArmed
  <2> SUFFICES ASSUME Inv, steered # <<>>, Streaming, pc[active] \in {"stream", "ask"}
               PROVE  steer = "armed"
    BY DEF QueueArmed
  <2>1. active \in Runs /\ done = <<>>
    BY ConstantsType
    DEF QueueInv, SafetyInv, SoleRun, NoneLive, Streaming, TypeOK, CountersTypeOK
  <2>2. loop \in {"select", "cut"}
    BY <2>1 DEF QueueInv, SafetyInv, CutInv, Closed, TypeOK, FlagsTypeOK
  <2>3. steer # "finalizing"
    <3> SUFFICES ASSUME steer = "finalizing" PROVE FALSE
      OBVIOUS
    <3>1. PICK t \in Runs : out[t] = "Preempted" /\ pc[t] \in {"cut", "report"}
      BY <2>1, <2>2 DEF QueueInv, SafetyInv, CutInv, FinalizingOwned
    <3>2. t = active
      BY <3>1 DEF QueueInv, SafetyInv, SoleRun, OneStream, Live, LiveStates
    <3> QED BY <3>1, <3>2
  <2> QED BY <2>2, <2>3 DEF QueueSignals
<1> QED BY <1>1, <1>2, <1>3, PTL DEF Spec

=============================================================================
