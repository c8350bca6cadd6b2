---------------------------- MODULE CodeModeProofs ----------------------------
(***************************************************************************)
(* Proofs about CodeMode for every number of cells, events and marks.      *)
(***************************************************************************)
EXTENDS CodeMode, TLAPS

-----------------------------------------------------------------------------
(* Type correctness.                                                       *)

(* The initial state is well typed.                                        *)
LEMMA InitTypes == Init => TypeOK
<1> SUFFICES ASSUME Init PROVE TypeOK
  OBVIOUS
<1> USE ConstantsAssumption DEF Init, Cells, NoCell
<1>1. SessionTypes
  BY DEF SessionTypes
<1>2. CellTypes
  BY DEF CellTypes, CellPhase, Lives, Summary, NoSummary
<1>3. WorkerTypes
  BY DEF WorkerTypes
<1>4. HostTypes
  BY DEF HostTypes, HostPc, Cues, NoSummary
<1>5. CallerTypes
  BY DEF CallerTypes, CallerPc, NoSummary
<1>6. QED
  BY <1>1, <1>2, <1>3, <1>4, <1>5 DEF TypeOK

(* What an action leaves alone keeps its types.                            *)
LEMMA Kept ==
  ASSUME TypeOK
  PROVE  /\ UNCHANGED session => SessionTypes'
         /\ UNCHANGED <<cellVars, cancel, late, base>> => CellTypes'
         /\ UNCHANGED workerVars => WorkerTypes'
         /\ UNCHANGED <<hostVars, reply>> => HostTypes'
         /\ UNCHANGED <<callerVars, heard>> => CallerTypes'
<1>1. UNCHANGED session => SessionTypes'
  BY DEF TypeOK, SessionTypes, session
<1>2. UNCHANGED <<cellVars, cancel, late, base>> => CellTypes'
  BY DEF TypeOK, CellTypes, cellVars
<1>3. UNCHANGED workerVars => WorkerTypes'
  BY DEF TypeOK, WorkerTypes, workerVars
<1>4. UNCHANGED <<hostVars, reply>> => HostTypes'
  BY DEF TypeOK, HostTypes, hostVars
<1>5. UNCHANGED <<callerVars, heard>> => CallerTypes'
  BY DEF TypeOK, CallerTypes, callerVars
<1>6. QED
  BY <1>1, <1>2, <1>3, <1>4, <1>5

(* A mark is an event.                                                     *)
LEMMA MarkType ==
  ASSUME NEW kind \in Marks \cup Results
  PROVE  Mark(kind) \in Event
BY DEF Mark, Event

(* Sending events keeps the channel's type.                                *)
LEMMA SendTypes ==
  ASSUME TypeOK, NEW c \in Cells, NEW events \in Seq(Event), Send(c, events)
  PROVE  chan' \in [Cells -> Seq(Event)]
<1>1. chan \in [Cells -> Seq(Event)]
  BY DEF TypeOK, WorkerTypes
<1>2. chan[c] \o events \in Seq(Event)
  BY <1>1
<1>3. QED
  BY <1>1, <1>2 DEF Send

(* Every step of a worker keeps the types.                                 *)
LEMMA WorkerTypeInv ==
  ASSUME TypeOK, NEW c \in Cells, WorkerStep(c)
  PROVE  TypeOK'
<1>1. CASE EmitText(c)
  <2>1. [kind |-> "text", seq |-> emitted[c] + 1] \in Event
    BY DEF TypeOK, WorkerTypes, Event
  <2>2. <<[kind |-> "text", seq |-> emitted[c] + 1]>> \in Seq(Event)
    BY <2>1
  <2>3. chan' \in [Cells -> Seq(Event)]
    BY <1>1, <2>2, SendTypes DEF EmitText
  <2>4. emitted' \in [Cells -> Nat]
    BY <1>1, ConstantsAssumption DEF TypeOK, WorkerTypes, EmitText
  <2>5. WorkerTypes'
    BY <1>1, <2>3, <2>4 DEF TypeOK, WorkerTypes, EmitText
  <2>6. QED
    BY <1>1, <2>5, Kept DEF TypeOK, EmitText
<1>2. CASE EmitMark(c)
  <2>1. PICK kind \in {"flush", "timer"} \cap Moves : Send(c, <<Mark(kind)>>)
    BY <1>2 DEF EmitMark
  <2>2. <<Mark(kind)>> \in Seq(Event)
    BY MarkType DEF Marks
  <2>3. chan' \in [Cells -> Seq(Event)]
    BY <2>1, <2>2, SendTypes
  <2>4. marks' \in [Cells -> Nat]
    BY <1>2, ConstantsAssumption DEF TypeOK, WorkerTypes, EmitMark
  <2>5. WorkerTypes'
    BY <1>2, <2>3, <2>4 DEF TypeOK, WorkerTypes, EmitMark
  <2>6. QED
    BY <1>2, <2>5, Kept DEF TypeOK, EmitMark
<1>3. CASE StartTool(c)
  <2>1. Mark("tool") \in Event /\ Mark("done") \in Event
    BY MarkType DEF Marks
  <2>2. /\ <<Mark("tool")>> \in Seq(Event)
        /\ <<Mark("tool"), Mark("done")>> \in Seq(Event)
    BY <2>1
  <2>3. chan' \in [Cells -> Seq(Event)]
    BY <1>3, <2>2, SendTypes DEF StartTool
  <2>4. marks' \in [Cells -> Nat]
    BY <1>3, ConstantsAssumption DEF TypeOK, WorkerTypes, StartTool
  <2>5. calls' = [calls EXCEPT ![c] = @ + 1] \/ calls' = calls
    BY <1>3 DEF StartTool
  <2>6. calls' \in [Cells -> Nat]
    <3>1. calls \in [Cells -> Nat] /\ calls[c] + 1 \in Nat
      BY DEF TypeOK, WorkerTypes
    <3>2. QED
      BY <2>5, <3>1
  <2>7. WorkerTypes'
    BY <1>3, <2>3, <2>4, <2>6 DEF TypeOK, WorkerTypes, StartTool
  <2>8. QED
    BY <1>3, <2>7, Kept DEF TypeOK, StartTool
<1>4. CASE EndTool(c)
  <2>1. Mark("done") \in Event
    BY MarkType DEF Marks
  <2>2. <<Mark("done")>> \in Seq(Event)
    BY <2>1
  <2>3. chan' \in [Cells -> Seq(Event)]
    BY <1>4, <2>2, SendTypes DEF EndTool
  <2>4. calls' \in [Cells -> Nat]
    BY <1>4 DEF TypeOK, WorkerTypes, EndTool
  <2>5. WorkerTypes'
    BY <1>4, <2>3, <2>4 DEF TypeOK, WorkerTypes, EndTool
  <2>6. QED
    BY <1>4, <2>5, Kept DEF TypeOK, EndTool
<1>5. CASE Flood(c)
  <2>1. worker' \in [Cells -> {"absent", "running", "flooding", "ended"}]
    BY <1>5 DEF TypeOK, WorkerTypes, Flood
  <2>2. WorkerTypes'
    BY <1>5, <2>1 DEF TypeOK, WorkerTypes, Flood
  <2>3. QED
    BY <1>5, <2>2, Kept DEF TypeOK, Flood
<1>6. CASE Complete(c)
  <2>1. PICK r \in Results :
          IF host[c] = "exited" THEN UNCHANGED chan ELSE Send(c, <<Mark(r)>>)
    BY <1>6 DEF Complete
  <2>2. <<Mark(r)>> \in Seq(Event)
    BY MarkType
  <2>3. chan' \in [Cells -> Seq(Event)]
    BY <2>1, <2>2, SendTypes DEF TypeOK, WorkerTypes
  <2>4. WorkerTypes'
    BY <1>6, <2>3 DEF TypeOK, WorkerTypes, Complete
  <2>5. QED
    BY <1>6, <2>4, Kept DEF TypeOK, Complete
<1>7. QED
  BY <1>1, <1>2, <1>3, <1>4, <1>5, <1>6 DEF WorkerStep
(* A snapshot is a summary.                                                *)
LEMMA SummaryTypes ==
  ASSUME TypeOK, NEW c \in Cells
  PROVE  /\ Snapshot(c) \in Summary
         /\ \A life \in Lives : [life |-> life, upto |-> Len(shown[c])] \in Summary
<1>1. shown[c] \in Seq(Nat)
  BY DEF TypeOK, CellTypes
<1>2. Len(shown[c]) \in Nat
  BY <1>1
<1>3. Lifecycle(phase[c]) \in Lives \cup {"Running"}
  BY DEF Lifecycle
<1>4. QED
  BY <1>2, <1>3 DEF Snapshot, Summary

(* An answer is a summary or an error.                                     *)
LEMMA AnswerTypes ==
  ASSUME TypeOK, NEW c \in Cells, NEW r \in Summary \cup {NoSummary, HostError},
         Answer(c, r)
  PROVE  reply' \in [Cells -> Summary \cup {NoSummary, HostError}]
BY DEF TypeOK, HostTypes, Answer

(* An announcement keeps the host's types ...                              *)
LEMMA AnnounceTypes ==
  ASSUME TypeOK, NEW c \in Cells, NEW why \in Cues,
         NEW life \in Lives \cup {"Running"}, NEW upto \in Nat,
         Announce(c, why, life, upto)
  PROVE  /\ host' \in [Cells -> HostPc] /\ cue' \in [Cells -> Cues]
         /\ note' \in [Cells -> Summary \cup {NoSummary}]
<1>1. [life |-> life, upto |-> upto] \in Summary
  BY DEF Summary
<1>2. host' \in [Cells -> HostPc]
  BY DEF TypeOK, HostTypes, Announce, Goto, HostPc
<1>3. cue' \in [Cells -> Cues]
  BY DEF TypeOK, HostTypes, Announce
<1>4. note' \in [Cells -> Summary \cup {NoSummary}]
  BY <1>1 DEF TypeOK, HostTypes, Announce
<1>5. QED
  BY <1>2, <1>3, <1>4

(* ... as does a move to another step ...                                  *)
LEMMA GotoTypes ==
  ASSUME TypeOK, NEW c \in Cells, NEW step \in HostPc, Goto(c, step)
  PROVE  host' \in [Cells -> HostPc]
BY DEF TypeOK, HostTypes, Goto

(* ... and forgetting what ended the batch.                                *)
LEMMA ForgetTypes ==
  ASSUME TypeOK, NEW c \in Cells, Forget(c)
  PROVE  /\ cue' \in [Cells -> Cues]
         /\ note' \in [Cells -> Summary \cup {NoSummary}]
<1>1. "none" \in Cues
  BY DEF Cues
<1>2. QED
  BY <1>1 DEF TypeOK, HostTypes, Forget

(* The end of a host keeps the types.                                      *)
LEMMA ExitTypes ==
  ASSUME TypeOK, NEW c \in Cells, Exit(c), UNCHANGED <<emitted, worker>>,
         reply' \in [Cells -> Summary \cup {NoSummary, HostError}]
  PROVE  HostTypes' /\ WorkerTypes'
<1>1. host' \in [Cells -> HostPc]
  BY GotoTypes DEF Exit, HostPc
<1>2. /\ cue' \in [Cells -> Cues]
      /\ note' \in [Cells -> Summary \cup {NoSummary}]
  BY ForgetTypes DEF Exit
<1>3. batch' \in [Cells -> Seq(Nat)] /\ fresh' \in [Cells -> BOOLEAN]
  <2>1. <<>> \in Seq(Nat)
    OBVIOUS
  <2>2. QED
    BY <2>1 DEF TypeOK, HostTypes, Exit
<1>4. HostTypes'
  BY <1>1, <1>2, <1>3 DEF HostTypes
<1>5. chan' \in [Cells -> Seq(Event)]
  <2>1. <<>> \in Seq(Event)
    OBVIOUS
  <2>2. QED
    BY <2>1 DEF TypeOK, WorkerTypes, Exit
<1>6. marks' \in [Cells -> Nat] /\ calls' \in [Cells -> Nat]
  BY DEF TypeOK, WorkerTypes, Exit
<1>7. WorkerTypes'
  BY <1>5, <1>6 DEF TypeOK, WorkerTypes
<1>8. QED
  BY <1>4, <1>7

(* So does the end of one whose cell is gone.                              *)
LEMMA FailAndExitTypes ==
  ASSUME TypeOK, NEW c \in Cells, FailAndExit(c),
         UNCHANGED <<emitted, worker, callerVars, cancel, base, late, heard>>
  PROVE  TypeOK'
<1>1. reply' \in [Cells -> Summary \cup {NoSummary, HostError}]
  BY AnswerTypes DEF FailAndExit
<1>2. HostTypes' /\ WorkerTypes'
  BY <1>1, ExitTypes DEF FailAndExit
<1>3. QED
  BY <1>2, Kept DEF TypeOK, FailAndExit

(* A settled cell is well typed.                                           *)
LEMMA SettleTypes ==
  ASSUME TypeOK, NEW c \in Cells, NEW life \in Lives, NEW why \in Cues,
         Settle(c, life, why),
         UNCHANGED <<emitted, worker, callerVars, cancel, base, late, heard>>
  PROVE  TypeOK'
<1>1. CASE FailAndExit(c)
  BY <1>1, FailAndExitTypes
<1>2. CASE ~FailAndExit(c)
  <2>1. /\ phase' = [phase EXCEPT ![c] = life]
        /\ Announce(c, why, life, Len(shown[c]))
        /\ UNCHANGED <<session, shown, pub, chan, marks, calls, batch, fresh, reply>>
    BY <1>2 DEF Settle
  <2>2. Len(shown[c]) \in Nat
    <3>1. shown[c] \in Seq(Nat)
      BY DEF TypeOK, CellTypes
    <3>2. QED
      BY <3>1
  <2>3. HostTypes'
    <3>1. /\ host' \in [Cells -> HostPc] /\ cue' \in [Cells -> Cues]
          /\ note' \in [Cells -> Summary \cup {NoSummary}]
      BY <2>1, <2>2, AnnounceTypes
    <3>2. QED
      BY <2>1, <3>1 DEF TypeOK, HostTypes
  <2>4. CellTypes'
    <3>1. phase' \in [Cells -> CellPhase]
      BY <2>1 DEF TypeOK, CellTypes, CellPhase
    <3>2. QED
      BY <2>1, <3>1 DEF TypeOK, CellTypes
  <2>5. WorkerTypes' /\ SessionTypes' /\ CallerTypes'
    BY <2>1, Kept DEF workerVars
  <2>6. QED
    BY <2>3, <2>4, <2>5 DEF TypeOK
<1>3. QED
  BY <1>1, <1>2

(* What Receive makes of the event it takes.                               *)
LEMMA ReceiveTypes ==
  ASSUME TypeOK, NEW c \in Cells, Receive(c)
  PROVE  TypeOK'
<1> DEFINE event == Head(chan[c])
<1>1. /\ chan \in [Cells -> Seq(Event)] /\ chan[c] # <<>>
      /\ batch \in [Cells -> Seq(Nat)] /\ cue \in [Cells -> Cues]
  BY DEF TypeOK, WorkerTypes, HostTypes, Receive
<1>2. event \in Event /\ Tail(chan[c]) \in Seq(Event)
  BY <1>1
<1>3. event.seq \in Nat /\ event.kind \in {"text"} \cup Marks \cup Results
  BY <1>2 DEF Event
<1>4. batch' \in [Cells -> Seq(Nat)]
  <2>1. Append(batch[c], event.seq) \in Seq(Nat) /\ <<>> \in Seq(Nat)
    BY <1>1, <1>3
  <2>2. \/ batch' = [batch EXCEPT ![c] = <<>>]
        \/ batch' = [batch EXCEPT ![c] = Append(@, event.seq)]
        \/ batch' = [batch EXCEPT ![c] = @]
    BY DEF Receive
  <2>3. QED
    BY <1>1, <2>1, <2>2
<1>5. cue' \in [Cells -> Cues]
  <2>1. event.kind \in {"text", "done"} \/ event.kind \in Cues
    BY <1>3 DEF Marks, Cues
  <2>2. \/ cue' = [cue EXCEPT ![c] = @]
        \/ cue' = [cue EXCEPT ![c] = event.kind] /\ event.kind \notin {"text", "done"}
    BY DEF Receive
  <2>3. QED
    BY <1>1, <2>1, <2>2
<1>6. host' \in [Cells -> HostPc]
  <2>1. \/ Goto(c, "next")
        \/ Goto(c, "fail")
        \/ Goto(c, "record")
    BY DEF Receive
  <2>2. QED
    BY <2>1, GotoTypes DEF HostPc
<1>7. HostTypes'
  BY <1>4, <1>5, <1>6 DEF TypeOK, HostTypes, Receive
<1>8. chan' \in [Cells -> Seq(Event)]
  BY <1>1, <1>2 DEF Receive
<1>9. WorkerTypes'
  BY <1>8 DEF TypeOK, WorkerTypes, Receive
<1>10. QED
  BY <1>7, <1>9, Kept DEF TypeOK, Receive

(* Recording a batch keeps the cell's types.                               *)
LEMMA RecordBatchTypes ==
  ASSUME TypeOK, NEW c \in Cells, RecordBatch(c)
  PROVE  /\ shown' \in [Cells -> Seq(Nat)] /\ phase' \in [Cells -> CellPhase]
         /\ stored' \in SUBSET Cells /\ batch' \in [Cells -> Seq(Nat)]
         /\ Len(shown'[c]) \in Nat
<1>1. /\ shown \in [Cells -> Seq(Nat)] /\ phase \in [Cells -> CellPhase]
      /\ stored \in SUBSET Cells /\ batch \in [Cells -> Seq(Nat)]
      /\ base \in [Cells -> SUBSET Cells]
  BY DEF TypeOK, CellTypes, HostTypes, SessionTypes
<1>2. shown[c] \o batch[c] \in Seq(Nat)
  BY <1>1
<1>3. shown' = [shown EXCEPT ![c] = @ \o batch[c]]
  BY DEF RecordBatch
<1>4. shown' \in [Cells -> Seq(Nat)] /\ shown'[c] \in Seq(Nat)
  BY <1>1, <1>2, <1>3
<1>5. phase' \in [Cells -> CellPhase]
  BY <1>1 DEF RecordBatch, PhaseAfter, CellPhase
<1>6. stored' \in SUBSET Cells
  BY <1>1 DEF RecordBatch
<1>7. batch' \in [Cells -> Seq(Nat)]
  BY <1>1 DEF RecordBatch
<1>8. Len(shown'[c]) \in Nat
  BY <1>4
<1>9. QED
  BY <1>4, <1>5, <1>6, <1>7, <1>8

(* The three outcomes of recording a batch.                                *)
LEMMA RecordCases ==
  ASSUME NEW c \in Cells, Record(c), ~FailAndExit(c)
  PROVE  /\ active = c /\ RecordBatch(c)
         /\ \/ /\ cue[c] # "timer"
               /\ Announce(c, cue[c], Lifecycle(phase'[c]), Len(shown'[c]))
               /\ fresh' = [fresh EXCEPT ![c] = cue[c] # "flush" /\ Progress(c)]
            \/ /\ cue[c] = "timer"
               /\ Announce(c, "idle", Lifecycle(phase'[c]), Len(shown'[c]))
               /\ fresh' = [fresh EXCEPT ![c] = FALSE]
            \/ /\ cue[c] = "timer"
               /\ Goto(c, "poll")
               /\ fresh' = [fresh EXCEPT ![c] = Progress(c)]
               /\ Forget(c)
         /\ UNCHANGED <<active, nextCell, pub, chan, marks, calls, reply>>
BY DEF Record, Holds

(* So does the whole step.                                                 *)
LEMMA RecordTypes ==
  ASSUME TypeOK, NEW c \in Cells, Record(c)
  PROVE  TypeOK'
<1>1. UNCHANGED <<emitted, worker, callerVars, cancel, base, late, heard>>
  BY DEF Record
<1>2. CASE FailAndExit(c)
  BY <1>1, <1>2, FailAndExitTypes
<1>3. CASE ~FailAndExit(c)
  <2>1. RecordBatch(c)
    BY <1>3, RecordCases
  <2>2. /\ shown' \in [Cells -> Seq(Nat)] /\ phase' \in [Cells -> CellPhase]
        /\ stored' \in SUBSET Cells /\ batch' \in [Cells -> Seq(Nat)]
        /\ Len(shown'[c]) \in Nat
    BY <2>1, RecordBatchTypes
  <2>3. Lifecycle(phase'[c]) \in Lives \cup {"Running"}
    BY DEF Lifecycle
  <2>4. UNCHANGED <<active, nextCell, pub, chan, marks, calls, reply>>
    BY <1>3, RecordCases
  <2>5. cue[c] \in Cues /\ "idle" \in Cues
    BY DEF TypeOK, HostTypes, Cues
  <2>6. /\ host' \in [Cells -> HostPc] /\ cue' \in [Cells -> Cues]
        /\ note' \in [Cells -> Summary \cup {NoSummary}]
    <3>1. CASE Announce(c, cue[c], Lifecycle(phase'[c]), Len(shown'[c]))
      BY <2>2, <2>3, <2>5, <3>1, AnnounceTypes
    <3>2. CASE Announce(c, "idle", Lifecycle(phase'[c]), Len(shown'[c]))
      BY <2>2, <2>3, <2>5, <3>2, AnnounceTypes
    <3>3. CASE Goto(c, "poll") /\ Forget(c)
      BY <3>3, GotoTypes, ForgetTypes DEF HostPc
    <3>4. QED
      BY <1>3, <3>1, <3>2, <3>3, RecordCases
  <2>7. fresh' \in [Cells -> BOOLEAN]
    <3>1. fresh \in [Cells -> BOOLEAN]
      BY DEF TypeOK, HostTypes
    <3>2. PICK b \in BOOLEAN : fresh' = [fresh EXCEPT ![c] = b]
      BY <1>3, <3>1, RecordCases DEF Progress
    <3>3. QED
      BY <3>1, <3>2
  <2>8. HostTypes'
    BY <2>2, <2>4, <2>6, <2>7 DEF TypeOK, HostTypes
  <2>9. CellTypes'
    BY <1>1, <2>2, <2>4 DEF TypeOK, CellTypes
  <2>10. SessionTypes'
    BY <2>2, <2>4 DEF TypeOK, SessionTypes
  <2>11. WorkerTypes' /\ CallerTypes'
    BY <1>1, <2>4, Kept DEF workerVars
  <2>12. QED
    BY <2>8, <2>9, <2>10, <2>11 DEF TypeOK
<1>4. QED
  BY <1>2, <1>3

(* An idle flush keeps the types.                                          *)
LEMMA IdleFlushTypes ==
  ASSUME TypeOK, NEW c \in Cells, IdleFlush(c)
  PROVE  TypeOK'
<1>1. UNCHANGED <<emitted, worker, callerVars, cancel, base, late, heard>>
  BY DEF IdleFlush
<1>2. CASE FailAndExit(c)
  BY <1>1, <1>2, FailAndExitTypes
<1>3. CASE ~FailAndExit(c)
  <2>1. /\ Announce(c, "idle", Snapshot(c).life, Snapshot(c).upto)
        /\ fresh' = [fresh EXCEPT ![c] = FALSE]
        /\ UNCHANGED <<session, cellVars, chan, marks, calls, batch, reply>>
    BY <1>3 DEF IdleFlush
  <2>2. /\ Snapshot(c).life \in Lives \cup {"Running"} /\ Snapshot(c).upto \in Nat
        /\ "idle" \in Cues
    BY SummaryTypes DEF Summary, Cues
  <2>3. /\ host' \in [Cells -> HostPc] /\ cue' \in [Cells -> Cues]
        /\ note' \in [Cells -> Summary \cup {NoSummary}]
    BY <2>1, <2>2, AnnounceTypes
  <2>4. fresh' \in [Cells -> BOOLEAN]
    BY <2>1 DEF TypeOK, HostTypes
  <2>5. HostTypes'
    BY <2>1, <2>3, <2>4 DEF TypeOK, HostTypes
  <2>6. SessionTypes' /\ CellTypes' /\ WorkerTypes' /\ CallerTypes'
    BY <1>1, <2>1, Kept DEF workerVars
  <2>7. QED
    BY <2>5, <2>6 DEF TypeOK
<1>4. QED
  BY <1>2, <1>3

(* The outcomes of a publication.                                          *)
LEMMA PublishCases ==
  ASSUME NEW c \in Cells, Publish(c)
  PROVE  \/ FailAndExit(c) /\ UNCHANGED moved
         \/ /\ active = c
            /\ pub' = [pub EXCEPT ![c] = note[c]]
            /\ Notify(c)
            /\ UNCHANGED reply \/ Answer(c, note[c])
            /\ \/ Last(c) /\ Exit(c)
               \/ ~Last(c) /\ Goto(c, "poll") /\ Forget(c)
                  /\ UNCHANGED <<batch, fresh, chan, marks, calls>>
            /\ UNCHANGED <<session, phase, shown>>
         \/ /\ active # c /\ cue[c] = "Error"
            /\ Answer(c, note[c])
            /\ Exit(c)
            /\ UNCHANGED <<session, cellVars, moved>>
BY DEF Publish, Holds

(* So does a publication.                                                  *)
LEMMA PublishTypes ==
  ASSUME TypeOK, NEW c \in Cells, Publish(c)
  PROVE  TypeOK'
<1>1. UNCHANGED <<emitted, worker, pc, mine, prefer, cancel, base, late, heard>>
  BY DEF Publish
<1>2. note[c] \in Summary \cup {NoSummary, HostError}
  BY DEF TypeOK, HostTypes
<1>3. CASE FailAndExit(c) /\ UNCHANGED moved
  BY <1>1, <1>3, FailAndExitTypes DEF callerVars
<1>4. CASE /\ pub' = [pub EXCEPT ![c] = note[c]]
           /\ Notify(c)
           /\ UNCHANGED reply \/ Answer(c, note[c])
           /\ \/ Last(c) /\ Exit(c)
              \/ ~Last(c) /\ Goto(c, "poll") /\ Forget(c)
                 /\ UNCHANGED <<batch, fresh, chan, marks, calls>>
           /\ UNCHANGED <<session, phase, shown>>
  <2>1. reply' \in [Cells -> Summary \cup {NoSummary, HostError}]
    BY <1>2, <1>4, AnswerTypes DEF TypeOK, HostTypes
  <2>2. HostTypes' /\ WorkerTypes'
    <3>1. CASE Exit(c)
      BY <1>1, <2>1, <3>1, ExitTypes
    <3>2. CASE /\ Goto(c, "poll") /\ Forget(c)
               /\ UNCHANGED <<batch, fresh, chan, marks, calls>>
      <4>1. host' \in [Cells -> HostPc]
        BY <3>2, GotoTypes DEF HostPc
      <4>2. /\ cue' \in [Cells -> Cues]
            /\ note' \in [Cells -> Summary \cup {NoSummary}]
        BY <3>2, ForgetTypes
      <4>3. HostTypes'
        BY <2>1, <3>2, <4>1, <4>2 DEF TypeOK, HostTypes
      <4>4. WorkerTypes'
        BY <1>1, <3>2, Kept DEF workerVars
      <4>5. QED
        BY <4>3, <4>4
    <3>3. QED
      BY <1>4, <3>1, <3>2
  <2>3. CellTypes'
    <3>1. pub' \in [Cells -> Summary \cup {NoSummary}]
      BY <1>4 DEF TypeOK, CellTypes, HostTypes
    <3>2. QED
      BY <1>1, <1>4, <3>1 DEF TypeOK, CellTypes
  <2>4. CallerTypes'
    <3>1. moved' \in BOOLEAN
      BY <1>4 DEF TypeOK, CallerTypes, Notify
    <3>2. QED
      BY <1>1, <3>1 DEF TypeOK, CallerTypes
  <2>5. SessionTypes'
    BY <1>4, Kept
  <2>6. QED
    BY <2>2, <2>3, <2>4, <2>5 DEF TypeOK
<1>5. CASE Answer(c, note[c]) /\ Exit(c) /\ UNCHANGED <<session, cellVars, moved>>
  <2>1. HostTypes' /\ WorkerTypes'
    BY <1>1, <1>2, <1>5, AnswerTypes, ExitTypes
  <2>2. QED
    BY <1>1, <1>5, <2>1, Kept DEF TypeOK, callerVars
<1>6. QED
  BY <1>3, <1>4, <1>5, PublishCases

(* Every step of a host task keeps the types.                              *)
LEMMA HostTypeInv ==
  ASSUME TypeOK, NEW c \in Cells, HostStep(c)
  PROVE  TypeOK'
<1>1. CASE Poll(c)
  <2>1. host' \in [Cells -> HostPc]
    BY <1>1 DEF TypeOK, HostTypes, Poll, Goto, HostPc
  <2>2. HostTypes'
    BY <1>1, <2>1 DEF TypeOK, HostTypes, Poll
  <2>3. cancel' \in [Cells -> BOOLEAN]
    BY <1>1 DEF TypeOK, CellTypes, Poll
  <2>4. CellTypes'
    BY <1>1, <2>3 DEF TypeOK, CellTypes, Poll, cellVars
  <2>5. QED
    BY <1>1, <2>2, <2>4, Kept DEF TypeOK, Poll
<1>2. CASE Receive(c)
  BY <1>2, ReceiveTypes
<1>3. CASE Idle(c)
  <2>1. host' \in [Cells -> HostPc]
    BY <1>3, GotoTypes DEF Idle, HostPc
  <2>2. batch' \in [Cells -> Seq(Nat)]
    <3>1. batch \in [Cells -> Seq(Nat)] /\ <<>> \in Seq(Nat)
      BY DEF TypeOK, HostTypes
    <3>2. QED
      BY <1>3, <3>1 DEF Idle
  <2>3. HostTypes'
    BY <1>3, <2>1, <2>2 DEF TypeOK, HostTypes, Idle
  <2>4. QED
    BY <1>3, <2>3, Kept DEF TypeOK, Idle
<1>4. CASE IdleContinue(c)
  <2>1. host' \in [Cells -> HostPc]
    BY <1>4, GotoTypes DEF IdleContinue, HostPc
  <2>2. HostTypes'
    BY <1>4, <2>1 DEF TypeOK, HostTypes, IdleContinue
  <2>3. QED
    BY <1>4, <2>2, Kept DEF TypeOK, IdleContinue
<1>5. CASE IdleFlush(c)
  BY <1>5, IdleFlushTypes
<1>6. CASE Record(c)
  BY <1>6, RecordTypes
<1>7. CASE Expire(c)
  BY <1>7, SettleTypes DEF Expire, Lives, Cues
<1>8. CASE Fail(c)
  BY <1>8, SettleTypes DEF Fail, Lives, Cues, Results
<1>9. CASE Publish(c)
  BY <1>9, PublishTypes
<1>10. QED
  BY <1>1, <1>2, <1>3, <1>4, <1>5, <1>6, <1>7, <1>8, <1>9 DEF HostStep

(* A call that returns is well typed.                                      *)
LEMMA ReturnTypes ==
  ASSUME TypeOK, Return, heard' \in [Cells -> Summary \cup {NoSummary}]
  PROVE  CallerTypes'
BY DEF Return, CallerTypes, CallerPc

(* Dropping a publication keeps the types.                                 *)
LEMMA DropTypes ==
  ASSUME TypeOK, NEW c, Drop(c)
  PROVE  pub' \in [Cells -> Summary \cup {NoSummary}]
BY DEF TypeOK, CellTypes, Drop

(* Hearing a summary keeps the types.                                      *)
LEMMA HearTypes ==
  ASSUME TypeOK, NEW c \in Cells, NEW s \in Summary \cup {NoSummary}, Hear(c, s)
  PROVE  heard' \in [Cells -> Summary \cup {NoSummary}]
BY DEF TypeOK, CallerTypes, Hear

(* Taking a reply keeps the types.                                         *)
LEMMA ReplyReset ==
  ASSUME TypeOK, NEW c \in Cells, reply' = [reply EXCEPT ![c] = NoSummary],
         UNCHANGED hostVars
  PROVE  HostTypes'
<1>1. reply' \in [Cells -> Summary \cup {NoSummary, HostError}]
  BY DEF TypeOK, HostTypes
<1>2. QED
  BY <1>1 DEF TypeOK, HostTypes, hostVars

(* The step a call takes next, with the cell it is about.                  *)
LEMMA CallerGoto ==
  ASSUME TypeOK, pc' \in CallerPc, mine' \in Cells \cup {NoCell},
         pc' \in {"awaiting", "stopping", "watching", "reading"} => mine' \in Cells,
         moved' \in BOOLEAN, prefer' \in BOOLEAN, UNCHANGED heard
  PROVE  CallerTypes'
BY DEF TypeOK, CallerTypes

(* A new cell is well typed.                                               *)
LEMMA ExecTypes ==
  ASSUME TypeOK, Exec
  PROVE  TypeOK'
<1>1. nextCell \in Cells /\ nextCell + 1 \in 1..(MaxCells + 1)
  BY ConstantsAssumption DEF Exec, Cells
<1>2. SessionTypes'
  BY <1>1 DEF TypeOK, SessionTypes, Exec
<1>3. CellTypes'
  <2>1. phase' \in [Cells -> CellPhase]
    BY <1>1 DEF TypeOK, CellTypes, Exec, CellPhase
  <2>2. base' \in [Cells -> SUBSET Cells]
    BY <1>1 DEF TypeOK, CellTypes, SessionTypes, Exec
  <2>3. pub' \in [Cells -> Summary \cup {NoSummary}]
    BY DropTypes DEF Exec
  <2>4. QED
    BY <2>1, <2>2, <2>3 DEF TypeOK, CellTypes, Exec
<1>4. WorkerTypes'
  BY <1>1 DEF TypeOK, WorkerTypes, Exec
<1>5. HostTypes'
  <2>1. host' \in [Cells -> HostPc]
    BY <1>1 DEF TypeOK, HostTypes, Exec, HostPc
  <2>2. QED
    BY <2>1 DEF TypeOK, HostTypes, Exec
<1>6. CallerTypes'
  BY <1>1 DEF TypeOK, CallerTypes, Exec, CallerPc
<1>7. QED
  BY <1>2, <1>3, <1>4, <1>5, <1>6 DEF TypeOK

(* Reading a summary keeps the types.                                      *)
LEMMA ReadTypes ==
  ASSUME TypeOK, Read
  PROVE  TypeOK'
<1>1. mine \in Cells /\ pub \in [Cells -> Summary \cup {NoSummary}]
  BY DEF TypeOK, CellTypes, CallerTypes, Read
<1>2. pub' \in [Cells -> Summary \cup {NoSummary}]
  BY <1>1, DropTypes DEF Read
<1>3. CellTypes'
  BY <1>2 DEF TypeOK, CellTypes, Read
<1>4. heard' \in [Cells -> Summary \cup {NoSummary}]
  <2>1. CASE active = mine
    BY <1>1, <2>1, SummaryTypes, HearTypes DEF Read
  <2>2. CASE active # mine
    BY <2>2 DEF TypeOK, CallerTypes, Read
  <2>3. QED
    BY <2>1, <2>2
<1>5. CallerTypes'
  BY <1>4, ReturnTypes DEF Read
<1>6. SessionTypes'
  BY DEF TypeOK, SessionTypes, Read
<1>7. WorkerTypes' /\ HostTypes'
  BY Kept DEF Read
<1>8. QED
  BY <1>3, <1>5, <1>6, <1>7 DEF TypeOK

(* Every step of a pending call keeps the types.                           *)
LEMMA CallTypeInv ==
  ASSUME TypeOK, CallStep
  PROVE  TypeOK'
<1>1. CASE ExecReply
  <2>1. /\ mine \in Cells
        /\ reply[mine] \in Summary \cup {NoSummary, HostError}
    BY <1>1 DEF TypeOK, HostTypes, CallerTypes, ExecReply
  <2>2. heard' \in [Cells -> Summary \cup {NoSummary}]
    <3>1. CASE reply[mine] = HostError
      BY <1>1, <3>1 DEF TypeOK, CallerTypes, ExecReply
    <3>2. CASE reply[mine] # HostError
      BY <1>1, <2>1, <3>2, HearTypes DEF ExecReply
    <3>3. QED
      BY <3>1, <3>2
  <2>3. CallerTypes'
    BY <1>1, <2>2, ReturnTypes DEF ExecReply
  <2>4. HostTypes'
    BY <1>1, <2>1, ReplyReset DEF ExecReply
  <2>5. QED
    BY <1>1, <2>3, <2>4, Kept DEF TypeOK, ExecReply
<1>2. CASE Abort
  <2>1. pub' \in [Cells -> Summary \cup {NoSummary}]
    BY <1>2, DropTypes DEF TypeOK, CellTypes, Abort
  <2>2. CellTypes'
    BY <1>2, <2>1 DEF TypeOK, CellTypes, Abort
  <2>3. SessionTypes'
    BY <1>2 DEF TypeOK, SessionTypes, Abort
  <2>4. CallerTypes'
    BY <1>2 DEF TypeOK, CallerTypes, SessionTypes, Abort, Return, CallerPc
  <2>5. QED
    BY <1>2, <2>2, <2>3, <2>4, Kept DEF TypeOK, Abort
<1>3. CASE Stop
  <2>1. cancel' \in [Cells -> BOOLEAN]
    BY <1>3 DEF TypeOK, CellTypes, Stop
  <2>2. CellTypes'
    BY <1>3, <2>1 DEF TypeOK, CellTypes, cellVars, Stop
  <2>3. CallerTypes'
    BY <1>3, ReturnTypes DEF TypeOK, CallerTypes, Stop
  <2>4. QED
    BY <1>3, <2>2, <2>3, Kept DEF TypeOK, Stop
<1>4. CASE WaitWake
  <2>1. CallerTypes'
    BY <1>4, CallerGoto DEF TypeOK, CallerTypes, WaitWake, CallerPc
  <2>2. QED
    BY <1>4, <2>1, Kept DEF TypeOK, WaitWake
<1>5. CASE Read
  BY <1>5, ReadTypes
<1>6. QED
  BY <1>1, <1>2, <1>3, <1>4, <1>5 DEF CallStep

(* Every step of the caller keeps the types.                               *)
LEMMA CallerTypeInv ==
  ASSUME TypeOK, CallerStep
  PROVE  TypeOK'
<1>1. CASE Exec
  BY <1>1, ExecTypes
<1>2. CASE ExecGiveUp
  <2>1. mine \in Cells
    BY <1>2 DEF TypeOK, CallerTypes, ExecGiveUp
  <2>2. CallerTypes'
    BY <1>2, <2>1, CallerGoto DEF TypeOK, CallerTypes, ExecGiveUp, CallerPc
  <2>3. HostTypes'
    BY <1>2, <2>1, ReplyReset DEF ExecGiveUp
  <2>4. QED
    BY <1>2, <2>2, <2>3, Kept DEF TypeOK, ExecGiveUp
<1>3. CASE CancelIdle
  <2>1. CallerTypes'
    BY <1>3, CallerGoto DEF TypeOK, CallerTypes, CancelIdle, CallerPc
  <2>2. QED
    BY <1>3, <2>1, Kept DEF TypeOK, CancelIdle
<1>4. CASE WaitEnded
  <2>1. active \in Cells
    BY <1>4 DEF TypeOK, SessionTypes, WaitEnded
  <2>2. CellTypes'
    BY <1>4, DropTypes DEF TypeOK, CellTypes, WaitEnded
  <2>3. heard' \in [Cells -> Summary \cup {NoSummary}]
    BY <1>4, <2>1, SummaryTypes, HearTypes DEF WaitEnded
  <2>4. CallerTypes'
    BY <1>4, <2>3 DEF TypeOK, CallerTypes, callerVars, WaitEnded
  <2>5. SessionTypes'
    BY <1>4 DEF TypeOK, SessionTypes, WaitEnded
  <2>6. QED
    BY <1>4, <2>2, <2>4, <2>5, Kept DEF TypeOK, WaitEnded
<1>5. CASE Wait
  <2>1. CallerTypes'
    BY <1>5, CallerGoto DEF TypeOK, SessionTypes, CallerTypes, Wait, CallerPc
  <2>2. QED
    BY <1>5, <2>1, Kept DEF TypeOK, Wait
<1>6. CASE WaitTimeout
  <2>1. CallerTypes'
    BY <1>6, CallerGoto DEF TypeOK, CallerTypes, WaitTimeout, CallerPc
  <2>2. QED
    BY <1>6, <2>1, Kept DEF TypeOK, WaitTimeout
<1>7. CASE WaitInterrupt
  <2>1. CallerTypes'
    BY <1>7, ReturnTypes DEF TypeOK, CallerTypes, WaitInterrupt
  <2>2. QED
    BY <1>7, <2>1, Kept DEF TypeOK, WaitInterrupt
<1>8. QED
  BY <1>1, <1>2, <1>3, <1>4, <1>5, <1>6, <1>7 DEF CallerStep

(* Every step keeps the types.                                             *)
LEMMA NextTypeInv == TypeOK /\ [Next]_vars => TypeOK'
<1> SUFFICES ASSUME TypeOK, [Next]_vars PROVE TypeOK'
  OBVIOUS
<1>1. ASSUME NEW c \in Cells, Deadline(c) PROVE TypeOK'
  <2>1. late' \in [Cells -> BOOLEAN]
    BY <1>1 DEF TypeOK, CellTypes, Deadline
  <2>2. CellTypes'
    BY <1>1, <2>1 DEF TypeOK, CellTypes, cellVars, Deadline
  <2>3. QED
    BY <1>1, <2>2, Kept DEF TypeOK, Deadline
<1>2. CASE UNCHANGED vars
  BY <1>2, Kept DEF vars, TypeOK
<1>3. QED
  BY <1>1, <1>2, WorkerTypeInv, HostTypeInv, CallTypeInv, CallerTypeInv DEF Next

(* Every reachable state of code mode is well typed; in particular a call  *)
(* that waits, reads or stops works on a cell.                             *)
THEOREM TypeCorrect == Spec => []TypeOK
<1>1. QED
  BY InitTypes, NextTypeInv, PTL DEF Spec

-----------------------------------------------------------------------------
(* The inductive invariant.                                                *)

(* A cell that exec has not started has no host, worker or events.         *)
CellsStart ==
  \A c \in Cells :
    /\ nextCell <= c => phase[c] = "Absent"
    /\ phase[c] = "Absent" => /\ host[c] = "absent" /\ worker[c] = "absent"
                              /\ chan[c] = <<>> /\ cue[c] = "none"

(* The end of a cell is the last thing its host records: from then on the  *)
(* host is about to publish it and exit, or gone.                          *)
EndIsLast ==
  \A c \in Cells :
    /\ host[c] = "record" => cue[c] \in {"flush", "timer", "tool"} \cup Lives
    /\ Ended(c) => host[c] \in {"publish", "exited"}
    /\ Ended(c) /\ host[c] = "publish" => Last(c)

(* The result of a worker, wherever it has got to, comes from one that has *)
(* ended, and what the deadline cancels has been told so.                  *)
ResultsAreReal ==
  \A c \in Cells :
    /\ \A i \in DOMAIN chan[c] : chan[c][i].kind \in Results => worker[c] = "ended"
    /\ cue[c] \in Results => worker[c] = "ended"
    /\ host[c] = "fail" => worker[c] = "ended"
    /\ host[c] = "expire" \/ cue[c] = "deadline" => cancel[c]
    /\ Ended(c) => worker[c] = "ended" \/ cancel[c]

Stoppable(c) == worker[c] = "ended" \/ cancel[c] \/ (pc = "stopping" /\ mine = c)

(* A cell that has left its session, or whose host is gone, does not run   *)
(* on unnoticed.                                                           *)
StrayWorkersStop ==
  \A c \in Cells :
    (phase[c] # "Absent" /\ active # c) \/ host[c] = "exited" => Stoppable(c)

(* The copy of the stored values that the active cell started from is      *)
(* still the session's, but for what the cell itself has stored.           *)
CopyUpToDate == active \in Cells => stored \subseteq base[active] \cup {active}

CodeInv == /\ TypeOK /\ CellsStart /\ EndIsLast /\ ResultsAreReal
           /\ StrayWorkersStop /\ CopyUpToDate /\ SummariesHonest

(* The invariant holds at first.                                           *)
LEMMA InitInv == Init => CodeInv
<1> SUFFICES ASSUME Init PROVE CodeInv
  OBVIOUS
<1> USE DEF Init
<1>1. CellsStart
  BY DEF CellsStart
<1>2. EndIsLast /\ ResultsAreReal /\ StrayWorkersStop
  BY DEF EndIsLast, ResultsAreReal, StrayWorkersStop, Ended, Lives, Results, Cells
<1>3. CopyUpToDate
  BY DEF CopyUpToDate
<1>4. SummariesHonest
  <2> SUFFICES ASSUME NEW c \in Cells
               PROVE  \A s \in {pub[c], note[c], reply[c], heard[c]} : s = NoSummary
    BY DEF SummariesHonest, NoSummary, Lives
  <2>1. QED
    OBVIOUS
<1>5. QED
  BY <1>1, <1>2, <1>3, <1>4, InitTypes DEF CodeInv

(* Any step that leaves the cells alone but for their text and their       *)
(* nested calls keeps the invariant.                                       *)
CellCore == <<active, nextCell, stored, phase, shown, pub, cancel, base, worker,
              host, cue, note, reply, pc, mine, heard>>

(* Such a step keeps what is said of cells, hosts and summaries.           *)
LEMMA CoreKept ==
  ASSUME CodeInv, UNCHANGED CellCore
  PROVE  /\ EndIsLast' /\ StrayWorkersStop' /\ CopyUpToDate' /\ SummariesHonest'
         /\ UNCHANGED chan => CellsStart' /\ ResultsAreReal'
<1> USE DEF CodeInv, CellCore
<1>1. EndIsLast'
  BY DEF EndIsLast, Ended, Last
<1>2. StrayWorkersStop'
  BY DEF StrayWorkersStop, Stoppable
<1>3. CopyUpToDate' /\ SummariesHonest'
  BY DEF CopyUpToDate, SummariesHonest
<1>4. UNCHANGED chan => CellsStart' /\ ResultsAreReal'
  BY DEF CellsStart, ResultsAreReal, Ended
<1>5. QED
  BY <1>1, <1>2, <1>3, <1>4

(* Events that are no results may be sent by a worker that runs.           *)
LEMMA SendKeeps ==
  ASSUME CodeInv, UNCHANGED CellCore, NEW c \in Cells, worker[c] # "absent",
         NEW events \in Seq(Event), Send(c, events),
         \A i \in DOMAIN events : events[i].kind \notin Results
  PROVE  CellsStart' /\ ResultsAreReal'
<1>1. CellsStart'
  BY DEF CodeInv, CellsStart, CellCore, Send
<1>2. ResultsAreReal'
  <2> SUFFICES ASSUME NEW d \in Cells, NEW i \in DOMAIN chan'[d],
                      chan'[d][i].kind \in Results
               PROVE  worker[d] = "ended"
    BY DEF CodeInv, ResultsAreReal, CellCore, Ended
  <2>1. chan \in [Cells -> Seq(Event)] /\ chan[c] \in Seq(Event)
    BY DEF CodeInv, TypeOK, WorkerTypes
  <2>2. CASE d # c
    BY <2>1, <2>2 DEF CodeInv, ResultsAreReal, Send
  <2>3. CASE d = c
    <3>1. chan'[c] = chan[c] \o events
      BY <2>1 DEF Send
    <3>2. CASE i \in DOMAIN chan[c]
      <4>1. chan'[c][i] = chan[c][i]
        BY <2>1, <3>1, <3>2
      <4>2. QED
        BY <2>3, <3>2, <4>1 DEF CodeInv, ResultsAreReal
    <3>3. CASE i \notin DOMAIN chan[c]
      <4>1. i - Len(chan[c]) \in DOMAIN events
            /\ chan'[c][i] = events[i - Len(chan[c])]
        BY <2>1, <2>3, <3>1, <3>3
      <4>2. QED
        BY <2>3, <4>1
    <3>4. QED
      BY <3>2, <3>3
  <2>4. QED
    BY <2>2, <2>3
<1>3. QED
  BY <1>1, <1>2

(* Every step of a worker keeps the invariant.                             *)
LEMMA WorkerInv ==
  ASSUME CodeInv, NEW c \in Cells, WorkerStep(c)
  PROVE  CellsStart' /\ EndIsLast' /\ ResultsAreReal' /\ StrayWorkersStop'
         /\ CopyUpToDate' /\ SummariesHonest'
<1>0. \A kind \in Marks : Mark(kind).kind \notin Results /\ Mark(kind) \in Event
  BY DEF Mark, Marks, Results, Lives, Event
<1>1. CASE EmitText(c)
  <2> DEFINE events == <<[kind |-> "text", seq |-> emitted[c] + 1]>>
  <2>1. [kind |-> "text", seq |-> emitted[c] + 1] \in Event
    BY DEF CodeInv, TypeOK, WorkerTypes, Event
  <2>2. /\ events \in Seq(Event)
        /\ \A i \in DOMAIN events : events[i].kind \notin Results
    BY <2>1 DEF Results, Lives
  <2>3. /\ UNCHANGED CellCore /\ Send(c, events) /\ worker[c] # "absent"
    BY <1>1 DEF EmitText, Running, CellCore, session, cellVars, hostVars, callerVars
  <2>4. QED
    BY <2>2, <2>3, SendKeeps, CoreKept
<1>2. CASE EmitMark(c)
  <2>1. PICK kind \in {"flush", "timer"} \cap Moves : Send(c, <<Mark(kind)>>)
    BY <1>2 DEF EmitMark
  <2> DEFINE events == <<Mark(kind)>>
  <2>2. /\ events \in Seq(Event)
        /\ \A i \in DOMAIN events : events[i].kind \notin Results
    BY <1>0 DEF Marks
  <2>3. /\ UNCHANGED CellCore /\ worker[c] # "absent"
    BY <1>2 DEF EmitMark, Running, CellCore, session, cellVars, hostVars, callerVars
  <2>4. QED
    BY <2>1, <2>2, <2>3, SendKeeps, CoreKept
<1>3. CASE StartTool(c)
  <2>1. PICK events \in {<<Mark("tool")>>, <<Mark("tool"), Mark("done")>>} :
          Send(c, events)
    BY <1>3 DEF StartTool
  <2>2. /\ Mark("tool") \in Event /\ Mark("tool").kind \notin Results
        /\ Mark("done") \in Event /\ Mark("done").kind \notin Results
    BY <1>0 DEF Marks
  <2>3. /\ events \in Seq(Event)
        /\ \A i \in DOMAIN events : events[i].kind \notin Results
    <3>1. CASE events = <<Mark("tool")>>
      BY <2>2, <3>1
    <3>2. CASE events = <<Mark("tool"), Mark("done")>>
      BY <2>2, <3>2
    <3>3. QED
      BY <2>1, <3>1, <3>2
  <2>4. /\ UNCHANGED CellCore /\ worker[c] # "absent"
    BY <1>3 DEF StartTool, Running, CellCore, session, cellVars, hostVars, callerVars
  <2>5. QED
    BY <2>1, <2>3, <2>4, SendKeeps, CoreKept
<1>4. CASE EndTool(c)
  <2> DEFINE events == <<Mark("done")>>
  <2>1. /\ events \in Seq(Event)
        /\ \A i \in DOMAIN events : events[i].kind \notin Results
    BY <1>0 DEF Marks
  <2>2. /\ UNCHANGED CellCore /\ Send(c, events) /\ worker[c] # "absent"
    BY <1>4 DEF EndTool, Running, CellCore, session, cellVars, hostVars, callerVars
  <2>3. QED
    BY <2>1, <2>2, SendKeeps, CoreKept
<1>5. CASE Flood(c) \/ Complete(c)
  <2>1. /\ UNCHANGED <<active, nextCell, stored, phase, shown, pub, cancel, base,
                       host, cue, note, reply, pc, mine, heard>>
        /\ worker[c] \in {"running", "flooding"}
        /\ \/ worker' = [worker EXCEPT ![c] = "flooding"] /\ UNCHANGED chan
           \/ worker' = [worker EXCEPT ![c] = "ended"]
    BY <1>5 DEF Flood, Complete, Running, session, cellVars, hostVars, callerVars
  <2>2. \A d \in Cells : d # c => worker'[d] = worker[d] /\ chan'[d] = chan[d]
    <3>1. worker \in [Cells -> {"absent", "running", "flooding", "ended"}]
      BY DEF CodeInv, TypeOK, WorkerTypes
    <3>2. chan \in [Cells -> Seq(Event)]
      BY DEF CodeInv, TypeOK, WorkerTypes
    <3>3. UNCHANGED chan \/ \E r : Send(c, <<Mark(r)>>)
      BY <1>5 DEF Flood, Complete
    <3>4. \A d \in Cells : d # c => chan'[d] = chan[d]
      BY <3>2, <3>3 DEF Send
    <3>5. QED
      BY <2>1, <3>1, <3>4
  <2>3. worker'[c] \in {"flooding", "ended"}
    BY <2>1 DEF CodeInv, TypeOK, WorkerTypes
  <2>4. CellsStart' /\ EndIsLast' /\ CopyUpToDate' /\ SummariesHonest'
    BY <2>1, <2>2 DEF CodeInv, CellsStart, EndIsLast, CopyUpToDate,
       SummariesHonest, Ended, Last
  <2>5. ResultsAreReal'
    <3> SUFFICES ASSUME NEW d \in Cells
        PROVE /\ \A i \in DOMAIN chan'[d] :
                    chan'[d][i].kind \in Results => worker'[d] = "ended"
              /\ cue[d] \in Results => worker'[d] = "ended"
              /\ host[d] = "fail" => worker'[d] = "ended"
              /\ Ended(d) => worker'[d] = "ended" \/ cancel[d]
      BY <2>1 DEF CodeInv, ResultsAreReal, Ended
    <3>1. CASE d # c
      BY <2>2, <3>1 DEF CodeInv, ResultsAreReal
    <3>2. CASE d = c /\ worker'[c] = "ended"
      BY <3>2
    <3>3. CASE d = c /\ worker'[c] = "flooding"
      <4>1. UNCHANGED chan
        BY <2>1, <3>3 DEF CodeInv, TypeOK, WorkerTypes
      <4>2. worker[c] # "ended"
        BY <2>1
      <4>3. QED
        BY <3>3, <4>1, <4>2 DEF CodeInv, ResultsAreReal
    <3>4. QED
      BY <2>3, <3>1, <3>2, <3>3
  <2>6. StrayWorkersStop'
    BY <2>1, <2>2, <2>3 DEF CodeInv, StrayWorkersStop, Stoppable
  <2>7. QED
    BY <2>4, <2>5, <2>6
<1>6. QED
  BY <1>1, <1>2, <1>3, <1>4, <1>5 DEF WorkerStep

(* A host's step concerns its own cell.                                    *)
OnlyCell(c) ==
  /\ UNCHANGED <<active, nextCell, base, worker, pc, mine, heard>>
  /\ \A d \in Cells : d # c =>
       /\ phase'[d] = phase[d] /\ shown'[d] = shown[d] /\ pub'[d] = pub[d]
       /\ cancel'[d] = cancel[d] /\ chan'[d] = chan[d] /\ host'[d] = host[d]
       /\ cue'[d] = cue[d] /\ note'[d] = note[d] /\ reply'[d] = reply[d]
  /\ cancel[c] => cancel'[c]
  /\ host[c] # "absent"

(* What a host's step may do: the loop ends ...                            *)
Leaves(c) ==
  /\ OnlyCell(c)
  /\ phase'[c] = phase[c] /\ shown'[c] = shown[c] /\ stored' = stored
  /\ host'[c] = "exited" /\ cue'[c] = "none" /\ chan'[c] = <<>>
  /\ note'[c] = NoSummary /\ pub'[c] \in {pub[c], note[c]}
  /\ reply'[c] \in {reply[c], note[c], HostError}
  /\ active = c => cue[c] \in Results \cup {"deadline"}

(* ... or something has been recorded that is to be published ...          *)
Announces(c) ==
  /\ OnlyCell(c)
  /\ active = c /\ host[c] \in {"idle", "record", "expire", "fail"}
  /\ host'[c] = "publish" /\ chan'[c] = chan[c]
  /\ pub'[c] = pub[c] /\ reply'[c] = reply[c]
  /\ Len(shown[c]) <= Len(shown'[c])
  /\ note'[c] = [life |-> Lifecycle(phase'[c]), upto |-> Len(shown'[c])]
  /\ phase'[c] \in {"Running", "WaitingOnTool", "WaitingOnTimer"} \cup Lives
  /\ phase'[c] \in Lives => cue'[c] \in Results \cup {"deadline"}
  /\ cue'[c] \in Results => worker[c] = "ended"
  /\ cue'[c] = "deadline" => cancel[c]
  /\ stored' = stored \/ stored' = base[c] \cup {c}

(* ... or the loop goes on.                                                *)
GoesOn(c) ==
  /\ OnlyCell(c)
  /\ phase[c] \notin Lives /\ phase'[c] \notin Lives \cup {"Absent"}
  /\ Len(shown[c]) <= Len(shown'[c]) /\ stored' = stored
  /\ note'[c] \in {note[c], NoSummary} /\ pub'[c] \in {pub[c], note[c]}
  /\ reply'[c] \in {reply[c], note[c]}
  /\ host'[c] \notin {"publish", "exited"}
  /\ host'[c] = "record" => cue'[c] \in {"flush", "timer", "tool"} \cup Lives
  /\ host'[c] = "fail" \/ cue'[c] \in Results => worker[c] = "ended"
  /\ host'[c] = "expire" \/ cue'[c] = "deadline" => cancel'[c]
  /\ \A i \in DOMAIN chan'[c] : \E k \in DOMAIN chan[c] : chan'[c][i] = chan[c][k]

(* No end of a cell is also one of its other phases or cues.               *)
LEMMA NoPhaseMix ==
  /\ "Absent" \notin Lives /\ "Running" \notin Lives
  /\ "WaitingOnTool" \notin Lives /\ "WaitingOnTimer" \notin Lives
  /\ "none" \notin Results /\ "none" \notin Lives /\ "deadline" \notin Results
  /\ "error" \notin Lives /\ "idle" \notin Results /\ "none" # "deadline"
BY DEF Lives, Results

(* The end of a host keeps the invariant.                                  *)
LEMMA LeaveInv ==
  ASSUME CodeInv, NEW c \in Cells, Leaves(c)
  PROVE  CellsStart' /\ EndIsLast' /\ ResultsAreReal' /\ StrayWorkersStop'
         /\ CopyUpToDate' /\ SummariesHonest'
<1> USE NoPhaseMix DEF CodeInv, Leaves, OnlyCell
<1>1. CellsStart'
  <2> SUFFICES ASSUME NEW d \in Cells
      PROVE /\ nextCell <= d => phase'[d] = "Absent"
            /\ phase'[d] = "Absent" => /\ host'[d] = "absent" /\ worker[d] = "absent"
                                       /\ chan'[d] = <<>> /\ cue'[d] = "none"
    BY DEF CellsStart
  <2>1. QED
    BY DEF CellsStart
<1>2. EndIsLast'
  BY DEF EndIsLast, Ended, Last
<1>3. ResultsAreReal'
  <2>1. ASSUME NEW d \in Cells
        PROVE  /\ \A i \in DOMAIN chan'[d] :
                    chan'[d][i].kind \in Results => worker[d] = "ended"
               /\ cue'[d] \in Results => worker[d] = "ended"
               /\ host'[d] = "fail" => worker[d] = "ended"
               /\ host'[d] = "expire" \/ cue'[d] = "deadline" => cancel'[d]
               /\ phase'[d] \in Lives => worker[d] = "ended" \/ cancel'[d]
    BY DEF ResultsAreReal, Ended
  <2>2. QED
    BY <2>1 DEF ResultsAreReal, Ended
<1>4. StrayWorkersStop'
  <2>1. worker[c] = "ended" \/ cancel'[c] \/ (pc = "stopping" /\ mine = c)
    BY DEF ResultsAreReal, StrayWorkersStop, Stoppable, CellsStart
  <2>2. QED
    BY <2>1 DEF StrayWorkersStop, Stoppable
<1>5. CopyUpToDate'
  BY DEF CopyUpToDate
<1>6. SummariesHonest'
  <2> SUFFICES ASSUME NEW d \in Cells,
                      NEW s \in {pub'[d], note'[d], reply'[d], heard'[d]}
               PROVE  /\ s.upto <= Len(shown'[d])
                      /\ s.life \in Lives => s.life = phase'[d]
    BY DEF SummariesHonest
  <2>1. CASE s = NoSummary \/ s = HostError
    <3>1. Len(shown'[d]) \in Nat
      BY DEF TypeOK, CellTypes
    <3>2. QED
      BY <2>1, <3>1 DEF NoSummary, HostError
  <2>2. CASE s \in {pub[d], note[d], reply[d], heard[d]}
    BY <2>2 DEF SummariesHonest
  <2>3. QED
    BY <2>1, <2>2
<1>7. QED
  BY <1>1, <1>2, <1>3, <1>4, <1>5, <1>6

(* So does an announcement.                                                *)
LEMMA AnnounceInv ==
  ASSUME CodeInv, TypeOK', NEW c \in Cells, Announces(c)
  PROVE  CellsStart' /\ EndIsLast' /\ ResultsAreReal' /\ StrayWorkersStop'
         /\ CopyUpToDate' /\ SummariesHonest'
<1> USE NoPhaseMix DEF CodeInv, Announces, OnlyCell
<1>0. phase[c] \notin Lives /\ phase[c] # "Absent"
  BY DEF EndIsLast, CellsStart, Ended
<1>1. CellsStart'
  <2> SUFFICES ASSUME NEW d \in Cells
      PROVE /\ nextCell <= d => phase'[d] = "Absent"
            /\ phase'[d] = "Absent" => /\ host'[d] = "absent" /\ worker[d] = "absent"
                                       /\ chan'[d] = <<>> /\ cue'[d] = "none"
    BY DEF CellsStart
  <2>1. QED
    BY <1>0 DEF CellsStart
<1>2. EndIsLast'
  BY DEF EndIsLast, Ended, Last
<1>3. ResultsAreReal'
  <2>1. ASSUME NEW d \in Cells
        PROVE  /\ \A i \in DOMAIN chan'[d] :
                    chan'[d][i].kind \in Results => worker[d] = "ended"
               /\ cue'[d] \in Results => worker[d] = "ended"
               /\ host'[d] = "fail" => worker[d] = "ended"
               /\ host'[d] = "expire" \/ cue'[d] = "deadline" => cancel'[d]
               /\ phase'[d] \in Lives => worker[d] = "ended" \/ cancel'[d]
    BY DEF ResultsAreReal, Ended
  <2>2. QED
    BY <2>1 DEF ResultsAreReal, Ended
<1>4. StrayWorkersStop'
  BY DEF StrayWorkersStop, Stoppable
<1>5. CopyUpToDate'
  BY DEF CopyUpToDate
<1>6. SummariesHonest'
  <2> SUFFICES ASSUME NEW d \in Cells,
                      NEW s \in {pub'[d], note'[d], reply'[d], heard'[d]}
               PROVE  /\ s.upto <= Len(shown'[d])
                      /\ s.life \in Lives => s.life = phase'[d]
    BY DEF SummariesHonest
  <2>1. CASE d = c /\ s = note'[c]
    <3>1. Len(shown'[c]) \in Nat
      BY DEF TypeOK, CellTypes
    <3>2. QED
      BY <2>1, <3>1 DEF Lifecycle
  <2>2. CASE s \in {pub[d], note[d], reply[d], heard[d]} /\ d # c
    BY <2>2 DEF SummariesHonest
  <2>3. CASE d = c /\ s \in {pub[c], reply[c], heard[c]}
    <3>1. s.upto <= Len(shown[c]) /\ s.life \notin Lives
      BY <1>0, <2>3 DEF SummariesHonest
    <3>2. s \in Summary \cup {NoSummary, HostError}
      BY <2>3 DEF TypeOK, CellTypes, HostTypes, CallerTypes
    <3>3. s.upto \in Nat
      BY <3>2 DEF Summary, NoSummary, HostError
    <3>4. Len(shown[c]) \in Nat /\ Len(shown'[c]) \in Nat
      BY DEF TypeOK, CellTypes
    <3>5. QED
      BY <2>3, <3>1, <3>3, <3>4
  <2>4. QED
    BY <2>1, <2>2, <2>3
<1>7. QED
  BY <1>1, <1>2, <1>3, <1>4, <1>5, <1>6

(* So does a loop that goes on.                                            *)
LEMMA GoesOnInv ==
  ASSUME CodeInv, TypeOK', NEW c \in Cells, GoesOn(c)
  PROVE  CellsStart' /\ EndIsLast' /\ ResultsAreReal' /\ StrayWorkersStop'
         /\ CopyUpToDate' /\ SummariesHonest'
<1> USE NoPhaseMix DEF CodeInv, GoesOn, OnlyCell
<1>0. phase[c] # "Absent"
  BY DEF CellsStart
<1>1. CellsStart'
  <2> SUFFICES ASSUME NEW d \in Cells
      PROVE /\ nextCell <= d => phase'[d] = "Absent"
            /\ phase'[d] = "Absent" => /\ host'[d] = "absent" /\ worker[d] = "absent"
                                       /\ chan'[d] = <<>> /\ cue'[d] = "none"
    BY DEF CellsStart
  <2>1. QED
    BY <1>0 DEF CellsStart
<1>2. EndIsLast'
  BY DEF EndIsLast, Ended, Last
<1>3. ResultsAreReal'
  <2>1. ASSUME NEW d \in Cells
        PROVE  /\ \A i \in DOMAIN chan'[d] :
                    chan'[d][i].kind \in Results => worker[d] = "ended"
               /\ cue'[d] \in Results => worker[d] = "ended"
               /\ host'[d] = "fail" => worker[d] = "ended"
               /\ host'[d] = "expire" \/ cue'[d] = "deadline" => cancel'[d]
               /\ phase'[d] \in Lives => worker[d] = "ended" \/ cancel'[d]
    <3>1. CASE d = c
      BY <3>1 DEF ResultsAreReal, Ended
    <3>2. CASE d # c
      BY <3>2 DEF ResultsAreReal, Ended
    <3>3. QED
      BY <3>1, <3>2
  <2>2. QED
    BY <2>1 DEF ResultsAreReal, Ended
<1>4. StrayWorkersStop'
  BY <1>0 DEF StrayWorkersStop, Stoppable
<1>5. CopyUpToDate'
  BY DEF CopyUpToDate
<1>6. SummariesHonest'
  <2> SUFFICES ASSUME NEW d \in Cells,
                      NEW s \in {pub'[d], note'[d], reply'[d], heard'[d]}
               PROVE  /\ s.upto <= Len(shown'[d])
                      /\ s.life \in Lives => s.life = phase'[d]
    BY DEF SummariesHonest
  <2>1. CASE s = NoSummary
    <3>1. Len(shown'[d]) \in Nat
      BY DEF TypeOK, CellTypes
    <3>2. QED
      BY <2>1, <3>1 DEF NoSummary
  <2>2. CASE s \in {pub[d], note[d], reply[d], heard[d]} /\ d # c
    BY <2>2 DEF SummariesHonest
  <2>3. CASE d = c /\ s \in {pub[c], note[c], reply[c], heard[c]}
    <3>1. s.upto <= Len(shown[c]) /\ s.life \notin Lives
      BY <2>3 DEF SummariesHonest
    <3>2. s \in Summary \cup {NoSummary, HostError}
      BY <2>3 DEF TypeOK, CellTypes, HostTypes, CallerTypes
    <3>3. s.upto \in Nat
      BY <3>2 DEF Summary, NoSummary, HostError
    <3>4. Len(shown[c]) \in Nat /\ Len(shown'[c]) \in Nat
      BY DEF TypeOK, CellTypes
    <3>5. QED
      BY <2>3, <3>1, <3>3, <3>4
  <2>4. QED
    BY <2>1, <2>2, <2>3
<1>7. QED
  BY <1>1, <1>2, <1>3, <1>4, <1>5, <1>6

(* The functions a host's step updates are functions on the cells.         *)
LEMMA CellFunctions ==
  ASSUME TypeOK
  PROVE  /\ DOMAIN phase = Cells /\ DOMAIN shown = Cells /\ DOMAIN pub = Cells
         /\ DOMAIN cancel = Cells /\ DOMAIN chan = Cells /\ DOMAIN host = Cells
         /\ DOMAIN cue = Cells /\ DOMAIN note = Cells /\ DOMAIN reply = Cells
         /\ DOMAIN batch = Cells
         /\ \A c \in Cells : /\ Len(shown[c]) \in Nat /\ shown[c] \in Seq(Nat)
                             /\ chan[c] \in Seq(Event) /\ batch[c] \in Seq(Nat)
<1>1. /\ phase \in [Cells -> CellPhase] /\ shown \in [Cells -> Seq(Nat)]
      /\ pub \in [Cells -> Summary \cup {NoSummary}]
      /\ cancel \in [Cells -> BOOLEAN] /\ chan \in [Cells -> Seq(Event)]
      /\ host \in [Cells -> HostPc] /\ cue \in [Cells -> Cues]
      /\ note \in [Cells -> Summary \cup {NoSummary}]
      /\ reply \in [Cells -> Summary \cup {NoSummary, HostError}]
      /\ batch \in [Cells -> Seq(Nat)]
  BY DEF TypeOK, CellTypes, WorkerTypes, HostTypes
<1>2. QED
  BY <1>1

(* A host whose cell is gone ends.                                         *)
LEMMA FailAndExitLeaves ==
  ASSUME CodeInv, NEW c \in Cells, FailAndExit(c), host[c] # "absent",
         UNCHANGED <<worker, pc, mine, cancel, base, heard>>
  PROVE  Leaves(c)
BY CellFunctions DEF CodeInv, FailAndExit, Holds, Answer, Exit, Goto, Forget, Leaves,
   OnlyCell, session, cellVars

(* The deadline and a host error announce an end.                          *)
LEMMA SettleEffect ==
  ASSUME CodeInv, NEW c \in Cells, host[c] \in {"expire", "fail"},
         NEW life \in Lives, NEW why \in {"deadline", "Error"},
         Settle(c, life, why),
         why = "deadline" => host[c] = "expire", why = "Error" => host[c] = "fail",
         UNCHANGED <<worker, pc, mine, cancel, base, heard>>
  PROVE  Leaves(c) \/ Announces(c)
<1>1. CASE FailAndExit(c)
  BY <1>1, FailAndExitLeaves
<1>2. CASE ~FailAndExit(c)
  <2>1. /\ active = c /\ phase' = [phase EXCEPT ![c] = life]
        /\ Announce(c, why, life, Len(shown[c]))
        /\ UNCHANGED <<session, shown, pub, chan, marks, calls, batch, fresh, reply>>
    BY <1>2 DEF Settle, Holds
  <2>2. OnlyCell(c)
    BY <2>1, CellFunctions DEF CodeInv, Announce, Goto, OnlyCell, session
  <2>3. host[c] = "fail" => worker[c] = "ended"
    BY DEF CodeInv, ResultsAreReal
  <2>4. host[c] = "expire" => cancel[c]
    BY DEF CodeInv, ResultsAreReal
  <2>5. phase'[c] = life /\ Lifecycle(phase'[c]) = life
    BY <2>1, CellFunctions DEF CodeInv, Lifecycle
  <2>6. Len(shown[c]) <= Len(shown'[c])
    BY <2>1, CellFunctions DEF CodeInv
  <2>7. Announces(c)
    BY <2>1, <2>2, <2>3, <2>4, <2>5, <2>6, CellFunctions, NoPhaseMix
    DEF CodeInv, Announce, Goto, Announces, session, Results
  <2>8. QED
    BY <2>7
<1>3. QED
  BY <1>1, <1>2

(* After an event the loop goes on.                                        *)
LEMMA ReceiveEffect ==
  ASSUME CodeInv, NEW c \in Cells, Receive(c)
  PROVE  GoesOn(c)
<1> DEFINE event == Head(chan[c])
<1>1. /\ chan[c] \in Seq(Event) /\ chan[c] # <<>> /\ host[c] = "next"
  BY CellFunctions DEF CodeInv, Receive
<1>2. /\ event = chan[c][1] /\ 1 \in DOMAIN chan[c] /\ event \in Event
  BY <1>1
<1>3. event.kind \in {"text"} \cup Marks \cup Results
  BY <1>2 DEF Event
<1>4. event.kind \in Results => worker[c] = "ended"
  BY <1>2 DEF CodeInv, ResultsAreReal
<1>5. /\ chan'[c] = Tail(chan[c])
      /\ cue'[c] = IF event.kind \in {"text", "done"} THEN cue[c] ELSE event.kind
      /\ host'[c] = CASE event.kind \in {"text", "done"} -> "next"
                      [] event.kind = "Error"           -> "fail"
                      [] OTHER                          -> "record"
  BY CellFunctions DEF CodeInv, Receive, Goto
<1>6. OnlyCell(c)
  BY CellFunctions DEF CodeInv, Receive, Goto, OnlyCell, session, cellVars, callerVars
<1>7. \A i \in DOMAIN chan'[c] : \E k \in DOMAIN chan[c] : chan'[c][i] = chan[c][k]
  <2> SUFFICES ASSUME NEW i \in DOMAIN chan'[c]
               PROVE  i + 1 \in DOMAIN chan[c] /\ chan'[c][i] = chan[c][i + 1]
    OBVIOUS
  <2>1. QED
    BY <1>1, <1>5
<1>8. /\ host'[c] \notin {"publish", "exited", "expire"}
      /\ host'[c] = "record" => cue'[c] \in {"flush", "timer", "tool"} \cup Lives
      /\ host'[c] = "fail" \/ cue'[c] \in Results => worker[c] = "ended"
      /\ cue'[c] = "deadline" => cancel'[c]
  <2>1. cue[c] \in Results => worker[c] = "ended"
    BY DEF CodeInv, ResultsAreReal
  <2>2. cue[c] = "deadline" => cancel[c]
    BY DEF CodeInv, ResultsAreReal
  <2>3. cancel'[c] = cancel[c]
    BY DEF Receive
  <2>4. QED
    BY <1>3, <1>4, <1>5, <2>1, <2>2, <2>3 DEF Marks, Results, Lives
<1>9. phase[c] \notin Lives /\ phase[c] # "Absent"
  BY <1>1 DEF CodeInv, EndIsLast, CellsStart, Ended
<1>10. UNCHANGED <<phase, shown, pub, stored, note, reply>>
  BY DEF Receive, session, cellVars
<1>11. Len(shown[c]) <= Len(shown'[c])
  BY <1>10, CellFunctions DEF CodeInv
<1>12. QED
  BY <1>6, <1>7, <1>8, <1>9, <1>10, <1>11 DEF GoesOn

(* A step that changes nothing a reader of the cell can see.               *)
LEMMA QuietStep ==
  ASSUME CodeInv, NEW c \in Cells, Poll(c) \/ Idle(c) \/ IdleContinue(c)
  PROVE  GoesOn(c)
<1>1. /\ UNCHANGED <<phase, shown, pub, stored, note, reply, cue, chan>>
      /\ OnlyCell(c)
  BY CellFunctions DEF CodeInv, Poll, Idle, IdleContinue, Goto, OnlyCell, session,
     cellVars, callerVars, workerVars
<1>2. /\ host[c] \in {"poll", "next", "idle"}
      /\ host'[c] \in {"poll", "next", "idle", "expire"}
      /\ host'[c] = "expire" => cancel'[c]
  BY CellFunctions DEF CodeInv, Poll, Idle, IdleContinue, Goto
<1>3. phase[c] \notin Lives /\ phase[c] # "Absent"
  BY <1>2 DEF CodeInv, EndIsLast, CellsStart, Ended
<1>4. /\ cue[c] \in Results => worker[c] = "ended"
      /\ cue[c] = "deadline" => cancel[c]
  BY DEF CodeInv, ResultsAreReal
<1>5. Len(shown[c]) <= Len(shown'[c])
  BY <1>1, CellFunctions DEF CodeInv
<1>6. QED
  BY <1>1, <1>2, <1>3, <1>4, <1>5 DEF GoesOn, OnlyCell

(* An idle flush is announced.                                             *)
LEMMA IdleFlushEffect ==
  ASSUME CodeInv, NEW c \in Cells, IdleFlush(c)
  PROVE  Leaves(c) \/ Announces(c)
<1>1. CASE FailAndExit(c)
  BY <1>1, FailAndExitLeaves DEF IdleFlush, callerVars
<1>2. CASE ~FailAndExit(c)
  <2>1. /\ active = c /\ host[c] = "idle"
        /\ Announce(c, "idle", Snapshot(c).life, Snapshot(c).upto)
        /\ UNCHANGED <<session, cellVars, chan, marks, calls, batch, reply>>
        /\ UNCHANGED <<worker, callerVars, cancel, base, heard>>
    BY <1>2 DEF IdleFlush, Holds
  <2>2. OnlyCell(c)
    BY <2>1, CellFunctions
    DEF CodeInv, Announce, Goto, OnlyCell, session, cellVars, callerVars
  <2>3. note'[c] = [life |-> Lifecycle(phase'[c]), upto |-> Len(shown'[c])]
    BY <2>1, CellFunctions DEF CodeInv, Announce, Snapshot, cellVars
  <2>4. phase[c] \notin Lives /\ phase[c] # "Absent" /\ phase[c] \in CellPhase
    BY <2>1 DEF CodeInv, EndIsLast, CellsStart, Ended, TypeOK, CellTypes
  <2>5. Len(shown[c]) <= Len(shown'[c])
    BY <2>1, CellFunctions DEF CodeInv, cellVars
  <2>6. Announces(c)
    BY <2>1, <2>2, <2>3, <2>4, <2>5, CellFunctions, NoPhaseMix
    DEF CodeInv, Announce, Goto, Announces, session, cellVars, CellPhase
  <2>7. QED
    BY <2>6
<1>3. QED
  BY <1>1, <1>2

(* What is recorded is announced, or the loop goes on.                     *)
LEMMA RecordEffect ==
  ASSUME CodeInv, NEW c \in Cells, Record(c)
  PROVE  Leaves(c) \/ Announces(c) \/ GoesOn(c)
<1>1. CASE FailAndExit(c)
  BY <1>1, FailAndExitLeaves DEF Record, callerVars
<1>2. CASE ~FailAndExit(c)
  <2>1. /\ active = c /\ host[c] = "record" /\ RecordBatch(c)
        /\ UNCHANGED <<active, nextCell, pub, chan, marks, calls, reply>>
        /\ UNCHANGED <<worker, callerVars, cancel, base, heard>>
    BY <1>2, RecordCases DEF Record
  <2>2. /\ cue[c] \in {"flush", "timer", "tool"} \cup Lives
        /\ cue[c] \in Results => worker[c] = "ended"
        /\ phase[c] \notin Lives
    BY <2>1 DEF CodeInv, EndIsLast, ResultsAreReal, Ended
  <2>3. /\ phase'[c] = IF cue[c] \in Lives THEN cue[c] ELSE PhaseAfter(phase[c], cue[c])
        /\ stored' = IF cue[c] \in Lives THEN base[c] \cup {c} ELSE stored
        /\ shown'[c] = shown[c] \o batch[c]
        /\ \A d \in Cells : d # c => phase'[d] = phase[d] /\ shown'[d] = shown[d]
    BY <2>1, CellFunctions DEF CodeInv, RecordBatch
  <2>4. /\ cue[c] \in Lives => phase'[c] = cue[c]
        /\ cue[c] \notin Lives => phase'[c] \in {"Running", "WaitingOnTool", "WaitingOnTimer"}
    BY <2>2, <2>3 DEF PhaseAfter
  <2>5. Len(shown[c]) <= Len(shown'[c])
    BY <2>3, CellFunctions DEF CodeInv
  <2>6. Lives \subseteq Results /\ "flush" \notin Results \cup Lives
        /\ "timer" \notin Results \cup Lives /\ "tool" \notin Results \cup Lives
        /\ "flush" # "deadline" /\ "tool" # "deadline" /\ "deadline" \notin Lives
    BY DEF Results, Lives
  <2>7. \A why \in {cue[c], "idle"} :
          Announce(c, why, Lifecycle(phase'[c]), Len(shown'[c]))
          /\ (cue[c] \in Lives => why = cue[c]) => Announces(c)
    <3> SUFFICES ASSUME NEW why \in {cue[c], "idle"},
                        Announce(c, why, Lifecycle(phase'[c]), Len(shown'[c])),
                        cue[c] \in Lives => why = cue[c]
                 PROVE  Announces(c)
      OBVIOUS
    <3>1. /\ host'[c] = "publish" /\ cue'[c] = why
          /\ note'[c] = [life |-> Lifecycle(phase'[c]), upto |-> Len(shown'[c])]
      BY CellFunctions DEF CodeInv, Announce, Goto
    <3>2. OnlyCell(c)
      BY <2>1, <2>3, CellFunctions DEF CodeInv, Announce, Goto, OnlyCell, callerVars
    <3>3. QED
      BY <2>1, <2>2, <2>3, <2>4, <2>5, <2>6, <3>1, <3>2, NoPhaseMix DEF Announces
  <2>8. Goto(c, "poll") /\ Forget(c) /\ cue[c] = "timer" => GoesOn(c)
    <3> SUFFICES ASSUME Goto(c, "poll"), Forget(c), cue[c] = "timer"
                 PROVE  GoesOn(c)
      OBVIOUS
    <3>1. host'[c] = "poll" /\ cue'[c] = "none" /\ note'[c] = NoSummary
      BY CellFunctions DEF CodeInv, Goto, Forget
    <3>2. OnlyCell(c)
      BY <2>1, <2>3, CellFunctions DEF CodeInv, Goto, Forget, OnlyCell, callerVars
    <3>3. QED
      BY <2>1, <2>2, <2>3, <2>4, <2>5, <2>6, <3>1, <3>2, NoPhaseMix DEF GoesOn
  <2>9. QED
    BY <1>2, <2>6, <2>7, <2>8, RecordCases
<1>3. QED
  BY <1>1, <1>2

(* After a publication the loop ends or goes on.                           *)
LEMMA PublishEffect ==
  ASSUME CodeInv, NEW c \in Cells, Publish(c)
  PROVE  Leaves(c) \/ GoesOn(c)
<1>1. /\ host[c] = "publish"
      /\ UNCHANGED <<worker, pc, mine, cancel, base, heard>>
  BY DEF Publish
<1>2. CASE FailAndExit(c)
  BY <1>1, <1>2, FailAndExitLeaves
<1>3. CASE Exit(c) /\ ~FailAndExit(c)
  <2>1. /\ UNCHANGED <<active, nextCell, stored, phase, shown>>
        /\ UNCHANGED reply \/ Answer(c, note[c])
        /\ UNCHANGED pub \/ pub' = [pub EXCEPT ![c] = note[c]]
        /\ active = c => Last(c)
    <3>1. ~Goto(c, "poll")
      BY <1>3, CellFunctions DEF CodeInv, Exit, Goto
    <3>2. QED
      BY <1>3, <3>1, PublishCases DEF session, cellVars
  <2>2. OnlyCell(c)
    BY <1>1, <1>3, <2>1, CellFunctions
    DEF CodeInv, Exit, Goto, Forget, Answer, OnlyCell
  <2>3. Leaves(c)
    BY <1>1, <1>3, <2>1, <2>2, CellFunctions
    DEF CodeInv, Exit, Goto, Forget, Answer, Leaves, Last
  <2>4. QED
    BY <2>3
<1>4. CASE ~Exit(c) /\ ~FailAndExit(c)
  <2>1. /\ UNCHANGED reply \/ Answer(c, note[c])
        /\ pub' = [pub EXCEPT ![c] = note[c]]
        /\ ~Last(c) /\ Goto(c, "poll") /\ Forget(c)
        /\ UNCHANGED <<active, nextCell, stored, phase, shown, chan>>
    BY <1>4, PublishCases DEF session
  <2>2. OnlyCell(c)
    BY <1>1, <2>1, CellFunctions DEF CodeInv, Goto, Forget, Answer, OnlyCell
  <2>3. phase[c] \notin Lives /\ phase[c] # "Absent"
    BY <1>1, <2>1 DEF CodeInv, EndIsLast, CellsStart, Ended
  <2>4. /\ host'[c] = "poll" /\ cue'[c] = "none" /\ note'[c] = NoSummary
        /\ pub'[c] = note[c] /\ reply'[c] \in {reply[c], note[c]}
        /\ Len(shown[c]) <= Len(shown'[c])
    BY <2>1, CellFunctions DEF CodeInv, Goto, Forget, Answer
  <2>5. GoesOn(c)
    BY <2>1, <2>2, <2>3, <2>4, NoPhaseMix DEF GoesOn
  <2>6. QED
    BY <2>5
<1>5. QED
  BY <1>2, <1>3, <1>4

(* These are all the steps of a host.                                      *)
LEMMA HostEffect ==
  ASSUME CodeInv, NEW c \in Cells, HostStep(c)
  PROVE  Leaves(c) \/ Announces(c) \/ GoesOn(c)
<1>1. CASE Poll(c) \/ Idle(c) \/ IdleContinue(c)
  BY <1>1, QuietStep
<1>2. CASE Receive(c)
  BY <1>2, ReceiveEffect
<1>3. CASE IdleFlush(c)
  BY <1>3, IdleFlushEffect
<1>4. CASE Record(c)
  BY <1>4, RecordEffect
<1>5. CASE Expire(c)
  BY <1>5, SettleEffect DEF Expire, Lives, callerVars
<1>6. CASE Fail(c)
  BY <1>6, SettleEffect DEF Fail, Lives, callerVars
<1>7. CASE Publish(c)
  BY <1>7, PublishEffect
<1>8. QED
  BY <1>1, <1>2, <1>3, <1>4, <1>5, <1>6, <1>7 DEF HostStep

(* What a call may do to the cells it does not start or stop: it hears of  *)
(* them, and takes them out of the session when they have ended or are to  *)
(* be stopped next.                                                        *)
Listens ==
  /\ UNCHANGED <<nextCell, stored, phase, shown, cancel, base, worker, host, cue,
                 note, chan>>
  /\ pc # "stopping"
  /\ active' \in {active, NoCell}
  /\ active' # active => Ended(active) \/ (pc' = "stopping" /\ mine' = active)
  /\ \A d \in Cells : /\ pub'[d] \in {pub[d], NoSummary}
                      /\ reply'[d] \in {reply[d], NoSummary}
                      /\ heard'[d] \in {heard[d], reply[d], pub[d], Snapshot(d)}

(* Such a call keeps the invariant.                                        *)
LEMMA ListensInv ==
  ASSUME CodeInv, Listens
  PROVE  CellsStart' /\ EndIsLast' /\ ResultsAreReal' /\ StrayWorkersStop'
         /\ CopyUpToDate' /\ SummariesHonest'
<1> USE NoPhaseMix DEF CodeInv, Listens
<1>1. CellsStart' /\ EndIsLast' /\ ResultsAreReal'
  BY DEF CellsStart, EndIsLast, ResultsAreReal, Ended, Last
<1>2. StrayWorkersStop'
  <2> SUFFICES ASSUME NEW d \in Cells,
                      (phase[d] # "Absent" /\ active' # d) \/ host[d] = "exited"
               PROVE  Stoppable(d)'
    BY DEF StrayWorkersStop
  <2>1. CASE active # d \/ host[d] = "exited"
    BY <2>1 DEF StrayWorkersStop, Stoppable
  <2>2. CASE active = d /\ active' # d
    BY <2>2 DEF ResultsAreReal, Stoppable
  <2>3. QED
    BY <2>1, <2>2
<1>3. CopyUpToDate'
  BY DEF CopyUpToDate, NoCell, Cells
<1>4. SummariesHonest'
  <2> SUFFICES ASSUME NEW d \in Cells,
                      NEW s \in {pub'[d], note'[d], reply'[d], heard'[d]}
               PROVE  /\ s.upto <= Len(shown[d])
                      /\ s.life \in Lives => s.life = phase[d]
    BY DEF SummariesHonest
  <2>0. Len(shown[d]) \in Nat
    BY CellFunctions
  <2>1. CASE s = NoSummary
    BY <2>0, <2>1 DEF NoSummary
  <2>2. CASE s = Snapshot(d)
    BY <2>0, <2>2 DEF Snapshot, Lifecycle
  <2>3. CASE s \in {pub[d], note[d], reply[d], heard[d]}
    BY <2>3 DEF SummariesHonest
  <2>4. QED
    BY <2>1, <2>2, <2>3
<1>5. QED
  BY <1>1, <1>2, <1>3, <1>4

(* All calls but an exec and the stop after an abort are such.             *)
LEMMA CallListens ==
  ASSUME CodeInv,
         ExecReply \/ Abort \/ WaitWake \/ Read \/ ExecGiveUp \/ CancelIdle
         \/ WaitEnded \/ Wait \/ WaitTimeout \/ WaitInterrupt
  PROVE  Listens
<1>0. /\ DOMAIN pub = Cells /\ DOMAIN reply = Cells /\ DOMAIN heard = Cells
      /\ \A d : Drop(d) => \A e \in Cells : pub'[e] \in {pub[e], NoSummary}
      /\ \A d, s : Hear(d, s) => \A e \in Cells : heard'[e] = IF e = d THEN s ELSE heard[e]
  BY DEF CodeInv, TypeOK, CellTypes, HostTypes, CallerTypes, Drop, Hear
<1> USE <1>0 DEF Listens, session, cellVars, workerVars, hostVars, callerVars
<1>1. CASE ExecReply
  BY <1>1 DEF ExecReply
<1>2. CASE Abort
  BY <1>2 DEF Abort, Return
<1>3. CASE WaitWake \/ Wait \/ WaitTimeout \/ WaitInterrupt \/ CancelIdle
  BY <1>3 DEF WaitWake, Wait, WaitTimeout, WaitInterrupt, CancelIdle
<1>4. CASE Read
  BY <1>4 DEF Read
<1>5. CASE ExecGiveUp
  BY <1>5 DEF ExecGiveUp
<1>6. CASE WaitEnded
  BY <1>6 DEF WaitEnded
<1>7. QED
  BY <1>1, <1>2, <1>3, <1>4, <1>5, <1>6

(* The stop keeps the invariant.                                           *)
LEMMA StopInv ==
  ASSUME CodeInv, Stop
  PROVE  CellsStart' /\ EndIsLast' /\ ResultsAreReal' /\ StrayWorkersStop'
         /\ CopyUpToDate' /\ SummariesHonest'
<1>1. /\ UNCHANGED <<active, nextCell, stored, phase, shown, pub, chan, base, worker,
                     host, cue, note, reply, heard>>
      /\ pc = "stopping"
  BY DEF Stop, session, cellVars, workerVars, hostVars
<1>2. \A d \in Cells : cancel'[d] = (cancel[d] \/ d = mine)
  BY DEF Stop, CodeInv, TypeOK, CellTypes, CallerTypes
<1>3. CellsStart' /\ EndIsLast' /\ CopyUpToDate' /\ SummariesHonest'
  BY <1>1 DEF CodeInv, CellsStart, EndIsLast, Ended, Last, CopyUpToDate, SummariesHonest
<1>4. ResultsAreReal'
  BY <1>1, <1>2 DEF CodeInv, ResultsAreReal, Ended
<1>5. StrayWorkersStop'
  BY <1>1, <1>2 DEF CodeInv, StrayWorkersStop, Stoppable
<1>6. QED
  BY <1>3, <1>4, <1>5

(* So does exec.                                                           *)
LEMMA ExecInv ==
  ASSUME CodeInv, Exec
  PROVE  CellsStart' /\ EndIsLast' /\ ResultsAreReal' /\ StrayWorkersStop'
         /\ CopyUpToDate' /\ SummariesHonest'
<1> DEFINE c == nextCell
<1>1. /\ c \in Cells /\ active' = c /\ nextCell' = c + 1 /\ pc = "idle"
      /\ UNCHANGED <<stored, shown, chan, cue, note, cancel, reply, heard>>
      /\ active # NoCell => Ended(active)
      /\ active \in Cells \cup {NoCell}
  BY DEF Exec, CodeInv, TypeOK, SessionTypes
<1>2. /\ phase[c] = "Absent" /\ host[c] = "absent" /\ worker[c] = "absent"
      /\ chan[c] = <<>> /\ cue[c] = "none"
  BY <1>1 DEF CodeInv, CellsStart, Cells
<1>3. /\ phase'[c] = "Running" /\ host'[c] = "poll" /\ worker'[c] = "running"
      /\ base'[c] = stored
      /\ \A d \in Cells : d # c => /\ phase'[d] = phase[d] /\ host'[d] = host[d]
                                   /\ worker'[d] = worker[d] /\ base'[d] = base[d]
      /\ \A d \in Cells : pub'[d] \in {pub[d], NoSummary}
  BY <1>1 DEF Exec, Drop, CodeInv, TypeOK, CellTypes, WorkerTypes, HostTypes
<1>4. CellsStart'
  BY <1>1, <1>3 DEF CodeInv, CellsStart, Cells
<1>5. EndIsLast'
  BY <1>1, <1>3, NoPhaseMix DEF CodeInv, EndIsLast, Ended, Last
<1>6. ResultsAreReal'
  <2> SUFFICES ASSUME NEW d \in Cells
      PROVE /\ \A i \in DOMAIN chan[d] :
                  chan[d][i].kind \in Results => worker'[d] = "ended"
            /\ cue[d] \in Results => worker'[d] = "ended"
            /\ host'[d] = "fail" => worker'[d] = "ended"
            /\ host'[d] = "expire" \/ cue[d] = "deadline" => cancel[d]
            /\ phase'[d] \in Lives => worker'[d] = "ended" \/ cancel[d]
    BY <1>1 DEF ResultsAreReal, Ended
  <2>1. CASE d = c
    BY <1>2, <1>3, <2>1, NoPhaseMix
  <2>2. CASE d # c
    BY <1>3, <2>2 DEF CodeInv, ResultsAreReal, Ended
  <2>3. QED
    BY <2>1, <2>2
<1>7. StrayWorkersStop'
  <2> SUFFICES ASSUME NEW d \in Cells, d # c,
                      phase[d] # "Absent" \/ host[d] = "exited"
               PROVE  worker[d] = "ended" \/ cancel[d]
    BY <1>1, <1>3 DEF StrayWorkersStop, Stoppable
  <2>1. CASE active = d
    BY <1>1, <2>1 DEF CodeInv, ResultsAreReal, NoCell, Cells
  <2>2. CASE active # d
    BY <1>1, <2>2 DEF CodeInv, StrayWorkersStop, Stoppable
  <2>3. QED
    BY <2>1, <2>2
<1>8. CopyUpToDate'
  BY <1>1, <1>3 DEF CopyUpToDate
<1>9. SummariesHonest'
  <2> SUFFICES ASSUME NEW d \in Cells,
                      NEW s \in {NoSummary, pub[d], note[d], reply[d], heard[d]}
               PROVE  /\ s.upto <= Len(shown[d])
                      /\ s.life \in Lives => s.life = phase'[d]
    BY <1>1, <1>3 DEF SummariesHonest
  <2>1. CASE s = NoSummary
    BY <2>1, CellFunctions, NoPhaseMix DEF CodeInv, NoSummary
  <2>2. CASE s # NoSummary
    BY <1>2, <1>3, <2>2, NoPhaseMix DEF CodeInv, SummariesHonest
  <2>3. QED
    BY <2>1, <2>2
<1>10. QED
  BY <1>4, <1>5, <1>6, <1>7, <1>8, <1>9

CellsInv == CellsStart /\ EndIsLast /\ ResultsAreReal /\ StrayWorkersStop
            /\ CopyUpToDate /\ SummariesHonest

(* Every step keeps the invariant.                                         *)
LEMMA NextInv == CodeInv /\ [Next]_vars => CodeInv'
<1> SUFFICES ASSUME CodeInv, [Next]_vars PROVE CodeInv'
  OBVIOUS
<1>0. TypeOK'
  BY NextTypeInv DEF CodeInv
<1>1. ASSUME NEW c \in Cells, WorkerStep(c) PROVE CellsInv'
  BY <1>1, WorkerInv DEF CellsInv
<1>2. ASSUME NEW c \in Cells, HostStep(c) PROVE CellsInv'
  BY <1>0, <1>2, HostEffect, LeaveInv, AnnounceInv, GoesOnInv DEF CellsInv
<1>3. ASSUME NEW c \in Cells, Deadline(c) PROVE CellsInv'
  <2>1. UNCHANGED CellCore /\ UNCHANGED chan
    BY <1>3 DEF Deadline, CellCore, session, cellVars, workerVars, hostVars, callerVars
  <2>2. QED
    BY <2>1, CoreKept DEF CellsInv
<1>4. ASSUME CallStep \/ CallerStep PROVE CellsInv'
  <2>1. CASE Exec
    BY <2>1, ExecInv DEF CellsInv
  <2>2. CASE Stop
    BY <2>2, StopInv DEF CellsInv
  <2>3. CASE ~Exec /\ ~Stop
    BY <1>4, <2>3, CallListens, ListensInv DEF CallStep, CallerStep, CellsInv
  <2>4. QED
    BY <2>1, <2>2, <2>3
<1>5. ASSUME UNCHANGED vars PROVE CellsInv'
  <2>1. UNCHANGED CellCore /\ UNCHANGED chan
    BY <1>5 DEF vars, CellCore, session, cellVars, workerVars, hostVars, callerVars
  <2>2. QED
    BY <2>1, CoreKept DEF CellsInv
<1>6. CellsInv'
  BY <1>1, <1>2, <1>3, <1>4, <1>5 DEF Next
<1>7. QED
  BY <1>0, <1>6 DEF CodeInv, CellsInv

(* The inductive invariant of code mode: how far a cell's end has come, in *)
(* its worker, its channel, its host and its session.                      *)
THEOREM CodeInvariant == Spec => []CodeInv
<1>1. QED
  BY InitInv, NextInv, PTL DEF Spec

(* No path out of the host's loop leaves a script that nobody can stop.    *)
THEOREM RunawayCorrect == Spec => []NoRunawayWorker
<1>1. CodeInv => NoRunawayWorker
  BY DEF CodeInv, StrayWorkersStop, Stoppable, NoRunawayWorker
<1>2. QED
  BY <1>1, CodeInvariant, PTL

(* A summary on its way to the caller never claims what is not so.         *)
THEOREM SummariesCorrect == Spec => []SummariesHonest
<1>1. CodeInv => SummariesHonest
  BY DEF CodeInv
<1>2. QED
  BY <1>1, CodeInvariant, PTL

(* The end of a cell stands, however its host, deadline and aborts race.   *)
THEOREM ResultCorrect == Spec => ResultDecidedOnce
<1>1. CodeInv /\ [Next]_vars
        => [\A c \in Cells : Ended(c) => phase'[c] = phase[c]]_vars
  <2> SUFFICES ASSUME CodeInv, Next, NEW c \in Cells, Ended(c)
               PROVE  phase'[c] = phase[c]
    OBVIOUS
  <2>1. ASSUME NEW d \in Cells, HostStep(d) PROVE phase'[c] = phase[c]
    <3>1. Leaves(d) \/ Announces(d) \/ GoesOn(d)
      BY <2>1, HostEffect
    <3>2. CASE c # d
      BY <3>1, <3>2 DEF Leaves, Announces, GoesOn, OnlyCell
    <3>3. CASE c = d
      BY <3>1, <3>3 DEF Leaves, Announces, GoesOn, CodeInv, EndIsLast, Ended
    <3>4. QED
      BY <3>2, <3>3
  <2>2. ASSUME NEW d \in Cells, WorkerStep(d) \/ Deadline(d) PROVE phase'[c] = phase[c]
    BY <2>2 DEF WorkerStep, EmitText, EmitMark, StartTool, EndTool, Flood, Complete,
       Deadline, cellVars
  <2>3. CASE CallStep \/ CallerStep
    <3>1. CASE Exec
      <4>1. /\ nextCell \in Cells /\ phase[nextCell] = "Absent"
            /\ \A d \in Cells : d # nextCell => phase'[d] = phase[d]
        BY <3>1 DEF Exec, CodeInv, CellsStart, TypeOK, CellTypes, Cells
      <4>2. QED
        BY <4>1, NoPhaseMix DEF Ended
    <3>2. CASE Stop
      BY <3>2 DEF Stop, cellVars
    <3>3. CASE ~Exec /\ ~Stop
      BY <2>3, <3>3, CallListens DEF CallStep, CallerStep, Listens
    <3>4. QED
      BY <3>1, <3>2, <3>3
  <2>4. QED
    BY <2>1, <2>2, <2>3 DEF Next
<1>2. QED
  BY <1>1, CodeInvariant, PTL DEF Spec, ResultDecidedOnce

(* Only its own end or an abort takes a cell out of its session.           *)
THEOREM LiveCellCorrect == Spec => LiveCellStays
<1>1. CodeInv /\ [Next]_vars
        => [active # NoCell /\ active' # active => Ended(active) \/ pc = "aborting"]_vars
  <2> SUFFICES ASSUME CodeInv, Next, active # NoCell, active' # active
               PROVE  Ended(active) \/ pc = "aborting"
    OBVIOUS
  <2>1. ASSUME NEW d \in Cells, HostStep(d) PROVE FALSE
    BY <2>1, HostEffect DEF Leaves, Announces, GoesOn, OnlyCell
  <2>2. ASSUME NEW d \in Cells, WorkerStep(d) \/ Deadline(d) PROVE FALSE
    BY <2>2 DEF WorkerStep, EmitText, EmitMark, StartTool, EndTool, Flood, Complete,
       Deadline, session
  <2>3. CASE CallStep \/ CallerStep
    BY <2>3 DEF CallStep, CallerStep, ExecReply, Abort, Stop, WaitWake, Read, Exec,
       ExecGiveUp, CancelIdle, WaitEnded, Wait, WaitTimeout, WaitInterrupt, session
  <2>4. QED
    BY <2>1, <2>2, <2>3 DEF Next
<1>2. QED
  BY <1>1, CodeInvariant, PTL DEF Spec, LiveCellStays

(* A cell's write-back of its whole copy undoes no other cell's writes.    *)
THEOREM StoredCorrect == Spec => StoredValuesKept
<1>1. CodeInv /\ [Next]_vars => [stored \subseteq stored']_vars
  <2> SUFFICES ASSUME CodeInv, Next PROVE stored \subseteq stored'
    BY DEF vars, session
  <2>1. ASSUME NEW d \in Cells, HostStep(d) PROVE stored \subseteq stored'
    BY <2>1, HostEffect
    DEF Leaves, Announces, GoesOn, CodeInv, CopyUpToDate
  <2>2. ASSUME NEW d \in Cells, WorkerStep(d) \/ Deadline(d) PROVE stored' = stored
    BY <2>2 DEF WorkerStep, EmitText, EmitMark, StartTool, EndTool, Flood, Complete,
       Deadline, session
  <2>3. CASE CallStep \/ CallerStep
    <3>1. CASE Exec \/ Stop
      BY <3>1 DEF Exec, Stop, session
    <3>2. CASE ~Exec /\ ~Stop
      BY <2>3, <3>2, CallListens DEF CallStep, CallerStep, Listens
    <3>3. QED
      BY <3>1, <3>2
  <2>4. QED
    BY <2>1, <2>2, <2>3 DEF Next
<1>2. QED
  BY <1>1, CodeInvariant, PTL DEF Spec, StoredValuesKept

(* CellsKept: a cell that still runs leaves its session only through an    *)
(* abort, and what a cell has stored is undone by no other cell.           *)
THEOREM CellsKeptCorrect == Spec => CellsKept
BY LiveCellCorrect, StoredCorrect, PTL DEF CellsKept

-----------------------------------------------------------------------------
(* The order of the output.  On its way from the script to the record a    *)
(* text is in the channel, then in the host's batch, then recorded.        *)

(* A text in the channel is numbered no higher than what was emitted, and  *)
(* higher than the texts sent or taken out before it.                      *)
TextsInChannel(q, ch, n) ==
  \A i \in DOMAIN ch : ch[i].kind = "text" =>
    /\ ch[i].seq <= n
    /\ \A j \in DOMAIN q : q[j] < ch[i].seq
    /\ \A j \in DOMAIN ch : ch[j].kind = "text" /\ i < j => ch[i].seq < ch[j].seq

Rising(q, n) ==
  /\ \A i, j \in DOMAIN q : i < j => q[i] < q[j]
  /\ \A j \in DOMAIN q : q[j] <= n

InLine(q, ch, n) == Rising(q, n) /\ TextsInChannel(q, ch, n)

(* What the host has of a cell's output: recorded, and put aside.          *)
Taken(c) == shown[c] \o batch[c]

OutputInv == \A c \in Cells : InLine(Taken(c), chan[c], emitted[c])

(* The script emits one more text.                                         *)
LEMMA LineText ==
  ASSUME NEW q \in Seq(Nat), NEW ch \in Seq(Event), NEW n \in Nat, InLine(q, ch, n)
  PROVE  InLine(q, ch \o <<[kind |-> "text", seq |-> n + 1]>>, n + 1)
<1> DEFINE e == [kind |-> "text", seq |-> n + 1]
           longer == ch \o <<e>>
<1>1. Rising(q, n + 1)
  BY DEF InLine, Rising
<1>2. /\ e \in Event /\ longer \in Seq(Event) /\ Len(longer) = Len(ch) + 1
      /\ longer[Len(ch) + 1] = e
      /\ \A i \in DOMAIN ch : longer[i] = ch[i]
  BY DEF Event
<1>3. ASSUME NEW i \in DOMAIN longer, longer[i].kind = "text"
      PROVE  /\ longer[i].seq <= n + 1
             /\ \A j \in DOMAIN q : q[j] < longer[i].seq
             /\ \A j \in DOMAIN longer :
                  longer[j].kind = "text" /\ i < j => longer[i].seq < longer[j].seq
  <2>1. CASE i \in DOMAIN ch
    <3>0. ch[i] \in Event
      BY <2>1
    <3>1. longer[i] = ch[i] /\ ch[i].seq \in Nat /\ ch[i].seq <= n
          /\ \A j \in DOMAIN q : q[j] < ch[i].seq
      BY <1>2, <1>3, <2>1, <3>0 DEF InLine, TextsInChannel, Event
    <3>2. ASSUME NEW j \in DOMAIN longer, longer[j].kind = "text", i < j
          PROVE  ch[i].seq < longer[j].seq
      <4>1. CASE j \in DOMAIN ch
        BY <1>2, <1>3, <2>1, <3>2, <4>1 DEF InLine, TextsInChannel
      <4>2. CASE j \notin DOMAIN ch
        <5>1. j = Len(ch) + 1
          BY <1>2, <4>2
        <5>2. QED
          BY <1>2, <3>1, <5>1
      <4>3. QED
        BY <4>1, <4>2
    <3>3. QED
      BY <3>1, <3>2
  <2>2. CASE i \notin DOMAIN ch
    <3>1. i = Len(ch) + 1 /\ longer[i].seq = n + 1
      BY <1>2, <2>2
    <3>2. \A j \in DOMAIN q : q[j] \in Nat /\ q[j] <= n
      BY DEF InLine, Rising
    <3>3. \A j \in DOMAIN longer : ~(i < j)
      BY <1>2, <3>1
    <3>4. QED
      BY <3>1, <3>2, <3>3
  <2>3. QED
    BY <2>1, <2>2
<1>4. QED
  BY <1>1, <1>3 DEF InLine, TextsInChannel

(* It sends events that are no text.                                       *)
LEMMA LineMarks ==
  ASSUME NEW q \in Seq(Nat), NEW ch \in Seq(Event), NEW n \in Nat, InLine(q, ch, n),
         NEW events \in Seq(Event), \A i \in DOMAIN events : events[i].kind # "text"
  PROVE  InLine(q, ch \o events, n)
<1> DEFINE longer == ch \o events
<1>1. /\ longer \in Seq(Event) /\ \A i \in DOMAIN ch : longer[i] = ch[i]
      /\ \A i \in DOMAIN longer : i \notin DOMAIN ch =>
           i - Len(ch) \in DOMAIN events /\ longer[i] = events[i - Len(ch)]
  OBVIOUS
<1>2. \A i \in DOMAIN longer : longer[i].kind = "text" => i \in DOMAIN ch
  BY <1>1
<1>3. QED
  BY <1>1, <1>2 DEF InLine, TextsInChannel

(* The host takes one event out of the channel.                            *)
LEMMA LineTake ==
  ASSUME NEW q \in Seq(Nat), NEW ch \in Seq(Event), NEW n \in Nat, InLine(q, ch, n),
         ch # <<>>
  PROVE  /\ InLine(q, Tail(ch), n)
         /\ Head(ch).kind = "text" => InLine(Append(q, Head(ch).seq), Tail(ch), n)
<1> DEFINE rest == Tail(ch)
<1>1. /\ rest \in Seq(Event) /\ Len(rest) = Len(ch) - 1
      /\ \A i \in DOMAIN rest : i + 1 \in DOMAIN ch /\ rest[i] = ch[i + 1]
      /\ Head(ch) = ch[1] /\ 1 \in DOMAIN ch
      /\ \A i \in DOMAIN rest : 1 < i + 1
  OBVIOUS
<1>2. InLine(q, rest, n)
  BY <1>1 DEF InLine, TextsInChannel
<1>3. ASSUME Head(ch).kind = "text"
      PROVE  InLine(Append(q, Head(ch).seq), rest, n)
  <2> DEFINE e == ch[1].seq
             more == Append(q, e)
  <2>0. ch[1] \in Event
    BY <1>1
  <2>1. /\ e \in Nat /\ e <= n
        /\ \A j \in DOMAIN q : q[j] < e
        /\ \A i \in DOMAIN rest : rest[i].kind = "text" => e < rest[i].seq
    BY <1>1, <1>3, <2>0 DEF InLine, TextsInChannel, Event
  <2>2. /\ more \in Seq(Nat)
        /\ \A j \in DOMAIN more : \/ j \in DOMAIN q /\ more[j] = q[j]
                                  \/ j = Len(q) + 1 /\ more[j] = e
    BY <2>1
  <2>3. \A i, j \in DOMAIN more : i < j => i \in DOMAIN q
    BY <2>2
  <2>4. Rising(more, n)
    BY <2>1, <2>2, <2>3 DEF InLine, Rising
  <2>5. TextsInChannel(more, rest, n)
    BY <1>2, <2>1, <2>2 DEF InLine, TextsInChannel
  <2>6. QED
    BY <1>1, <2>4, <2>5 DEF InLine
<1>4. QED
  BY <1>2, <1>3

(* What was put aside is dropped.                                          *)
LEMMA LineDrop ==
  ASSUME NEW sh \in Seq(Nat), NEW ba \in Seq(Nat), NEW ch \in Seq(Event), NEW n \in Nat,
         InLine(sh \o ba, ch, n)
  PROVE  InLine(sh \o <<>>, ch, n) /\ InLine(sh \o <<>>, <<>>, n)
<1>1. /\ sh \o <<>> = sh
      /\ \A i \in DOMAIN sh : i \in DOMAIN (sh \o ba) /\ (sh \o ba)[i] = sh[i]
  OBVIOUS
<1>2. InLine(sh, ch, n)
  BY <1>1 DEF InLine, Rising, TextsInChannel
<1>3. InLine(sh, <<>>, n)
  BY <1>2 DEF InLine, TextsInChannel
<1>4. QED
  BY <1>1, <1>2, <1>3

(* What a step may do to the output of a cell.                             *)
OutputStays(c) == /\ shown'[c] = shown[c] /\ batch'[c] = batch[c]
                  /\ chan'[c] = chan[c] /\ emitted'[c] = emitted[c]

OutputGrows(c) ==
  /\ shown'[c] = shown[c] /\ batch'[c] = batch[c]
  /\ \/ /\ chan'[c] = chan[c] \o <<[kind |-> "text", seq |-> emitted[c] + 1]>>
        /\ emitted'[c] = emitted[c] + 1
     \/ /\ emitted'[c] = emitted[c]
        /\ \E events \in Seq(Event) : /\ \A i \in DOMAIN events : events[i].kind # "text"
                                      /\ chan'[c] = chan[c] \o events

OutputMoves(c) ==
  /\ emitted'[c] = emitted[c]
  /\ \/ shown'[c] = shown[c] /\ batch'[c] = <<>> /\ chan'[c] \in {chan[c], <<>>}
     \/ shown'[c] = shown[c] \o batch[c] /\ batch'[c] = <<>> /\ chan'[c] = chan[c]
     \/ /\ shown'[c] = shown[c] /\ chan[c] # <<>> /\ chan'[c] = Tail(chan[c])
        /\ \/ batch'[c] \in {batch[c], <<>>}
           \/ /\ Head(chan[c]).kind = "text"
              /\ batch'[c] = Append(batch[c], Head(chan[c]).seq)

(* Each of them keeps the output in line.                                  *)
LEMMA LineKept ==
  ASSUME TypeOK, NEW c \in Cells, InLine(Taken(c), chan[c], emitted[c]),
         OutputStays(c) \/ OutputGrows(c) \/ OutputMoves(c)
  PROVE  InLine(Taken(c), chan[c], emitted[c])'
<1>1. /\ shown[c] \in Seq(Nat) /\ batch[c] \in Seq(Nat) /\ chan[c] \in Seq(Event)
      /\ emitted[c] \in Nat
  BY DEF TypeOK, CellTypes, WorkerTypes, HostTypes
<1>2. Taken(c) \in Seq(Nat)
  BY <1>1 DEF Taken
<1> SUFFICES InLine(shown'[c] \o batch'[c], chan'[c], emitted'[c])
  BY DEF InLine, Rising, TextsInChannel, Taken
<1>3. CASE OutputStays(c)
  BY <1>3 DEF OutputStays, Taken
<1>4. CASE OutputGrows(c)
  <2>1. shown'[c] \o batch'[c] = Taken(c)
    BY <1>4 DEF OutputGrows, Taken
  <2>2. QED
    BY <1>1, <1>2, <1>4, <2>1, LineText, LineMarks DEF OutputGrows
<1>5. CASE OutputMoves(c)
  <2>1. CASE shown'[c] = shown[c] /\ batch'[c] = <<>> /\ chan'[c] \in {chan[c], <<>>}
    BY <1>1, <1>5, <2>1, LineDrop DEF OutputMoves, Taken
  <2>2. CASE shown'[c] = shown[c] \o batch[c] /\ batch'[c] = <<>> /\ chan'[c] = chan[c]
    <3>1. (shown[c] \o batch[c]) \o <<>> = shown[c] \o batch[c]
      BY <1>1
    <3>2. QED
      BY <1>5, <2>2, <3>1 DEF OutputMoves, Taken
  <2>3. CASE shown'[c] = shown[c] /\ chan[c] # <<>> /\ chan'[c] = Tail(chan[c])
    <3>1. InLine(Taken(c), Tail(chan[c]), emitted[c]) /\ Tail(chan[c]) \in Seq(Event)
      BY <1>1, <1>2, <2>3, LineTake
    <3>2. CASE batch'[c] = batch[c]
      BY <1>5, <2>3, <3>1, <3>2 DEF OutputMoves, Taken
    <3>3. CASE batch'[c] = <<>>
      BY <1>1, <1>5, <2>3, <3>1, <3>3, LineDrop DEF OutputMoves, Taken
    <3>4. CASE Head(chan[c]).kind = "text" /\ batch'[c] = Append(batch[c], Head(chan[c]).seq)
      <4>1. Head(chan[c]) \in Event
        BY <1>1, <2>3
      <4>2. Head(chan[c]).seq \in Nat
        BY <4>1 DEF Event
      <4>3. shown[c] \o Append(batch[c], Head(chan[c]).seq)
              = Append(shown[c] \o batch[c], Head(chan[c]).seq)
        <5>1. \A s, t \in Seq(Nat), x \in Nat : s \o Append(t, x) = Append(s \o t, x)
          OBVIOUS
        <5>2. QED
          BY <1>1, <4>2, <5>1
      <4>4. InLine(Append(Taken(c), Head(chan[c]).seq), Tail(chan[c]), emitted[c])
        BY <1>1, <1>2, <2>3, <3>4, LineTake
      <4>5. QED
        BY <1>5, <2>3, <3>4, <4>3, <4>4 DEF OutputMoves, Taken
    <3>5. QED
      BY <1>5, <2>1, <2>2, <2>3, <3>2, <3>3, <3>4 DEF OutputMoves
  <2>4. QED
    BY <1>5, <2>1, <2>2, <2>3 DEF OutputMoves
<1>6. QED
  BY <1>3, <1>4, <1>5

(* A worker adds to the output or leaves it.                               *)
LEMMA WorkerOutput ==
  ASSUME TypeOK, NEW c \in Cells, WorkerStep(c), NEW d \in Cells
  PROVE  OutputStays(d) \/ OutputGrows(d)
<1>1. /\ chan \in [Cells -> Seq(Event)] /\ emitted \in [Cells -> Nat]
      /\ chan[d] \in Seq(Event)
  BY DEF TypeOK, WorkerTypes
<1>2. UNCHANGED <<shown, batch>>
  BY DEF WorkerStep, EmitText, EmitMark, StartTool, EndTool, Flood, Complete, cellVars,
     hostVars
<1>3. CASE EmitText(c)
  BY <1>1, <1>2, <1>3 DEF EmitText, Send, OutputStays, OutputGrows
<1>4. ASSUME UNCHANGED emitted,
             \/ UNCHANGED chan
             \/ \E events \in Seq(Event) : /\ \A i \in DOMAIN events : events[i].kind # "text"
                                           /\ Send(c, events)
      PROVE  OutputStays(d) \/ OutputGrows(d)
  <2>1. CASE UNCHANGED chan
    BY <1>2, <1>4, <2>1 DEF OutputStays
  <2>2. CASE ~UNCHANGED chan
    <3>1. PICK events \in Seq(Event) : /\ \A i \in DOMAIN events : events[i].kind # "text"
                                       /\ Send(c, events)
      BY <1>4, <2>2
    <3>2. CASE d = c
      <4>1. chan'[d] = chan[d] \o events
        BY <1>1, <3>1, <3>2 DEF Send
      <4>2. QED
        BY <1>2, <1>4, <3>1, <4>1 DEF OutputGrows
    <3>3. CASE d # c
      <4>1. chan'[d] = chan[d]
        BY <1>1, <3>1, <3>3 DEF Send
      <4>2. QED
        BY <1>2, <1>4, <4>1 DEF OutputStays
    <3>4. QED
      BY <3>2, <3>3
  <2>3. QED
    BY <2>1, <2>2
<1>5. \A k \in Marks \cup Results :
        /\ <<Mark(k)>> \in Seq(Event) /\ Mark(k).kind # "text"
        /\ \A i \in DOMAIN <<Mark(k)>> : <<Mark(k)>>[i].kind # "text"
  BY MarkType DEF Mark, Marks, Results, Lives
<1>6. /\ <<Mark("tool"), Mark("done")>> \in Seq(Event)
      /\ \A i \in DOMAIN <<Mark("tool"), Mark("done")>> :
           <<Mark("tool"), Mark("done")>>[i].kind # "text"
  BY MarkType DEF Mark, Marks
<1>7. CASE EmitMark(c)
  <2>1. PICK k \in {"flush", "timer"} \cap Moves : Send(c, <<Mark(k)>>)
    BY <1>7 DEF EmitMark
  <2>2. k \in Marks \cup Results
    BY DEF Marks
  <2>3. QED
    BY <1>4, <1>5, <1>7, <2>1, <2>2 DEF EmitMark
<1>8. CASE StartTool(c)
  <2>1. "tool" \in Marks \cup Results
    BY DEF Marks
  <2>2. QED
    BY <1>4, <1>5, <1>6, <1>8, <2>1 DEF StartTool
<1>9. CASE EndTool(c)
  <2>1. "done" \in Marks \cup Results
    BY DEF Marks
  <2>2. QED
    BY <1>4, <1>5, <1>9, <2>1 DEF EndTool
<1>10. CASE Flood(c)
  BY <1>4, <1>10 DEF Flood
<1>11. CASE Complete(c)
  BY <1>4, <1>5, <1>11 DEF Complete
<1>12. QED
  BY <1>3, <1>7, <1>8, <1>9, <1>10, <1>11 DEF WorkerStep

(* A host moves the output on.                                             *)
LEMMA HostOutput ==
  ASSUME TypeOK, NEW c \in Cells, HostStep(c), NEW d \in Cells
  PROVE  OutputStays(d) \/ OutputMoves(d)
<1>1. /\ DOMAIN shown = Cells /\ DOMAIN batch = Cells /\ DOMAIN chan = Cells
      /\ UNCHANGED emitted
  BY CellFunctions DEF HostStep, Poll, Receive, Idle, IdleContinue, IdleFlush, Record,
     Expire, Fail, Publish, workerVars
<1>2. ASSUME UNCHANGED shown, Exit(c) PROVE OutputStays(d) \/ OutputMoves(d)
  BY <1>1, <1>2 DEF Exit, OutputStays, OutputMoves
<1>3. ASSUME UNCHANGED <<shown, batch, chan>> PROVE OutputStays(d)
  BY <1>1, <1>3 DEF OutputStays
<1>4. CASE Poll(c) \/ IdleContinue(c)
  BY <1>3, <1>4 DEF Poll, IdleContinue, cellVars, workerVars
<1>5. CASE Receive(c)
  <2>1. /\ chan'[d] = IF d = c THEN Tail(chan[d]) ELSE chan[d]
        /\ chan[c] # <<>> /\ UNCHANGED shown
    BY <1>1, <1>5 DEF Receive, cellVars
  <2>2. d # c => batch'[d] = batch[d]
    BY <1>1, <1>5 DEF Receive
  <2>3. \/ batch'[c] \in {batch[c], <<>>}
        \/ /\ Head(chan[c]).kind = "text"
           /\ batch'[c] = Append(batch[c], Head(chan[c]).seq)
    BY <1>1, <1>5 DEF Receive
  <2>4. QED
    BY <1>1, <2>1, <2>2, <2>3 DEF OutputStays, OutputMoves
<1>6. CASE Idle(c)
  BY <1>1, <1>6 DEF Idle, OutputStays, OutputMoves, cellVars, workerVars
<1>7. CASE IdleFlush(c)
  BY <1>2, <1>3, <1>7 DEF IdleFlush, FailAndExit, cellVars
<1>8. CASE Record(c)
  <2>1. CASE FailAndExit(c)
    BY <1>2, <2>1 DEF FailAndExit, cellVars
  <2>2. CASE ~FailAndExit(c)
    <3>1. RecordBatch(c) /\ UNCHANGED chan
      BY <1>8, <2>2, RecordCases DEF Record
    <3>2. QED
      BY <1>1, <3>1 DEF RecordBatch, OutputStays, OutputMoves
  <2>3. QED
    BY <2>1, <2>2
<1>9. CASE Expire(c) \/ Fail(c)
  BY <1>2, <1>3, <1>9 DEF Expire, Fail, Settle, FailAndExit, cellVars
<1>10. CASE Publish(c)
  BY <1>2, <1>3, <1>10, PublishCases DEF FailAndExit, cellVars
<1>11. QED
  BY <1>4, <1>5, <1>6, <1>7, <1>8, <1>9, <1>10 DEF HostStep

(* Every step keeps the output in line.                                    *)
LEMMA OutputStep == TypeOK /\ OutputInv /\ [Next]_vars => OutputInv'
<1> SUFFICES ASSUME TypeOK, OutputInv, [Next]_vars, NEW d \in Cells
             PROVE  OutputStays(d) \/ OutputGrows(d) \/ OutputMoves(d)
  BY LineKept DEF OutputInv
<1>1. ASSUME NEW c \in Cells, WorkerStep(c) \/ HostStep(c)
      PROVE  OutputStays(d) \/ OutputGrows(d) \/ OutputMoves(d)
  BY <1>1, WorkerOutput, HostOutput
<1>2. ASSUME NEW c \in Cells, Deadline(c) PROVE OutputStays(d)
  BY <1>2 DEF Deadline, OutputStays, cellVars, workerVars, hostVars
<1>3. ASSUME CallStep \/ CallerStep PROVE OutputStays(d)
  BY <1>3 DEF CallStep, CallerStep, ExecReply, Abort, Stop, WaitWake, Read, Exec,
     ExecGiveUp, CancelIdle, WaitEnded, Wait, WaitTimeout, WaitInterrupt, OutputStays,
     cellVars, workerVars, hostVars
<1>4. ASSUME UNCHANGED vars PROVE OutputStays(d)
  BY <1>4 DEF vars, OutputStays, cellVars, workerVars, hostVars
<1>5. QED
  BY <1>1, <1>2, <1>3, <1>4 DEF Next

(* The types, and an output in which no piece is out of order or recorded  *)
(* twice: what is recorded is part of what the host has taken out, in line *)
(* with what the channel still holds (record_driver_update_in_session).    *)
THEOREM OutputSoundCorrect == Spec => []OutputSound
<1>1. Init => OutputInv
  <2> SUFFICES ASSUME Init, NEW c \in Cells PROVE InLine(<<>>, <<>>, 0)
    <3>1. Init => \A c \in Cells : /\ shown[c] = <<>> /\ batch[c] = <<>> /\ chan[c] = <<>>
                                   /\ emitted[c] = 0
      BY DEF Init
    <3>2. <<>> \o <<>> = <<>>
      OBVIOUS
    <3>3. QED
      BY <3>1, <3>2 DEF OutputInv, Taken
  <2>1. \A i \in DOMAIN <<>> : FALSE
    OBVIOUS
  <2>2. QED
    BY <2>1 DEF InLine, Rising, TextsInChannel
<1>2. TypeOK /\ OutputInv => OutputSound
  <2> SUFFICES ASSUME TypeOK, OutputInv, NEW c \in Cells,
                      NEW i \in DOMAIN shown[c], NEW j \in DOMAIN shown[c], i < j
               PROVE  shown[c][i] < shown[c][j]
    BY DEF OutputSound, OutputInOrder
  <2>1. shown[c] \in Seq(Nat) /\ batch[c] \in Seq(Nat)
    BY CellFunctions
  <2>2. /\ i \in DOMAIN Taken(c) /\ Taken(c)[i] = shown[c][i]
        /\ j \in DOMAIN Taken(c) /\ Taken(c)[j] = shown[c][j]
    <3>1. \A s, t \in Seq(Nat) : \A k \in DOMAIN s : k \in DOMAIN (s \o t) /\ (s \o t)[k] = s[k]
      OBVIOUS
    <3>2. QED
      BY <2>1, <3>1 DEF Taken
  <2>3. QED
    BY <2>2 DEF OutputInv, InLine, Rising
<1>3. QED
  BY <1>1, <1>2, OutputStep, TypeCorrect, PTL DEF Spec

-----------------------------------------------------------------------------
(* What the caller hears only advances.                                    *)

(* The summary a host is about to publish is the latest there is: only it  *)
(* adds to the record.                                                     *)
NoteIsLatest == \A c \in Cells : host[c] = "publish" => note[c].upto = Len(shown[c])

(* Before its first reply exec has heard nothing of its cell, and a wait   *)
(* has not heard the end; what is published while it sleeps is at least    *)
(* what it has heard.                                                      *)
CallerFollows ==
  /\ moved => pc \in {"watching", "reading"}
  /\ prefer => pc = "reading" /\ moved
  /\ pc = "awaiting" => heard[mine] = NoSummary
  /\ pc \in {"watching", "reading"} => heard[mine].life \notin Lives
  /\ moved /\ pub[mine] # NoSummary => pub[mine].upto >= heard[mine].upto

(* Of a cell that exec has not started nothing was heard, and no session   *)
(* and no call refers to it.                                               *)
NothingHeardBefore ==
  \A c \in Cells : phase[c] = "Absent" => heard[c] = NoSummary /\ active # c /\ mine # c

RepliesInv == CodeInv /\ NoteIsLatest /\ CallerFollows /\ NothingHeardBefore

(* A summary is published before anything else is recorded.                *)
LEMMA NoteStep == CodeInv /\ NoteIsLatest /\ [Next]_vars => NoteIsLatest'
<1> SUFFICES ASSUME CodeInv, NoteIsLatest, [Next]_vars,
                    NEW d \in Cells, host'[d] = "publish"
             PROVE  note'[d].upto = Len(shown'[d])
  BY DEF NoteIsLatest
<1>0. /\ DOMAIN host = Cells /\ DOMAIN note = Cells /\ DOMAIN shown = Cells
      /\ host[d] = "publish" => note[d].upto = Len(shown[d])
  BY CellFunctions DEF CodeInv, NoteIsLatest
<1>1. ASSUME UNCHANGED <<host, note, shown>> PROVE note'[d].upto = Len(shown'[d])
  BY <1>0, <1>1
<1>2. ASSUME NEW c \in Cells, HostStep(c) PROVE note'[d].upto = Len(shown'[d])
  <2>1. CASE d # c
    <3>1. /\ host'[d] = host[d] /\ note'[d] = note[d] /\ shown'[d] = shown[d]
      BY <1>2, <2>1, HostEffect DEF Leaves, Announces, GoesOn, OnlyCell
    <3>2. QED
      BY <1>0, <3>1
  <2>2. CASE d = c
    <3>1. Leaves(c) \/ Announces(c) \/ GoesOn(c)
      BY <1>2, HostEffect
    <3>2. ~Leaves(c) /\ ~GoesOn(c)
      BY <2>2 DEF Leaves, GoesOn
    <3>3. QED
      BY <2>2, <3>1, <3>2 DEF Announces
  <2>3. QED
    BY <2>1, <2>2
<1>3. ASSUME NEW c \in Cells, WorkerStep(c) \/ Deadline(c) PROVE UNCHANGED <<host, note, shown>>
  BY <1>3 DEF WorkerStep, EmitText, EmitMark, StartTool, EndTool, Flood, Complete,
     Deadline, hostVars, cellVars
<1>4. CASE CallStep \/ CallerStep
  <2>1. CASE Exec
    BY <1>0, <2>1 DEF Exec
  <2>2. CASE ~Exec
    BY <1>1, <1>4, <2>2 DEF CallStep, CallerStep, ExecReply, Abort, Stop, WaitWake, Read,
       ExecGiveUp, CancelIdle, WaitEnded, Wait, WaitTimeout, WaitInterrupt, hostVars,
       cellVars
  <2>3. QED
    BY <2>1, <2>2
<1>5. CASE UNCHANGED vars
  BY <1>1, <1>5 DEF vars, hostVars, cellVars
<1>6. QED
  BY <1>1, <1>2, <1>3, <1>4, <1>5 DEF Next

(* A summary counts no more than what is recorded.                         *)
LEMMA SummaryNumbers ==
  ASSUME CodeInv
  PROVE  \A c \in Cells : /\ Len(shown[c]) \in Nat
                          /\ \A s \in {pub[c], note[c], reply[c], heard[c]} :
                               s.upto \in Nat /\ s.upto <= Len(shown[c])
<1>1. ASSUME NEW s \in Summary \cup {NoSummary, HostError} PROVE s.upto \in Nat
  BY DEF Summary, NoSummary, HostError
<1>2. QED
  BY <1>1, CellFunctions
  DEF CodeInv, TypeOK, CellTypes, HostTypes, CallerTypes, SummariesHonest

(* A host's publication is no older than what the caller has heard.        *)
LEMMA HostFollows ==
  ASSUME CodeInv, NoteIsLatest, CallerFollows, NEW c \in Cells, HostStep(c)
  PROVE  CallerFollows' /\ UNCHANGED heard
<1> USE DEF CallerFollows
<1>1. UNCHANGED <<pc, mine, heard>>
  BY HostEffect DEF Leaves, Announces, GoesOn, OnlyCell
<1>2. CASE ~Publish(c)
  <2>1. UNCHANGED <<moved, prefer, pub>>
    BY <1>2 DEF HostStep, Poll, Receive, Idle, IdleContinue, IdleFlush, Record, Expire, Fail,
       Settle, FailAndExit, callerVars, cellVars
  <2>2. QED
    BY <1>1, <2>1
<1>3. CASE Publish(c)
  <2>1. /\ UNCHANGED prefer /\ host[c] = "publish"
        /\ \/ UNCHANGED <<pub, moved>>
           \/ pub' = [pub EXCEPT ![c] = note[c]] /\ Notify(c)
    BY <1>3 DEF Publish, FailAndExit, cellVars
  <2>2. CASE UNCHANGED <<pub, moved>>
    BY <1>1, <2>1, <2>2
  <2>3. CASE pub' = [pub EXCEPT ![c] = note[c]] /\ Notify(c)
    <3>1. /\ pub'[c] = note[c] /\ \A d : d # c => pub'[d] = pub[d]
          /\ note[c].upto = Len(shown[c])
      BY <2>1, <2>3, CellFunctions DEF CodeInv, NoteIsLatest
    <3>2. CASE mine = c
      BY <1>1, <2>1, <2>3, <3>1, <3>2, SummaryNumbers DEF Notify
    <3>3. CASE mine # c
      BY <1>1, <2>1, <2>3, <3>1, <3>3 DEF Notify
    <3>4. QED
      BY <3>2, <3>3
  <2>4. QED
    BY <2>1, <2>2, <2>3
<1>4. QED
  BY <1>1, <1>2, <1>3

(* The calls keep it so.                                                   *)
LEMMA CallFollows ==
  ASSUME CodeInv, CallerFollows, NothingHeardBefore, CallStep \/ CallerStep
  PROVE  CallerFollows'
<1> USE DEF CallerFollows
<1>1. CASE ExecReply \/ WaitInterrupt \/ Read \/ Stop
  BY <1>1 DEF ExecReply, WaitInterrupt, Read, Stop, Return
<1>2. CASE Abort
  BY <1>2 DEF Abort, Return
<1>3. CASE WaitWake \/ WaitTimeout
  BY <1>3 DEF WaitWake, WaitTimeout, cellVars
<1>4. CASE ExecGiveUp \/ CancelIdle
  BY <1>4 DEF ExecGiveUp, CancelIdle
<1>5. CASE WaitEnded
  BY <1>5 DEF WaitEnded, callerVars
<1>6. CASE Wait
  <2>1. /\ active \in Cells /\ ~Ended(active) /\ heard[active].life \notin Lives
    BY <1>6 DEF Wait, CodeInv, TypeOK, SessionTypes, SummariesHonest, Ended
  <2>2. QED
    BY <1>6, <2>1 DEF Wait
<1>7. CASE Exec
  <2>1. /\ nextCell \in Cells /\ phase[nextCell] = "Absent"
    BY <1>7 DEF Exec, CodeInv, CellsStart, TypeOK, SessionTypes, Cells
  <2>2. /\ heard[nextCell] = NoSummary /\ mine' = nextCell /\ UNCHANGED <<heard, moved, prefer>>
        /\ pc = "idle" /\ pc' = "awaiting"
    BY <1>7, <2>1 DEF Exec, NothingHeardBefore
  <2>3. QED
    BY <2>1, <2>2
<1>8. QED
  BY <1>1, <1>2, <1>3, <1>4, <1>5, <1>6, <1>7 DEF CallStep, CallerStep

(* What the caller hears of a cell, each time.                             *)
HeardAdvances ==
  \A c \in Cells : heard'[c] # heard[c] =>
    /\ phase[c] # "Absent"
    /\ heard'[c].upto >= heard[c].upto
    /\ heard[c].life \in Lives => heard'[c].life = heard[c].life

(* What is heard next is no less than what was heard.                      *)
LEMMA HearAdvances ==
  ASSUME CodeInv, CallerFollows, NothingHeardBefore, [Next]_vars, NoteIsLatest
  PROVE  HeardAdvances
<1> DEFINE Told(c, s) == /\ \A d \in Cells : d # c => heard'[d] = heard[d]
                         /\ heard'[c] \in {heard[c], s}
<1>0. DOMAIN heard = Cells
  BY DEF CodeInv, TypeOK, CallerTypes
<1>1. ASSUME NEW c \in Cells, phase[c] # "Absent", Told(c, Snapshot(c)) PROVE HeardAdvances
  <2>1. /\ Snapshot(c).upto >= heard[c].upto
        /\ heard[c].life \in Lives => Snapshot(c).life = heard[c].life
    BY SummaryNumbers DEF CodeInv, SummariesHonest, Snapshot, Lifecycle
  <2>2. QED
    BY <1>1, <2>1 DEF HeardAdvances
<1>2. CASE UNCHANGED heard
  BY <1>2 DEF HeardAdvances
<1>3. CASE ExecReply
  <2>1. /\ pc = "awaiting" /\ mine \in Cells /\ heard[mine] = NoSummary
        /\ reply[mine] # NoSummary /\ reply[mine] \in Summary \cup {HostError}
    BY <1>3 DEF ExecReply, CodeInv, TypeOK, CallerTypes, CallerFollows, HostTypes
  <2>2. CASE reply[mine] = HostError
    BY <1>2, <1>3, <2>2 DEF ExecReply
  <2>3. CASE reply[mine] # HostError
    <3>1. /\ \A d \in Cells : d # mine => heard'[d] = heard[d]
          /\ heard'[mine] = reply[mine]
      BY <1>0, <1>3, <2>1, <2>3 DEF ExecReply, Hear
    <3>2. /\ reply[mine].upto \in Nat /\ heard[mine].upto = 0
          /\ heard[mine].life \notin Lives
      BY <2>1, SummaryNumbers, NoPhaseMix DEF NoSummary
    <3>3. phase[mine] # "Absent"
      BY <2>1 DEF NothingHeardBefore
    <3>4. QED
      BY <3>1, <3>2, <3>3 DEF HeardAdvances
  <2>4. QED
    BY <2>2, <2>3
<1>4. CASE WaitEnded
  <2>1. active \in Cells /\ Ended(active)
    BY <1>4 DEF WaitEnded, CodeInv, TypeOK, SessionTypes
  <2>2. phase[active] # "Absent"
    BY <2>1, NoPhaseMix DEF Ended
  <2>3. Told(active, Snapshot(active))
    BY <1>0, <1>4, <2>1 DEF WaitEnded, Hear
  <2>4. QED
    BY <1>1, <2>1, <2>2, <2>3
<1>5. CASE Read
  <2>1. CASE active # mine
    BY <1>2, <1>5, <2>1 DEF Read
  <2>2. CASE active = mine
    <3>1. /\ mine \in Cells /\ pc = "reading" /\ heard[mine].life \notin Lives
          /\ prefer => moved
      BY <1>5 DEF Read, CodeInv, TypeOK, CallerTypes, CallerFollows
    <3>2. phase[mine] # "Absent"
      BY <3>1 DEF NothingHeardBefore
    <3>3. CASE prefer /\ pub[mine] # NoSummary
      <4>1. /\ Told(mine, pub[mine]) /\ pub[mine].upto >= heard[mine].upto
        BY <1>0, <1>5, <2>2, <3>1, <3>3 DEF Read, Hear, CallerFollows
      <4>2. QED
        BY <3>1, <3>2, <4>1 DEF HeardAdvances
    <3>4. CASE ~(prefer /\ pub[mine] # NoSummary)
      <4>1. Told(mine, Snapshot(mine))
        BY <1>0, <1>5, <2>2, <3>1, <3>4 DEF Read, Hear
      <4>2. QED
        BY <1>1, <3>1, <3>2, <4>1
    <3>5. QED
      BY <3>3, <3>4
  <2>3. QED
    BY <2>1, <2>2
<1>6. ASSUME NEW c \in Cells, HostStep(c) PROVE UNCHANGED heard
  BY <1>6, HostFollows
<1>7. ASSUME NEW c \in Cells, WorkerStep(c) \/ Deadline(c) PROVE UNCHANGED heard
  BY <1>7 DEF WorkerStep, EmitText, EmitMark, StartTool, EndTool, Flood, Complete, Deadline
<1>8. CASE Abort \/ Stop \/ WaitWake \/ Exec \/ ExecGiveUp \/ CancelIdle \/ Wait \/ WaitTimeout
           \/ WaitInterrupt
  BY <1>2, <1>8 DEF Abort, Stop, WaitWake, Exec, ExecGiveUp, CancelIdle, Wait, WaitTimeout,
     WaitInterrupt
<1>9. QED
  BY <1>2, <1>3, <1>4, <1>5, <1>6, <1>7, <1>8 DEF Next, CallStep, CallerStep, vars

(* Nothing is heard of a cell before it starts.                            *)
LEMMA NothingHeardStep ==
  ASSUME CodeInv, NothingHeardBefore, HeardAdvances, [Next]_vars
  PROVE  NothingHeardBefore'
<1> SUFFICES ASSUME NEW c \in Cells, phase'[c] = "Absent"
             PROVE  heard'[c] = NoSummary /\ active' # c /\ mine' # c
  BY DEF NothingHeardBefore
<1>1. ASSUME phase[c] = "Absent", active' \in {active, NoCell},
             mine' \in {mine, NoCell, active}
      PROVE  heard'[c] = NoSummary /\ active' # c /\ mine' # c
  BY <1>1 DEF NothingHeardBefore, HeardAdvances, NoCell, Cells
<1>2. ASSUME NEW d \in Cells, HostStep(d)
      PROVE  heard'[c] = NoSummary /\ active' # c /\ mine' # c
  BY <1>1, <1>2, HostEffect, NoPhaseMix DEF Leaves, Announces, GoesOn, OnlyCell, CodeInv,
     CellsStart
<1>3. ASSUME NEW d \in Cells, WorkerStep(d) \/ Deadline(d)
      PROVE  heard'[c] = NoSummary /\ active' # c /\ mine' # c
  BY <1>1, <1>3 DEF WorkerStep, EmitText, EmitMark, StartTool, EndTool, Flood, Complete,
     Deadline, session, cellVars, callerVars
<1>4. CASE Exec
  <2>1. /\ active' = nextCell /\ mine' = nextCell /\ UNCHANGED heard /\ nextCell \in Cells
        /\ phase' = [phase EXCEPT ![nextCell] = "Running"] /\ phase \in [Cells -> CellPhase]
    BY <1>4 DEF Exec, CodeInv, TypeOK, CellTypes
  <2>2. c # nextCell /\ phase[c] = "Absent"
    BY <2>1
  <2>3. QED
    BY <2>1, <2>2 DEF NothingHeardBefore
<1>5. CASE (CallStep \/ CallerStep) /\ ~Exec
  BY <1>1, <1>5 DEF CallStep, CallerStep, ExecReply, Abort, Stop, WaitWake, Read, ExecGiveUp,
     CancelIdle, WaitEnded, Wait, WaitTimeout, WaitInterrupt, Return, session, cellVars,
     callerVars
<1>6. CASE UNCHANGED vars
  BY <1>1, <1>6 DEF vars, session, cellVars, callerVars
<1>7. QED
  BY <1>2, <1>3, <1>4, <1>5, <1>6 DEF Next

(* Every step keeps the invariant, and what it tells advances.             *)
LEMMA RepliesStep == RepliesInv /\ [Next]_vars => RepliesInv' /\ HeardAdvances
<1> SUFFICES ASSUME RepliesInv, [Next]_vars PROVE RepliesInv' /\ HeardAdvances
  OBVIOUS
<1>1. CodeInv' /\ NoteIsLatest' /\ HeardAdvances
  BY NextInv, NoteStep, HearAdvances DEF RepliesInv
<1>2. NothingHeardBefore'
  BY <1>1, NothingHeardStep DEF RepliesInv
<1>3. CallerFollows'
  <2>1. ASSUME NEW c \in Cells, HostStep(c) PROVE CallerFollows'
    BY <2>1, HostFollows DEF RepliesInv
  <2>2. ASSUME NEW c \in Cells, WorkerStep(c) \/ Deadline(c) PROVE CallerFollows'
    BY <2>2 DEF RepliesInv, WorkerStep, EmitText, EmitMark, StartTool, EndTool, Flood,
       Complete, Deadline, CallerFollows, cellVars, callerVars
  <2>3. CASE CallStep \/ CallerStep
    BY <2>3, CallFollows DEF RepliesInv
  <2>4. CASE UNCHANGED vars
    BY <2>4 DEF RepliesInv, CallerFollows, vars, cellVars, callerVars
  <2>5. QED
    BY <2>1, <2>2, <2>3, <2>4 DEF Next
<1>4. QED
  BY <1>1, <1>2, <1>3 DEF RepliesInv

(* The caller's view of a cell never goes back, although replies mix       *)
(* snapshots, publications and the initial answer: what is published while *)
(* a wait sleeps is at least what was heard before, and no wait begins     *)
(* after the end was heard (read_cell_summary).                            *)
THEOREM RepliesCorrect == Spec => RepliesAdvance
<1>1. Init => RepliesInv
  <2> SUFFICES ASSUME Init PROVE NoteIsLatest /\ CallerFollows /\ NothingHeardBefore
    BY InitInv DEF RepliesInv
  <2> USE DEF Init
  <2>1. NoteIsLatest /\ CallerFollows
    BY DEF NoteIsLatest, CallerFollows
  <2>2. NothingHeardBefore
    BY DEF NothingHeardBefore, NoCell, Cells
  <2>3. QED
    BY <2>1, <2>2
<1>2. HeardAdvances => [\A c \in Cells : heard'[c] # heard[c] =>
         /\ heard'[c].upto >= heard[c].upto
         /\ heard[c].life \in Lives => heard'[c].life = heard[c].life]_vars
  BY DEF HeardAdvances
<1>3. QED
  BY <1>1, <1>2, RepliesStep, PTL DEF Spec, RepliesAdvance

=============================================================================
