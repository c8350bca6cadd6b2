------------------------------- MODULE CodeMode -------------------------------
(***************************************************************************)
(* Code mode (src/src/code_mode/): the JavaScript cells of one session.    *)
(*                                                                         *)
(* exec starts a cell: a worker thread that runs the script and sends      *)
(* events over an unbounded channel, and a host task that receives them,   *)
(* records them in the session and publishes summaries.  exec returns with *)
(* the first publication that unblocks it; wait observes later ones.  The  *)
(* session issues one call at a time, so the actors are its caller, and    *)
(* the worker and the host of every cell started so far: an aborted cell's *)
(* host and worker go on beside those of its successor.  A step is the     *)
(* code between two acquisitions of the sessions lock.  Sessions share     *)
(* nothing but that lock.                                                  *)
(*                                                                         *)
(* Text and notifications are one kind of event, "text", numbered in the   *)
(* order the script emits them; a summary is the lifecycle it reports and  *)
(* how many of them it shows.  The 8000-character window on a summary and  *)
(* the notice about a capped timeout are left out.                         *)
(*                                                                         *)
(* A definition marked "Mutant" is the mistake its neighbour could contain *)
(* and that a property below must notice; nothing uses it.                 *)
(***************************************************************************)
EXTENDS Integers, Sequences

CONSTANTS
  MaxCells,   \* how many cells the session starts
  MaxEvents,  \* how many text events a script emits
  MaxMarks,   \* how many flushes, timers and nested tool calls it reaches
  Moves       \* what scripts, users and clock do in this instance

ASSUME ConstantsAssumption ==
  /\ MaxCells \in Nat \ {0} /\ MaxEvents \in Nat /\ MaxMarks \in Nat
  /\ Moves \subseteq {"flush", "timer", "tool", "autoflush", "flood", "limit",
                      "interrupt", "deadline"}

Cells == 1..MaxCells
NoCell == 0

Lives == {"Completed", "Failed", "Cancelled"}
CellPhase == {"Absent", "Running", "WaitingOnTool", "WaitingOnTimer"} \cup Lives

(* What a summary says: to_exec_result of a snapshot.                      *)
Summary == [life : Lives \cup {"Running"}, upto : Nat]
NoSummary == [life |-> "none", upto |-> 0]
HostError == [life |-> "error", upto |-> 0]

(* The events of a script: marks are everything but text, and the last one *)
(* is the result of run_cell.                                              *)
Marks == {"flush", "timer", "tool", "done"}
Results == Lives \cup {"Error"}
Event == [kind : {"text"} \cup Marks \cup Results, seq : Nat]
Mark(kind) == [kind |-> kind, seq |-> 0]

(* Why the host publishes, or records: the event that ended the batch, an  *)
(* idle flush, or the runtime limit.                                       *)
Cues == {"none", "flush", "timer", "tool", "idle", "deadline"} \cup Results

HostPc == {"absent", "poll", "next", "idle", "record", "expire", "fail",
           "publish", "exited"}
CallerPc == {"idle", "awaiting", "aborting", "stopping", "watching", "reading"}

VARIABLES
  active,    \* session.active_cell and session.host_handle, set together
  nextCell,  \* session.next_cell_seq
  stored,    \* session.stored_values: the cells whose writes it holds
  phase,     \* active_cell.phase
  shown,     \* active_cell.events: the text events recorded, by number
  pub,       \* active_cell.last_publication
  cancel,    \* cancel_flag and cancel_tx of the cell
  chan,      \* the event channel
  emitted,   \* how many text events the script has emitted
  marks,     \* how many marks
  calls,     \* the nested tool calls in progress
  base,      \* the clone of stored_values the cell started from
  worker,    \* "absent", "running", "flooding" or "ended"
  host,      \* the step the host task takes next
  batch,     \* the text events collected in next_update and not yet recorded
  cue,       \* what ended the batch
  note,      \* the summary to publish
  fresh,     \* PublicationTracker.has_unpublished_progress
  late,      \* the cell's deadline has passed
  reply,     \* the oneshot of execute
  pc,        \* the step the caller takes next
  mine,      \* the cell its call is about
  moved,     \* CellHostHandle.revision is past the one its wait has read
  prefer,    \* prefer_publication
  heard      \* the last summary of each cell that reached the caller

session    == <<active, nextCell, stored>>
cellVars   == <<phase, shown, pub>>
workerVars == <<chan, emitted, marks, calls, worker>>
hostVars   == <<host, batch, cue, note, fresh>>
callerVars == <<pc, mine, moved, prefer>>
vars == <<session, cellVars, workerVars, hostVars, callerVars,
          cancel, base, late, reply, heard>>

Ended(c) == phase[c] \in Lives

(* Mutant: any active cell will do.                                        *)
HoldsAny(c) == active # NoCell

(* require_active_cell: the session still holds this cell.                 *)
Holds(c) == active = c

Lifecycle(p) == IF p \in Lives THEN p ELSE "Running"

(* Mutant: what has been put aside counts as recorded.                     *)
SnapshotEager(c) == [life |-> Lifecycle(phase[c]),
                     upto |-> Len(shown[c]) + Len(batch[c])]

Snapshot(c) == [life |-> Lifecycle(phase[c]), upto |-> Len(shown[c])]

Init ==
  /\ active = NoCell /\ nextCell = 1 /\ stored = {}
  /\ phase = [c \in Cells |-> "Absent"]
  /\ shown = [c \in Cells |-> <<>>]
  /\ pub = [c \in Cells |-> NoSummary]
  /\ cancel = [c \in Cells |-> FALSE]
  /\ chan = [c \in Cells |-> <<>>]
  /\ emitted = [c \in Cells |-> 0]
  /\ marks = [c \in Cells |-> 0]
  /\ calls = [c \in Cells |-> 0]
  /\ base = [c \in Cells |-> {}]
  /\ worker = [c \in Cells |-> "absent"]
  /\ host = [c \in Cells |-> "absent"]
  /\ batch = [c \in Cells |-> <<>>]
  /\ cue = [c \in Cells |-> "none"]
  /\ note = [c \in Cells |-> NoSummary]
  /\ fresh = [c \in Cells |-> FALSE]
  /\ late = [c \in Cells |-> FALSE]
  /\ reply = [c \in Cells |-> NoSummary]
  /\ pc = "idle" /\ mine = NoCell /\ moved = FALSE /\ prefer = FALSE
  /\ heard = [c \in Cells |-> NoSummary]

-----------------------------------------------------------------------------
(* The worker: run_cell and the callbacks the script reaches the host by.  *)
(* What a script does after its host is gone reaches nobody and is left    *)
(* out, but for its end.                                                   *)

Running(c) == worker[c] = "running" /\ host[c] # "exited"

Send(c, events) == chan' = [chan EXCEPT ![c] = @ \o events]

EmitText(c) ==
  /\ Running(c) /\ emitted[c] < MaxEvents
  /\ emitted' = [emitted EXCEPT ![c] = @ + 1]
  /\ Send(c, <<[kind |-> "text", seq |-> emitted[c] + 1]>>)
  /\ UNCHANGED <<session, cellVars, marks, calls, worker, hostVars, callerVars,
                 cancel, base, late, reply, heard>>

(* flush(), and a timer the pump has to wait for.                          *)
EmitMark(c) ==
  /\ Running(c) /\ marks[c] < MaxMarks
  /\ \E kind \in {"flush", "timer"} \cap Moves : Send(c, <<Mark(kind)>>)
  /\ marks' = [marks EXCEPT ![c] = @ + 1]
  /\ UNCHANGED <<session, cellVars, emitted, calls, worker, hostVars, callerVars,
                 cancel, base, late, reply, heard>>

(* call_tool announces the request, and refuses it at once when the cell   *)
(* is cancelled or out of time (or the arguments do not parse).            *)
StartTool(c) ==
  /\ "tool" \in Moves /\ Running(c) /\ marks[c] < MaxMarks
  /\ marks' = [marks EXCEPT ![c] = @ + 1]
  /\ \/ /\ ~cancel[c] /\ ~late[c]
        /\ Send(c, <<Mark("tool")>>)
        /\ calls' = [calls EXCEPT ![c] = @ + 1]
     \/ Send(c, <<Mark("tool"), Mark("done")>>) /\ UNCHANGED calls
  /\ UNCHANGED <<session, cellVars, emitted, worker, hostVars, callerVars,
                 cancel, base, late, reply, heard>>

(* Mutant: the end of a call that was refused is announced again.          *)
EndToolAgain(c) ==
  /\ Running(c)
  /\ calls' = [calls EXCEPT ![c] = @ - 1]
  /\ Send(c, <<Mark("done")>>)
  /\ UNCHANGED <<session, cellVars, emitted, marks, worker, hostVars, callerVars,
                 cancel, base, late, reply, heard>>

EndTool(c) ==
  /\ Running(c) /\ calls[c] > 0
  /\ calls' = [calls EXCEPT ![c] = @ - 1]
  /\ Send(c, <<Mark("done")>>)
  /\ UNCHANGED <<session, cellVars, emitted, marks, worker, hostVars, callerVars,
                 cancel, base, late, reply, heard>>

(* From here on the script emits text for ever, faster than any timeout.   *)
(* The text that this adds is not told apart.                              *)
Flood(c) ==
  /\ "flood" \in Moves /\ Running(c)
  /\ worker' = [worker EXCEPT ![c] = "flooding"]
  /\ UNCHANGED <<session, cellVars, chan, emitted, marks, calls, hostVars, callerVars,
                 cancel, base, late, reply, heard>>

(* The script returns or throws; a cancelled one is interrupted (Error) or *)
(* told so by its timer pump (Cancelled).  run_cell can also fail by       *)
(* itself, on a syntax error or a result that is not JSON.                 *)
Complete(c) ==
  /\ worker[c] \in {"running", "flooding"}
  /\ \E r \in Results :
       /\ r = "Cancelled" => cancel[c]
       /\ worker[c] = "flooding" => cancel[c] /\ r = "Error"
       /\ IF host[c] = "exited" THEN UNCHANGED chan ELSE Send(c, <<Mark(r)>>)
  /\ worker' = [worker EXCEPT ![c] = "ended"]
  /\ UNCHANGED <<session, cellVars, emitted, marks, calls, hostVars, callerVars,
                 cancel, base, late, reply, heard>>

-----------------------------------------------------------------------------
(* The host task: perform_cell_host_loop.                                  *)

Goto(c, step) == host' = [host EXCEPT ![c] = step]

Forget(c) == /\ cue' = [cue EXCEPT ![c] = "none"]
             /\ note' = [note EXCEPT ![c] = NoSummary]

(* The host task ends, and with it its locals and the channel; what a      *)
(* script does without a host is not counted any more.                     *)
Exit(c) ==
  /\ Goto(c, "exited") /\ Forget(c)
  /\ batch' = [batch EXCEPT ![c] = <<>>]
  /\ fresh' = [fresh EXCEPT ![c] = FALSE]
  /\ chan' = [chan EXCEPT ![c] = <<>>]
  /\ marks' = [marks EXCEPT ![c] = 0]
  /\ calls' = [calls EXCEPT ![c] = 0]

(* Mutant: a host error leaves exec unanswered.                            *)
AnswerButError(c, r) ==
  reply' = [reply EXCEPT ![c] = IF @ = NoSummary /\ pc = "awaiting" /\ mine = c
                                   /\ cue[c] # "Error"
                                THEN r ELSE @]

(* publish_initial and fail_initial: only the first one is sent, and only  *)
(* an exec that still waits receives it.                                   *)
Answer(c, r) ==
  reply' = [reply EXCEPT ![c] = IF @ = NoSummary /\ pc = "awaiting" /\ mine = c
                                THEN r ELSE @]

(* fail_and_exit: the session no longer holds the cell.                    *)
FailAndExit(c) ==
  /\ ~Holds(c)
  /\ Answer(c, HostError)
  /\ Exit(c)
  /\ UNCHANGED <<session, cellVars>>

(* The summary a critical section takes of the cell it has just changed.   *)
Announce(c, why, life, upto) ==
  /\ cue' = [cue EXCEPT ![c] = why]
  /\ note' = [note EXCEPT ![c] = [life |-> life, upto |-> upto]]
  /\ Goto(c, "publish")

(* Mutant: the deadline ends the loop but does not cancel the worker.      *)
PollUncancelled(c) ==
  /\ host[c] = "poll"
  /\ Goto(c, IF late[c] THEN "expire" ELSE "next")
  /\ UNCHANGED <<session, cellVars, workerVars, batch, cue, note, fresh, callerVars,
                 cancel, base, late, reply, heard>>

(* Mutant: the deadline is not looked at.                                  *)
PollForever(c) ==
  /\ host[c] = "poll"
  /\ Goto(c, "next")
  /\ UNCHANGED <<session, cellVars, workerVars, batch, cue, note, fresh, callerVars,
                 cancel, base, late, reply, heard>>

(* The top of the loop: past the deadline the cell is cancelled.           *)
Poll(c) ==
  /\ host[c] = "poll"
  /\ Goto(c, IF late[c] THEN "expire" ELSE "next")
  /\ cancel' = [cancel EXCEPT ![c] = @ \/ late[c]]
  /\ UNCHANGED <<session, cellVars, workerVars, batch, cue, note, fresh, callerVars,
                 base, late, reply, heard>>

(* next_update takes one event.  Text and finished tool calls are put      *)
(* aside, everything else ends the batch; an Err of the worker drops it.   *)
Receive(c) ==
  /\ host[c] = "next" /\ chan[c] # <<>>
  /\ LET event == Head(chan[c]) IN
       /\ batch' = [batch EXCEPT ![c] =
                      CASE event.kind = "Error" -> <<>>
                        [] event.kind = "text"  -> Append(@, event.seq)
                        [] OTHER                -> @]
       /\ cue' = [cue EXCEPT ![c] =
                    IF event.kind \in {"text", "done"} THEN @ ELSE event.kind]
       /\ Goto(c, CASE event.kind \in {"text", "done"} -> "next"
                    [] event.kind = "Error"           -> "fail"
                    [] OTHER                          -> "record")
  /\ chan' = [chan EXCEPT ![c] = Tail(@)]
  /\ UNCHANGED <<session, cellVars, emitted, marks, calls, worker, note, fresh,
                 callerVars, cancel, base, late, reply, heard>>

AutoFlush(c) == "autoflush" \in Moves /\ fresh[c]

(* The idle timeout, which restarts with every event, comes first: the     *)
(* update it returns has no events, whatever has been put aside.           *)
Idle(c) ==
  /\ host[c] = "next" /\ worker[c] # "flooding" /\ (late[c] \/ AutoFlush(c))
  /\ batch' = [batch EXCEPT ![c] = <<>>]
  /\ Goto(c, "idle")
  /\ UNCHANGED <<session, cellVars, workerVars, cue, note, fresh,
                 callerVars, cancel, base, late, reply, heard>>

(* The interval may not have elapsed: then the loop continues.             *)
IdleContinue(c) ==
  /\ host[c] = "idle"
  /\ Goto(c, "poll")
  /\ UNCHANGED <<session, cellVars, workerVars, batch, cue, note, fresh, callerVars,
                 cancel, base, late, reply, heard>>

IdleFlush(c) ==
  /\ host[c] = "idle" /\ AutoFlush(c)
  /\ \/ FailAndExit(c)
     \/ /\ Holds(c)
        /\ Announce(c, "idle", Snapshot(c).life, Snapshot(c).upto)
        /\ fresh' = [fresh EXCEPT ![c] = FALSE]
        /\ UNCHANGED <<session, cellVars, chan, marks, calls, batch, reply>>
  /\ UNCHANGED <<emitted, worker, callerVars, cancel, base, late, heard>>

(* update_phase_from_event: the last event of the batch decides.           *)
PhaseAfter(p, kind) == CASE kind = "tool"  -> "WaitingOnTool"
                         [] kind = "timer" -> "WaitingOnTimer"
                         [] OTHER -> IF p \in Lives THEN p ELSE "Running"

(* Mutant: the recorded events stay in the batch.                          *)
RecordTwice(c) ==
  /\ shown' = [shown EXCEPT ![c] = @ \o batch[c]]
  /\ phase' = [phase EXCEPT ![c] =
                 IF cue[c] \in Lives THEN cue[c] ELSE PhaseAfter(@, cue[c])]
  /\ stored' = IF cue[c] \in Lives THEN base[c] \cup {c} ELSE stored
  /\ UNCHANGED batch

(* record_driver_update_in_session: the batch, and the result with the     *)
(* script's stored values.                                                 *)
RecordBatch(c) ==
  /\ shown' = [shown EXCEPT ![c] = @ \o batch[c]]
  /\ phase' = [phase EXCEPT ![c] =
                 IF cue[c] \in Lives THEN cue[c] ELSE PhaseAfter(@, cue[c])]
  /\ stored' = IF cue[c] \in Lives THEN base[c] \cup {c} ELSE stored
  /\ batch' = [batch EXCEPT ![c] = <<>>]

(* Whether the batch brought progress that no publication shows.           *)
Progress(c) == fresh[c] \/ batch[c] # <<>>

(* The batch is recorded, and its end decides what follows: a flush, a     *)
(* tool request and a result are published, a timer only when an automatic *)
(* flush is due.                                                           *)
Record(c) ==
  /\ host[c] = "record"
  /\ \/ FailAndExit(c)
     \/ /\ Holds(c)
        /\ RecordBatch(c)
        /\ \/ /\ cue[c] # "timer"
              /\ Announce(c, cue[c], Lifecycle(phase'[c]), Len(shown'[c]))
              /\ fresh' = [fresh EXCEPT ![c] = cue[c] # "flush" /\ Progress(c)]
           \/ /\ cue[c] = "timer" /\ "autoflush" \in Moves /\ Progress(c)
              /\ Announce(c, "idle", Lifecycle(phase'[c]), Len(shown'[c]))
              /\ fresh' = [fresh EXCEPT ![c] = FALSE]
           \/ /\ cue[c] = "timer"
              /\ Goto(c, "poll")
              /\ fresh' = [fresh EXCEPT ![c] = Progress(c)]
              /\ Forget(c)
        /\ UNCHANGED <<active, nextCell, pub, chan, marks, calls, reply>>
  /\ UNCHANGED <<emitted, worker, callerVars, cancel, base, late, heard>>

(* record_cell_cancellation_in_session and record_host_error_in_session.   *)
Settle(c, life, why) ==
  \/ FailAndExit(c)
  \/ /\ Holds(c)
     /\ phase' = [phase EXCEPT ![c] = life]
     /\ Announce(c, why, life, Len(shown[c]))
     /\ UNCHANGED <<session, shown, pub, chan, marks, calls, batch, fresh, reply>>

Expire(c) ==
  /\ host[c] = "expire"
  /\ Settle(c, "Cancelled", "deadline")
  /\ UNCHANGED <<emitted, worker, callerVars, cancel, base, late, heard>>

Fail(c) ==
  /\ host[c] = "fail"
  /\ Settle(c, "Failed", "Error")
  /\ UNCHANGED <<emitted, worker, callerVars, cancel, base, late, heard>>

(* Mutant: the loop goes on after a host error.                            *)
LastButError(c) == cue[c] \in Lives \cup {"deadline"}

(* After these publications the loop returns.                              *)
Last(c) == cue[c] \in Results \cup {"deadline"}

(* Mutant: the last publication does not move the revision.                *)
NotifyButLast(c) == moved' = (moved \/ (pc = "watching" /\ mine = c /\ ~Last(c)))

(* publish_update: the revision moves on, and a waiter is woken.           *)
Notify(c) == moved' = (moved \/ (pc = "watching" /\ mine = c))

(* publish_summary_update, then publish_initial unless it was a tool       *)
(* request.  A host error is answered even when it cannot be published.    *)
Publish(c) ==
  /\ host[c] = "publish"
  /\ \/ cue[c] # "Error" /\ FailAndExit(c) /\ UNCHANGED moved
     \/ /\ Holds(c)
        /\ pub' = [pub EXCEPT ![c] = note[c]]
        /\ Notify(c)
        /\ IF cue[c] = "tool" THEN UNCHANGED reply ELSE Answer(c, note[c])
        /\ IF Last(c) THEN Exit(c)
           ELSE Goto(c, "poll") /\ Forget(c) /\ UNCHANGED <<batch, fresh, chan, marks, calls>>
        /\ UNCHANGED <<session, phase, shown>>
     \/ /\ ~Holds(c) /\ cue[c] = "Error"
        /\ Answer(c, note[c])
        /\ Exit(c)
        /\ UNCHANGED <<session, cellVars, moved>>
  /\ UNCHANGED <<emitted, worker, pc, mine, prefer, cancel, base, late, heard>>

(* The cell's runtime limit passes.                                        *)
Deadline(c) ==
  /\ "deadline" \in Moves /\ ~late[c] /\ host[c] \notin {"absent", "exited"}
  /\ late' = [late EXCEPT ![c] = TRUE]
  /\ UNCHANGED <<session, cellVars, workerVars, hostVars, callerVars,
                 cancel, base, reply, heard>>

-----------------------------------------------------------------------------
(* The caller: the exec and wait calls of dispatch_tool_call, and aborts.  *)

(* The call returns, having told the caller what it learned of a cell.     *)
Return == pc' = "idle" /\ mine' = NoCell
          /\ moved' = FALSE /\ prefer' = FALSE

(* A cell that leaves its session takes its last publication with it.      *)
Drop(c) == pub' = [d \in Cells |-> IF d = c THEN NoSummary ELSE pub[d]]

Hear(c, summary) == heard' = [heard EXCEPT ![c] = summary]

(* Mutant: exec replaces whatever cell is there.                           *)
ExecAlways ==
  /\ pc = "idle" /\ nextCell \in Cells
  /\ LET c == nextCell IN
       /\ active' = c /\ nextCell' = c + 1
       /\ phase' = [phase EXCEPT ![c] = "Running"]
       /\ base' = [base EXCEPT ![c] = stored]
       /\ worker' = [worker EXCEPT ![c] = "running"]
       /\ host' = [host EXCEPT ![c] = "poll"]
       /\ mine' = c
  /\ pc' = "awaiting"
  /\ Drop(active)
  /\ UNCHANGED <<stored, shown, chan, emitted, marks, calls, batch, cue,
                 note, fresh, moved, prefer, cancel, late, reply, heard>>

(* A cell that has ended makes way for the next one.                       *)
Exec ==
  /\ pc = "idle" /\ nextCell \in Cells
  /\ active # NoCell => Ended(active)
  /\ LET c == nextCell IN
       /\ active' = c /\ nextCell' = c + 1
       /\ phase' = [phase EXCEPT ![c] = "Running"]
       /\ base' = [base EXCEPT ![c] = stored]
       /\ worker' = [worker EXCEPT ![c] = "running"]
       /\ host' = [host EXCEPT ![c] = "poll"]
       /\ mine' = c
  /\ pc' = "awaiting"
  /\ Drop(active)
  /\ UNCHANGED <<stored, shown, chan, emitted, marks, calls, batch, cue,
                 note, fresh, moved, prefer, cancel, late, reply, heard>>

ExecReply ==
  /\ pc = "awaiting" /\ reply[mine] # NoSummary
  /\ IF reply[mine] = HostError THEN UNCHANGED heard ELSE Hear(mine, reply[mine])
  /\ reply' = [reply EXCEPT ![mine] = NoSummary]
  /\ Return
  /\ UNCHANGED <<session, cellVars, workerVars, hostVars, cancel, base, late>>

(* The user interrupts exec, or it outlives the cell's limit by 5 s.       *)
ExecGiveUp ==
  /\ pc = "awaiting" /\ ("interrupt" \in Moves \/ late[mine])
  /\ pc' = "aborting"
  /\ reply' = [reply EXCEPT ![mine] = NoSummary]
  /\ UNCHANGED <<session, cellVars, workerVars, hostVars, mine, moved, prefer,
                 cancel, base, late, heard>>

(* The session is cancelled between two calls.                             *)
CancelIdle ==
  /\ "interrupt" \in Moves /\ pc = "idle"
  /\ pc' = "aborting"
  /\ UNCHANGED <<session, cellVars, workerVars, hostVars, mine, moved, prefer,
                 cancel, base, late, reply, heard>>

(* abort_active_cell takes the cell out of the session ...                 *)
Abort ==
  /\ pc = "aborting"
  /\ IF active = NoCell
     THEN Return /\ UNCHANGED <<active, pub>>
     ELSE /\ active' = NoCell /\ Drop(active)
          /\ pc' = "stopping" /\ mine' = active
          /\ UNCHANGED <<moved, prefer>>
  /\ UNCHANGED <<nextCell, stored, phase, shown, workerVars, hostVars,
                 cancel, base, late, reply, heard>>

(* ... and cancels its worker after the lock is released.                  *)
Stop ==
  /\ pc = "stopping"
  /\ cancel' = [cancel EXCEPT ![mine] = TRUE]
  /\ Return
  /\ UNCHANGED <<session, cellVars, workerVars, hostVars, base, late, reply, heard>>

(* Mutant: the last publication is returned.                               *)
WaitEndedStale ==
  /\ pc = "idle" /\ active # NoCell /\ Ended(active)
  /\ Hear(active, IF pub[active] # NoSummary THEN pub[active] ELSE Snapshot(active))
  /\ active' = NoCell /\ Drop(active)
  /\ UNCHANGED <<nextCell, stored, phase, shown, workerVars, hostVars, callerVars,
                 cancel, base, late, reply>>

(* wait on a cell that has ended returns the snapshot and clears it ...    *)
WaitEnded ==
  /\ pc = "idle" /\ active # NoCell /\ Ended(active)
  /\ Hear(active, Snapshot(active))
  /\ active' = NoCell /\ Drop(active)
  /\ UNCHANGED <<nextCell, stored, phase, shown, workerVars, hostVars, callerVars,
                 cancel, base, late, reply>>

(* ... and on a live one sleeps until the revision moves.                  *)
Wait ==
  /\ pc = "idle" /\ active # NoCell /\ ~Ended(active)
  /\ pc' = "watching" /\ mine' = active
  /\ UNCHANGED <<session, cellVars, workerVars, hostVars, moved, prefer,
                 cancel, base, late, reply, heard>>

WaitWake ==
  /\ pc = "watching" /\ moved
  /\ pc' = "reading" /\ prefer' = TRUE
  /\ UNCHANGED <<session, cellVars, workerVars, hostVars, mine, moved,
                 cancel, base, late, reply, heard>>

(* wait_timeout_ms elapses.                                                *)
WaitTimeout ==
  /\ "limit" \in Moves /\ pc = "watching"
  /\ pc' = "reading" /\ prefer' = FALSE
  /\ UNCHANGED <<session, cellVars, workerVars, hostVars, mine, moved,
                 cancel, base, late, reply, heard>>

(* An interrupted wait aborts nothing.                                     *)
WaitInterrupt ==
  /\ "interrupt" \in Moves /\ pc \in {"watching", "reading"}
  /\ Return
  /\ UNCHANGED <<session, cellVars, workerVars, hostVars,
                 cancel, base, late, reply, heard>>

(* read_cell_summary: the last publication or a snapshot, and the cell is  *)
(* cleared if it has ended by now.                                         *)
Read ==
  /\ pc = "reading"
  /\ IF active = mine
     THEN /\ Hear(mine, IF prefer /\ pub[mine] # NoSummary
                        THEN pub[mine] ELSE Snapshot(mine))
          /\ IF Ended(mine) THEN active' = NoCell /\ Drop(mine)
             ELSE UNCHANGED <<active, pub>>
     ELSE UNCHANGED <<active, pub, heard>>
  /\ Return
  /\ UNCHANGED <<nextCell, stored, phase, shown, workerVars, hostVars,
                 cancel, base, late, reply>>

-----------------------------------------------------------------------------
WorkerStep(c) == EmitText(c) \/ EmitMark(c) \/ StartTool(c) \/ EndTool(c)
                 \/ Flood(c) \/ Complete(c)

HostStep(c) == Poll(c) \/ Receive(c) \/ Idle(c) \/ IdleContinue(c) \/ IdleFlush(c)
               \/ Record(c) \/ Expire(c) \/ Fail(c) \/ Publish(c)

(* The steps of a call that nothing but the scheduler holds back.          *)
CallStep == ExecReply \/ Abort \/ Stop \/ WaitWake \/ Read

CallerStep == Exec \/ ExecGiveUp \/ CancelIdle \/ WaitEnded \/ Wait
              \/ WaitTimeout \/ WaitInterrupt

Next == \/ \E c \in Cells : WorkerStep(c) \/ HostStep(c) \/ Deadline(c)
        \/ CallStep \/ CallerStep

Spec == Init /\ [][Next]_vars

(* The executor runs every host task and a pending call, and time passes.  *)
(* Nothing makes a script go on, a nested tool return, or the user act;    *)
(* nor does exec's own timeout, five seconds after the cell's, have to     *)
(* come to its rescue.                                                     *)
Fairness == /\ \A c \in Cells : WF_vars(HostStep(c)) /\ WF_vars(Deadline(c))
            /\ WF_vars(CallStep)

FairSpec == Spec /\ Fairness

-----------------------------------------------------------------------------
(* Properties.                                                             *)

SessionTypes ==
  /\ active \in Cells \cup {NoCell} /\ nextCell \in 1..(MaxCells + 1)
  /\ stored \in SUBSET Cells

CellTypes ==
  /\ phase \in [Cells -> CellPhase]
  /\ shown \in [Cells -> Seq(Nat)]
  /\ pub \in [Cells -> Summary \cup {NoSummary}]
  /\ cancel \in [Cells -> BOOLEAN] /\ late \in [Cells -> BOOLEAN]
  /\ base \in [Cells -> SUBSET Cells]

WorkerTypes ==
  /\ chan \in [Cells -> Seq(Event)]
  /\ emitted \in [Cells -> Nat] /\ marks \in [Cells -> Nat]
  /\ calls \in [Cells -> Nat]
  /\ worker \in [Cells -> {"absent", "running", "flooding", "ended"}]

HostTypes ==
  /\ host \in [Cells -> HostPc]
  /\ batch \in [Cells -> Seq(Nat)]
  /\ cue \in [Cells -> Cues]
  /\ note \in [Cells -> Summary \cup {NoSummary}]
  /\ fresh \in [Cells -> BOOLEAN]
  /\ reply \in [Cells -> Summary \cup {NoSummary, HostError}]

CallerTypes ==
  /\ pc \in CallerPc /\ moved \in BOOLEAN /\ prefer \in BOOLEAN
  /\ mine \in Cells \cup {NoCell}
  /\ pc \in {"awaiting", "stopping", "watching", "reading"} => mine \in Cells
  /\ heard \in [Cells -> Summary \cup {NoSummary}]

(* The types of the session, its cells, their workers and hosts, and the   *)
(* caller (SessionState, ActiveCellHandle, CellDriver, CellHostHandle).    *)
TypeOK == SessionTypes /\ CellTypes /\ WorkerTypes /\ HostTypes /\ CallerTypes

(* When the host task of a cell is gone, its worker has ended or has been  *)
(* told to stop, or the abort that took the cell away is about to tell it: *)
(* no error path of the loop leaves a script running that nobody can stop. *)
NoRunawayWorker ==
  \A c \in Cells : host[c] = "exited"
    => worker[c] = "ended" \/ cancel[c] \/ (pc = "stopping" /\ mine = c)

(* A live cell is never pushed out of its session by the next exec or by   *)
(* wait: it leaves when it has ended, or through abort_active_cell.        *)
LiveCellStays ==
  [][active # NoCell /\ active' # active => Ended(active) \/ pc = "aborting"]_vars

(* What earlier cells have stored is not undone: although a cell writes    *)
(* back a whole copy of the map it started from, long after and possibly   *)
(* beside other cells, no write of a finished cell is lost.                *)
StoredValuesKept == [][stored \subseteq stored']_vars

(* The result of a cell is decided once, whatever the order of its script, *)
(* its deadline, host errors, aborts and later cells.                      *)
ResultDecidedOnce == [][\A c \in Cells : Ended(c) => phase'[c] = phase[c]]_vars

(* The caller's view of a cell never goes back: a later reply shows all    *)
(* the output an earlier one did, and no reply follows that takes back an  *)
(* end already reported, although replies mix snapshots, publications and  *)
(* the initial answer.                                                     *)
RepliesAdvance ==
  [][\A c \in Cells : heard'[c] # heard[c] =>
       /\ heard'[c].upto >= heard[c].upto
       /\ heard[c].life \in Lives => heard'[c].life = heard[c].life]_vars

(* The output recorded for a cell is in the order the script emitted it,   *)
(* and no piece is recorded twice.                                         *)
OutputInOrder ==
  \A c \in Cells : \A i, j \in DOMAIN shown[c] : i < j => shown[c][i] < shown[c][j]

(* No state of a session, cell, worker, host or caller is out of its type, *)
(* and no output out of order (record_*_in_session, next_update).          *)
OutputSound == TypeOK /\ OutputInOrder

(* A published or answered summary reports no end the cell has not come to *)
(* and no output it does not hold, even when it is sent long after it was  *)
(* taken.                                                                  *)
SummariesHonest ==
  \A c \in Cells : \A s \in {pub[c], note[c], reply[c], heard[c]} :
     /\ s.upto <= Len(shown[c])
     /\ s.life \in Lives => s.life = phase[c]

(* exec is answered by its cell's host, without the help of exec's own     *)
(* timeout: with a first publication, a result, or an error.               *)
ExecAnswered == pc = "awaiting" ~> pc # "awaiting"

(* The host task of a cell ends once the runtime limit has passed.         *)
HostEnds == \A c \in Cells : late[c] ~> host[c] = "exited"

(* A wait without a timeout comes back: no publication slips by between    *)
(* the revision it read and its sleep.                                     *)
WaitAnswered == pc = "watching" ~> pc # "watching"

(* Every call of exec and wait is answered (execute, wait_with_request),   *)
(* no answer takes back what an earlier one said, and no host outlives its *)
(* limit.                                                                  *)
Answers == RepliesAdvance /\ ExecAnswered /\ WaitAnswered /\ HostEnds

(* A later cell takes nothing from an earlier one: not its place while it  *)
(* lives, not what it has stored (execute).                                *)
CellsKept == LiveCellStays /\ StoredValuesKept

-----------------------------------------------------------------------------
(* What the documentation and the tool descriptions state and the code     *)
(* does not do.                                                            *)

(* docs/CODE_MODE_DESIGN.md: terminal states are sticky until the final    *)
(* drain is collected and the active cell handle is cleared.               *)
EndCollected ==
  [][pc = "reading" /\ active # NoCell /\ active' = NoCell
       => heard'[active].life \in Lives]_vars

(* The same document: exec on a cell that has ended and whose result was   *)
(* not collected is rejected.                                              *)
UncollectedRejects ==
  [][active # NoCell /\ active' \notin {active, NoCell}
       => heard[active].life \in Lives]_vars

(* The prompt of code mode: the text buffer is published by flush,         *)
(* auto_flush_ms, wait or the cell's completion.                           *)
TextPublished ==
  \A c \in Cells : phase[c] = "Completed" => Len(shown[c]) = emitted[c]

(* The prompt: when the deadline is reached the system cancels the cell.   *)
DeadlineCancels ==
  \A c \in Cells : late[c] ~> cancel[c] \/ Ended(c) \/ active # c
=============================================================================
