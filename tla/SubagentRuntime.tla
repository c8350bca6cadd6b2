--------------------------- MODULE SubagentRuntime ---------------------------
(***************************************************************************)
(* The background sub-agent runtime (src/src/subagent_runtime.rs) and the  *)
(* tool calls that drive it (src/src/tools/subagent.rs).                   *)
(*                                                                         *)
(* One SubagentRuntime is shared by every session of the process.  Each    *)
(* parent session issues one tool call at a time; calls of different       *)
(* parents, the tokio tasks that run the jobs and the five-minute cleanup  *)
(* timer interleave.  A step below is the code between two awaits: each    *)
(* lock acquisition of the source starts a new step, because the runtime   *)
(* may run any other task there, may abort the task, and may drop a tool   *)
(* call whose session is cancelled or whose timeout expires.               *)
(*                                                                         *)
(* A definition marked "Mutant" is the mistake its neighbour could contain *)
(* and that a property below must notice; nothing uses it.                 *)
(***************************************************************************)
EXTENDS Integers, Sequences, FiniteSets

CONSTANTS
  Parents,        \* the parent sessions
  Ticker,         \* the periodic cleanup task
  Jobs,           \* the sub-session ids (fresh uuids)
  NoJob,          \* "no target"
  Moves,          \* what parents and environment do in this instance
  MaxConcurrent,  \* max_concurrent_jobs
  ConsumedTTL,    \* CONSUMED_TERMINAL_JOB_TTL, in clock ticks
  UnconsumedTTL   \* UNCONSUMED_TERMINAL_JOB_TTL, in clock ticks

Calls == {"spawn", "run", "cancel", "consume", "list", "wait", "take"}

ASSUME ConstantsAssumption ==
  /\ Moves \subseteq Calls \cup {"drop", "panic", "tick"}
  /\ IsFiniteSet(Parents) /\ Parents # {} /\ Ticker \notin Parents
  /\ IsFiniteSet(Jobs) /\ NoJob \notin Jobs
  /\ MaxConcurrent \in Nat \ {0}
  /\ ConsumedTTL \in Nat \ {0}
  /\ UnconsumedTTL \in Nat /\ ConsumedTTL <= UnconsumedTTL

Actors == Parents \cup {Ticker}

Terminal == {"Completed", "Failed", "Cancelled", "TimedOut"}
JobState == {"Absent", "Pending", "Running"} \cup Terminal

(* Where a job's task stands: the step it will take next.                  *)
TaskPc == {"unborn", "queued", "label", "executing", "enqueue", "write",
           "finalize", "notify", "release", "exited"}

(* Where a tool call stands: the step it will take next.                   *)
CallPc == {"idle", "sweep", "admit", "insert", "launch", "store", "joined",
           "lookup", "abort", "mark", "report", "wake", "consume",
           "check", "arm", "asleep"}

Ops == {"spawn", "cancel", "consume", "list"}

VARIABLES
  jobs,       \* the jobs map: the ids it holds
  running,    \* the running_jobs counter
  told,       \* the notifications ever enqueued for a job, in order
  taken,      \* how many of them its parent has taken out of its inbox
  state,      \* handle.state
  label,      \* handle.debug.state_label
  cancelled,  \* handle.cancelled
  consumed,   \* handle.consumed_at_unix_ms is set
  stored,     \* handle.task holds the JoinHandle
  age,        \* clock ticks since finished_at_unix_ms
  owner,      \* meta.parent_session_id
  mode,       \* SubagentRunMode
  pc,         \* the job's task
  outcome,    \* final_state, local to run_job and finish_job
  aborted,    \* JoinHandle::abort was called
  unwound,    \* the task panicked and its RunningJobGuard was dropped
  call,       \* the actor's current call
  op,         \* which call it is
  target,     \* the handle it works on
  expired     \* expired_ids of its cleanup

handleVars == <<state, label, cancelled, consumed, stored, age, owner, mode>>
taskVars   == <<pc, outcome, aborted, unwound>>
callVars   == <<call, op, target, expired>>
vars == <<jobs, running, told, taken, handleVars, taskVars, callVars>>

IsTerminal(s) == s \in Terminal

-----------------------------------------------------------------------------
Init ==
  /\ jobs = {} /\ running = 0
  /\ told = [j \in Jobs |-> <<>>] /\ taken = [j \in Jobs |-> 0]
  /\ state = [j \in Jobs |-> "Absent"]
  /\ label = [j \in Jobs |-> "Pending"]
  /\ cancelled = [j \in Jobs |-> FALSE]
  /\ consumed = [j \in Jobs |-> FALSE]
  /\ stored = [j \in Jobs |-> FALSE]
  /\ age = [j \in Jobs |-> 0]
  /\ owner = [j \in Jobs |-> Ticker]
  /\ mode = [j \in Jobs |-> "Background"]
  /\ pc = [j \in Jobs |-> "unborn"]
  /\ outcome = [j \in Jobs |-> "Pending"]
  /\ aborted = [j \in Jobs |-> FALSE]
  /\ unwound = [j \in Jobs |-> FALSE]
  /\ call = [a \in Actors |-> "idle"]
  /\ op = [a \in Actors |-> "list"]
  /\ target = [a \in Actors |-> NoJob]
  /\ expired = [a \in Actors |-> {}]

(* completion_notify.notify_waiters(): every sleeping waiter re-checks.    *)
Woken(j) == [a \in Actors |->
               IF call[a] = "asleep" /\ target[a] = j THEN "check" ELSE call[a]]

(* A call that returns, or is dropped, forgets its locals.                 *)
Return(a) ==
  /\ call' = [call EXCEPT ![a] = "idle"]
  /\ target' = [target EXCEPT ![a] = NoJob]
  /\ expired' = [expired EXCEPT ![a] = {}]
  /\ op' = [op EXCEPT ![a] = "list"]

Goto(a, step) ==
  /\ call' = [call EXCEPT ![a] = step]
  /\ UNCHANGED <<op, target, expired>>

(* The inbox append of enqueue_notification.  The notifications of a job   *)
(* reach its parent together, so an inbox is what told holds beyond taken. *)
Push(j, status) ==
  /\ told' = [told EXCEPT ![j] = Append(@, status)]
  /\ UNCHANGED taken

(* Mutant: cancel_job and finish_job overwrite a terminal state.           *)
SettleUnchecked(j, s) == /\ state' = [state EXCEPT ![j] = s]
                         /\ age' = [age EXCEPT ![j] = 0]

(* The first terminal state of a job stands.                               *)
Settle(j, s) == IF IsTerminal(state[j]) THEN UNCHANGED <<state, age>>
                ELSE /\ state' = [state EXCEPT ![j] = s]
                     /\ age' = [age EXCEPT ![j] = 0]

(* Mutant: every terminal job expires after the shorter time to live.      *)
ExpiredEarly == {j \in jobs : IsTerminal(state[j]) /\ age[j] >= ConsumedTTL}

(* The jobs cleanup_expired_jobs may collect under the read lock; it skips *)
(* a handle whose lock try_read finds taken.                               *)
Expired == {j \in jobs : /\ IsTerminal(state[j])
                         /\ age[j] >= IF consumed[j] THEN ConsumedTTL
                                                     ELSE UnconsumedTTL}

-----------------------------------------------------------------------------
(* The task of a job: run_job, finish_job and the guard around them.       *)

(* The handle becomes Running, whatever it was.                            *)
Start(j) ==
  /\ pc[j] = "queued"
  /\ state' = [state EXCEPT ![j] = "Running"]
  /\ pc' = [pc EXCEPT ![j] = "label"]
  /\ UNCHANGED <<jobs, running, told, taken, label, cancelled, consumed, stored,
                 age, owner, mode, outcome, aborted, unwound, callVars>>

SetLabel(j) ==
  /\ pc[j] = "label"
  /\ label' = [label EXCEPT ![j] = "Running"]
  /\ pc' = [pc EXCEPT ![j] = "executing"]
  /\ UNCHANGED <<jobs, running, told, taken, state, cancelled, consumed, stored,
                 age, owner, mode, outcome, aborted, unwound, callVars>>

(* Mutant: no timeout around the session.                                  *)
EndsUntimed(j) == IF cancelled[j] THEN {"Failed"} ELSE {}

(* How the session of a job may end: it is built and stepped under its     *)
(* timeout, so it always does.                                             *)
Ends(j) == {"Completed", "Failed", "TimedOut"}

(* A set cancel flag overrides what the session returned.                  *)
Execute(j) ==
  /\ pc[j] = "executing"
  /\ \E end \in Ends(j) :
       outcome' = [outcome EXCEPT ![j] = IF cancelled[j] THEN "Cancelled" ELSE end]
  /\ pc' = [pc EXCEPT ![j] = IF mode[j] = "Background" THEN "enqueue" ELSE "write"]
  /\ UNCHANGED <<jobs, running, told, taken, handleVars, aborted, unwound, callVars>>

(* Mutant: the panic path forgets the final state.                         *)
PanicUndecided(j) ==
  /\ "panic" \in Moves /\ pc[j] = "executing" /\ mode[j] = "Background"
  /\ unwound' = [unwound EXCEPT ![j] = TRUE]
  /\ running' = running - 1
  /\ pc' = [pc EXCEPT ![j] = "enqueue"]
  /\ UNCHANGED <<jobs, told, taken, handleVars, outcome, aborted, callVars>>

(* Mutant: the panic path enqueues no notification.                        *)
PanicQuiet(j) ==
  /\ "panic" \in Moves /\ pc[j] = "executing" /\ mode[j] = "Background"
  /\ unwound' = [unwound EXCEPT ![j] = TRUE]
  /\ running' = running - 1
  /\ outcome' = [outcome EXCEPT ![j] = "Failed"]
  /\ pc' = [pc EXCEPT ![j] = "write"]
  /\ UNCHANGED <<jobs, told, taken, handleVars, aborted, callVars>>

(* A panic unwinds through the guard; catch_unwind then finishes the job.  *)
Panic(j) ==
  /\ "panic" \in Moves /\ pc[j] = "executing" /\ mode[j] = "Background"
  /\ unwound' = [unwound EXCEPT ![j] = TRUE]
  /\ running' = running - 1
  /\ outcome' = [outcome EXCEPT ![j] = "Failed"]
  /\ pc' = [pc EXCEPT ![j] = "enqueue"]
  /\ UNCHANGED <<jobs, told, taken, handleVars, aborted, callVars>>

Enqueue(j) ==
  /\ pc[j] = "enqueue"
  /\ Push(j, outcome[j])
  /\ pc' = [pc EXCEPT ![j] = "write"]
  /\ UNCHANGED <<jobs, running, handleVars, outcome, aborted, unwound, callVars>>

WriteFinal(j) ==
  /\ pc[j] = "write"
  /\ Settle(j, outcome[j])
  /\ pc' = [pc EXCEPT ![j] = "finalize"]
  /\ UNCHANGED <<jobs, running, told, taken, label, cancelled, consumed, stored,
                 owner, mode, outcome, aborted, unwound, callVars>>

(* Mutant: the label is the task's own outcome.                            *)
FinalizeOutcome(j) ==
  /\ pc[j] = "finalize"
  /\ label' = [label EXCEPT ![j] = outcome[j]]
  /\ pc' = [pc EXCEPT ![j] = "notify"]
  /\ UNCHANGED <<jobs, running, told, taken, state, cancelled, consumed, stored,
                 age, owner, mode, outcome, aborted, unwound, callVars>>

(* finalize_debug_state reads the state and writes the label under two     *)
(* locks; the state no longer changes by then (TerminalOnceStarted).       *)
Finalize(j) ==
  /\ pc[j] = "finalize"
  /\ label' = [label EXCEPT ![j] = state[j]]
  /\ pc' = [pc EXCEPT ![j] = "notify"]
  /\ UNCHANGED <<jobs, running, told, taken, state, cancelled, consumed, stored,
                 age, owner, mode, outcome, aborted, unwound, callVars>>

Notify(j) ==
  /\ pc[j] = "notify"
  /\ call' = Woken(j)
  /\ pc' = [pc EXCEPT ![j] = "release"]
  /\ UNCHANGED <<jobs, running, told, taken, handleVars, outcome, aborted, unwound,
                 op, target, expired>>

(* Mutant: the slot is returned again after a panic.                       *)
ExitTwice(j) ==
  /\ pc' = [pc EXCEPT ![j] = "exited"]
  /\ running' = IF mode[j] = "Background" THEN running - 1 ELSE running
  /\ outcome' = [outcome EXCEPT ![j] = "Pending"]
  /\ UNCHANGED <<jobs, told, taken, handleVars, aborted, unwound>>

(* The job's task ends.  A background task drops its RunningJobGuard if a  *)
(* panic has not; a foreground one hands its result to the waiting call.   *)
Exit(j) ==
  /\ pc' = [pc EXCEPT ![j] = "exited"]
  /\ running' = IF mode[j] = "Background" /\ ~unwound[j] THEN running - 1 ELSE running
  /\ outcome' = [outcome EXCEPT ![j] = "Pending"]
  /\ UNCHANGED <<jobs, told, taken, handleVars, aborted, unwound>>

Release(j) ==
  /\ pc[j] = "release"
  /\ Exit(j)
  /\ IF mode[j] = "Foreground" THEN Return(owner[j]) ELSE UNCHANGED callVars

(* tokio drops an aborted task at the await it is suspended in.            *)
AwaitPoint == {"queued", "label", "executing", "enqueue", "write", "finalize"}

Die(j) ==
  /\ aborted[j] /\ pc[j] \in AwaitPoint
  /\ Exit(j)
  /\ UNCHANGED callVars

-----------------------------------------------------------------------------
(* The tool calls.  Each first runs cleanup_expired_jobs, whose collection *)
(* and removal are two critical sections.                                  *)

AfterSweep(o) == CASE o = "spawn" -> "admit"
                   [] o = "list"  -> "idle"
                   [] OTHER       -> "lookup"

(* "list" stands for list_jobs, a status query that does not consume, and  *)
(* the ticker: they change nothing but the cleanup.                        *)
Begin(a) ==
  /\ call[a] = "idle"
  /\ \E o \in IF a = Ticker THEN {"list"} ELSE Ops \cap Moves, found \in SUBSET Expired :
       /\ op' = [op EXCEPT ![a] = o]
       /\ expired' = [expired EXCEPT ![a] = found]
       /\ call' = [call EXCEPT ![a] = IF found = {} THEN AfterSweep(o) ELSE "sweep"]
  /\ UNCHANGED <<jobs, running, told, taken, handleVars, taskVars, target>>

Sweep(a) ==
  /\ call[a] = "sweep"
  /\ jobs' = jobs \ expired[a]
  /\ expired' = [expired EXCEPT ![a] = {}]
  /\ call' = [call EXCEPT ![a] = AfterSweep(op[a])]
  /\ UNCHANGED <<running, told, taken, handleVars, taskVars, op, target>>

(* spawn_job_with_limits: the limit is checked here ...                    *)
Admit(p) ==
  /\ call[p] = "admit"
  /\ IF running >= MaxConcurrent THEN Return(p) ELSE Goto(p, "insert")
  /\ UNCHANGED <<jobs, running, told, taken, handleVars, taskVars>>

NewHandle(j, p, m) ==
  /\ state[j] = "Absent"
  /\ state' = [state EXCEPT ![j] = "Pending"]
  /\ owner' = [owner EXCEPT ![j] = p]
  /\ mode' = [mode EXCEPT ![j] = m]
  /\ target' = [target EXCEPT ![p] = j]
  /\ UNCHANGED <<label, cancelled, consumed, stored, age, op, expired>>

Insert(p) ==
  /\ call[p] = "insert"
  /\ \E j \in Jobs : NewHandle(j, p, "Background") /\ jobs' = jobs \cup {j}
  /\ call' = [call EXCEPT ![p] = "launch"]
  /\ UNCHANGED <<running, told, taken, taskVars>>

(* ... and the slot is taken here, with the task spawned in the same poll. *)
Launch(p) ==
  /\ call[p] = "launch"
  /\ running' = running + 1
  /\ pc' = [pc EXCEPT ![target[p]] = "queued"]
  /\ Goto(p, "store")
  /\ UNCHANGED <<jobs, told, taken, handleVars, outcome, aborted, unwound>>

Store(p) ==
  /\ call[p] = "store"
  /\ stored' = [stored EXCEPT ![target[p]] = TRUE]
  /\ Return(p)
  /\ UNCHANGED <<jobs, running, told, taken, state, label, cancelled, consumed,
                 age, owner, mode, taskVars>>

(* run_sync: the job runs inside the call, in no map and without a guard.  *)
RunSync(p) ==
  /\ "run" \in Moves /\ call[p] = "idle"
  /\ \E j \in Jobs : /\ NewHandle(j, p, "Foreground")
                     /\ pc' = [pc EXCEPT ![j] = "queued"]
  /\ call' = [call EXCEPT ![p] = "joined"]
  /\ UNCHANGED <<jobs, running, told, taken, outcome, aborted, unwound>>

(* An id the runtime handed out: the map, or an id it has since removed.   *)
KnownIds == {j \in Jobs : state[j] # "Absent" /\ mode[j] = "Background"}

LookupCancel(p) ==
  /\ call[p] = "lookup" /\ op[p] = "cancel"
  /\ \E j \in KnownIds :
       IF j \in jobs
       THEN /\ cancelled' = [cancelled EXCEPT ![j] = TRUE]
            /\ target' = [target EXCEPT ![p] = j]
            /\ call' = [call EXCEPT ![p] = "abort"]
            /\ UNCHANGED <<op, expired>>
       ELSE Return(p) /\ UNCHANGED cancelled
  /\ UNCHANGED <<jobs, running, told, taken, state, label, consumed, stored, age,
                 owner, mode, taskVars>>

Abort(p) ==
  /\ call[p] = "abort"
  /\ aborted' = [aborted EXCEPT ![target[p]] = @ \/ stored[target[p]]]
  /\ Goto(p, "mark")
  /\ UNCHANGED <<jobs, running, told, taken, handleVars, pc, outcome, unwound>>

(* Mutant: a cancel that lost the race reports as well.                    *)
MarkAlways(p) ==
  /\ call[p] = "mark"
  /\ Settle(target[p], "Cancelled")
  /\ Goto(p, "report")
  /\ UNCHANGED <<jobs, running, told, taken, label, cancelled, consumed, stored,
                 owner, mode, taskVars>>

Mark(p) ==
  /\ call[p] = "mark"
  /\ Settle(target[p], "Cancelled")
  /\ IF IsTerminal(state[target[p]]) THEN Return(p) ELSE Goto(p, "report")
  /\ UNCHANGED <<jobs, running, told, taken, label, cancelled, consumed, stored,
                 owner, mode, taskVars>>

Report(p) ==
  /\ call[p] = "report"
  /\ Push(target[p], "Cancelled")
  /\ Goto(p, "wake")
  /\ UNCHANGED <<jobs, running, handleVars, taskVars>>

Wake(p) ==
  /\ call[p] = "wake"
  /\ call' = [Woken(target[p]) EXCEPT ![p] = "idle"]
  /\ target' = [target EXCEPT ![p] = NoJob]
  /\ op' = [op EXCEPT ![p] = "list"]
  /\ UNCHANGED <<jobs, running, told, taken, handleVars, taskVars, expired>>

(* Mutant: a live job can be consumed.                                     *)
LookupConsumeAny(p) ==
  /\ call[p] = "lookup" /\ op[p] = "consume"
  /\ \E j \in KnownIds :
       IF j \in jobs
       THEN /\ target' = [target EXCEPT ![p] = j]
            /\ call' = [call EXCEPT ![p] = "consume"]
            /\ UNCHANGED <<op, expired>>
       ELSE Return(p)
  /\ UNCHANGED <<jobs, running, told, taken, handleVars, taskVars>>

(* get_job_snapshot(consume = true) reads the state under one lock ...     *)
LookupConsume(p) ==
  /\ call[p] = "lookup" /\ op[p] = "consume"
  /\ \E j \in KnownIds :
       IF j \in jobs /\ IsTerminal(state[j])
       THEN /\ target' = [target EXCEPT ![p] = j]
            /\ call' = [call EXCEPT ![p] = "consume"]
            /\ UNCHANGED <<op, expired>>
       ELSE Return(p)
  /\ UNCHANGED <<jobs, running, told, taken, handleVars, taskVars>>

(* ... and stamps the consumption under another.                           *)
Consume(p) ==
  /\ call[p] = "consume"
  /\ consumed' = [consumed EXCEPT ![target[p]] = TRUE]
  /\ Return(p)
  /\ UNCHANGED <<jobs, running, told, taken, state, label, cancelled, stored, age,
                 owner, mode, taskVars>>

(* A status or cancel call that no id exists for yet.                      *)
LookupUnknown(p) ==
  /\ call[p] = "lookup" /\ KnownIds = {}
  /\ Return(p)
  /\ UNCHANGED <<jobs, running, told, taken, handleVars, taskVars>>

(* wait_for_terminal: check, then sleep until notified, two seconds have   *)
(* passed, or the deadline.                                                *)
WaitBegin(p) ==
  /\ "wait" \in Moves /\ call[p] = "idle"
  /\ \E j \in jobs : target' = [target EXCEPT ![p] = j]
  /\ call' = [call EXCEPT ![p] = "check"]
  /\ UNCHANGED <<jobs, running, told, taken, handleVars, taskVars, op, expired>>

WaitCheck(p) ==
  /\ call[p] = "check"
  /\ IF IsTerminal(state[target[p]]) THEN Return(p) ELSE Goto(p, "arm")
  /\ UNCHANGED <<jobs, running, told, taken, handleVars, taskVars>>

WaitDeadline(p) ==
  /\ call[p] = "arm"
  /\ Return(p)
  /\ UNCHANGED <<jobs, running, told, taken, handleVars, taskVars>>

WaitArm(p) ==
  /\ call[p] = "arm"
  /\ Goto(p, "asleep")
  /\ UNCHANGED <<jobs, running, told, taken, handleVars, taskVars>>

(* Mutant: no two-second poll.                                             *)
WaitPollNever(p) == FALSE

WaitPoll(p) ==
  /\ call[p] = "asleep"
  /\ Goto(p, "check")
  /\ UNCHANGED <<jobs, running, told, taken, handleVars, taskVars>>

(* take_notifications, at the start of the parent's next turn.             *)
TakeNotifications(p) ==
  /\ "take" \in Moves /\ call[p] = "idle"
  /\ taken' = [j \in Jobs |-> IF owner[j] = p THEN Len(told[j]) ELSE taken[j]]
  /\ UNCHANGED <<jobs, running, told, handleVars, taskVars, callVars>>

(* Mutant: an await between insert and spawn.                              *)
DropBeforeLaunch(p) ==
  /\ "drop" \in Moves /\ call[p] \notin {"idle", "admit"}
  /\ IF call[p] = "joined"
     THEN Exit(target[p])
     ELSE UNCHANGED <<jobs, running, told, taken, handleVars, taskVars>>
  /\ Return(p)

(* The parent's session is cancelled or the tool call times out: the call  *)
(* is dropped at the await it is suspended in, and with it a foreground    *)
(* job.  "launch" has no await in front of it.                             *)
Drop(p) ==
  /\ "drop" \in Moves /\ call[p] \notin {"idle", "launch", "admit"}
  /\ IF call[p] = "joined"
     THEN Exit(target[p])
     ELSE UNCHANGED <<jobs, running, told, taken, handleVars, taskVars>>
  /\ Return(p)

(* Minutes pass.  A tick is at least the five-minute TTL, so every step    *)
(* that only waits for a lock or a worker thread has been taken by then.   *)
Tick ==
  /\ "tick" \in Moves
  /\ \A j \in Jobs : pc[j] \in {"unborn", "executing", "exited"}
  /\ \A a \in Actors : call[a] \in {"idle", "joined", "asleep"}
  /\ \E j \in jobs : IsTerminal(state[j]) /\ age[j] < UnconsumedTTL
  /\ age' = [j \in Jobs |-> IF IsTerminal(state[j]) /\ age[j] < UnconsumedTTL
                            THEN age[j] + 1 ELSE age[j]]
  /\ UNCHANGED <<jobs, running, told, taken, state, label, cancelled, consumed,
                 stored, owner, mode, taskVars, callVars>>

-----------------------------------------------------------------------------
Advance(j) == \/ Start(j) \/ SetLabel(j) \/ Execute(j) \/ Enqueue(j)
              \/ WriteFinal(j) \/ Finalize(j) \/ Notify(j) \/ Release(j) \/ Die(j)

TaskStep(j) == Advance(j) \/ Panic(j)

CallStep(p) == \/ Admit(p) \/ Insert(p) \/ Launch(p) \/ Store(p)
               \/ LookupCancel(p) \/ Abort(p) \/ Mark(p) \/ Report(p) \/ Wake(p)
               \/ LookupConsume(p) \/ Consume(p) \/ LookupUnknown(p)
               \/ WaitCheck(p) \/ WaitArm(p) \/ WaitPoll(p)

Environment(p) == \/ RunSync(p) \/ WaitBegin(p) \/ WaitDeadline(p)
                  \/ TakeNotifications(p) \/ Drop(p)

Next == \/ \E j \in Jobs : TaskStep(j)
        \/ \E a \in Actors : Begin(a) \/ Sweep(a)
        \/ \E p \in Parents : CallStep(p) \/ Environment(p)
        \/ Tick

Spec == Init /\ [][Next]_vars

(* The executor polls every task and every pending call, and the timeout   *)
(* around a job's session ends it.  Nothing makes a session panic, a       *)
(* parent call again, a deadline expire, a call be dropped, or the clock   *)
(* tick.                                                                   *)
Fairness == /\ \A j \in Jobs : WF_vars(Advance(j))
            /\ \A a \in Actors : WF_vars(Sweep(a))
            /\ \A p \in Parents : WF_vars(CallStep(p))

FairSpec == Spec /\ Fairness

-----------------------------------------------------------------------------
(* Properties.                                                             *)

RuntimeTypes ==
  /\ jobs \in SUBSET Jobs
  /\ running \in Int
  /\ told \in [Jobs -> Seq(Terminal)]
  /\ taken \in [Jobs -> Nat]

HandleTypes ==
  /\ state \in [Jobs -> JobState]
  /\ label \in [Jobs -> JobState]
  /\ cancelled \in [Jobs -> BOOLEAN]
  /\ consumed \in [Jobs -> BOOLEAN]
  /\ stored \in [Jobs -> BOOLEAN]
  /\ age \in [Jobs -> 0..UnconsumedTTL]
  /\ owner \in [Jobs -> Actors]
  /\ mode \in [Jobs -> {"Background", "Foreground"}]

TaskTypes ==
  /\ pc \in [Jobs -> TaskPc]
  /\ outcome \in [Jobs -> Terminal \cup {"Pending"}]
  /\ aborted \in [Jobs -> BOOLEAN]
  /\ unwound \in [Jobs -> BOOLEAN]

(* A call that works on a handle has one: the unwraps of cancel_job and    *)
(* wait_for_terminal never meet a call that has lost its target.           *)
Aimed == {"launch", "store", "joined", "abort", "mark", "report", "wake",
          "consume", "check", "arm", "asleep"}

CallTypes ==
  /\ call \in [Actors -> CallPc]
  /\ op \in [Actors -> Ops]
  /\ target \in [Actors -> Jobs \cup {NoJob}]
  /\ expired \in [Actors -> SUBSET Jobs]
  /\ \A a \in Actors : call[a] \in Aimed => target[a] \in Jobs

(* The types of the runtime's, the handles', the tasks' and the calls'     *)
(* state (SubagentRuntimeInner, SubagentJobHandle and their users).        *)
TypeOK == RuntimeTypes /\ HandleTypes /\ TaskTypes /\ CallTypes

(* The tasks whose RunningJobGuard is alive.                               *)
Slots == {j \in Jobs : /\ mode[j] = "Background" /\ ~unwound[j]
                       /\ pc[j] \notin {"unborn", "exited"}}

(* running_jobs counts exactly the live background tasks, whatever mix of  *)
(* completions, panics, aborts and dropped calls has happened: no slot is  *)
(* leaked and none is returned twice (RunningJobGuard).                    *)
CounterExact == running = Cardinality(Slots)

(* The spawns that have passed the limit check and not yet taken a slot.   *)
Admitted == {p \in Parents : call[p] \in {"insert", "launch"}}

(* The check and the increment of spawn_job_with_limits are not atomic, so *)
(* the limit can be overshot, but only by one job per further parent that  *)
(* is spawning at the same moment.                                         *)
OvershootBounded ==
  running + Cardinality(Admitted) <= MaxConcurrent + Cardinality(Parents) - 1

(* A terminal state is replaced by nothing but run_job's unconditional     *)
(* Running, and only while the task has yet to start: after that the race  *)
(* of finish_job and cancel_job has one winner, for good.                  *)
TerminalOnceStarted ==
  [][\A j \in Jobs : IsTerminal(state[j]) /\ state'[j] # state[j]
                      => pc[j] = "queued" /\ state'[j] = "Running"]_vars

(* A result other than a cancellation becomes visible in handle.state only *)
(* after the parent has been queued a notification of that very status.    *)
ResultAnnounced ==
  \A j \in jobs : state[j] \in {"Completed", "Failed", "TimedOut"}
                     => \E i \in DOMAIN told[j] : told[j][i] = state[j]

(* A parent is told of a job at most three times: by finish_job, by the    *)
(* one cancel_job that can win before run_job starts and by the one that   *)
(* can win after it; concurrent cancels do not each report.  Of an end     *)
(* that is no cancellation it is told once.                                *)
NoticesBounded ==
  \A j \in Jobs :
    /\ Len(told[j]) <= 3
    /\ \A i, k \in DOMAIN told[j] :
         told[j][i] # "Cancelled" /\ told[j][k] # "Cancelled" => i = k

(* A job leaves the map only in a terminal state, and not before the time  *)
(* to live its consumption entitles it to: the collection and the removal  *)
(* of cleanup_expired_jobs may not straddle a change that saves the job.   *)
RemovalRespectsTTL ==
  [][\A j \in jobs \ jobs' :
       /\ IsTerminal(state[j])
       /\ age[j] >= IF consumed[j] THEN ConsumedTTL ELSE UnconsumedTTL]_vars

(* Only a final result is ever consumed, unless the job was cancelled: the *)
(* state get_job_snapshot read is still the state when it stamps the       *)
(* consumption under the second lock.                                      *)
ConsumedIsFinal ==
  \A j \in Jobs : consumed[j] => IsTerminal(state[j]) \/ cancelled[j]

(* A job that still reads Pending or Running has a task or a spawn that    *)
(* will move it on, unless a cancel hit it: nothing but cancel_job can     *)
(* strand a job that list_jobs shows as live.                              *)
LiveJobHasTask ==
  \A j \in jobs : state[j] \in {"Pending", "Running"} /\ ~cancelled[j]
     => \/ pc[j] \notin {"unborn", "exited"}
        \/ \E p \in Parents : call[p] = "launch" /\ target[p] = j

(* When a task has ended by itself, the debug label that a status query    *)
(* returns agrees with the state in the same reply.                        *)
LabelAgrees ==
  \A j \in Jobs : pc[j] = "exited" /\ mode[j] = "Background" /\ ~aborted[j]
                     => label[j] = state[j]

(* Every slot taken is given back: a session that hangs is timed out, a    *)
(* panic is caught, an aborted task is dropped.                            *)
SlotsReturned == \A j \in Jobs : j \in Slots ~> j \notin Slots

(* A spawned job that nobody aborts ends in a state the parent can read.   *)
JobSettles ==
  \A j \in Jobs : pc[j] = "queued" /\ mode[j] = "Background"
                    ~> IsTerminal(state[j]) \/ aborted[j]

(* wait_for_terminal does not sleep on a job that stays terminal, although *)
(* notified() is created after the check and a completion in between is    *)
(* not remembered: the two-second poll repairs the lost wakeup.            *)
WaiterReturns ==
  \A p \in Parents, j \in Jobs :
    []<>~(call[p] \in {"check", "arm", "asleep"} /\ target[p] = j
          /\ IsTerminal(state[j]))

(* What a parent is told of its jobs, by the map, the replies and the      *)
(* notices, is what has become of them (finish_job, cancel_job,            *)
(* get_job_snapshot, list_jobs).                                           *)
JobsReported ==
  /\ TypeOK
  /\ ResultAnnounced
  /\ NoticesBounded
  /\ ConsumedIsFinal
  /\ LiveJobHasTask
  /\ LabelAgrees

(* A job that has ended stays so, and stays to be read, as long as run_job *)
(* and cleanup_expired_jobs allow.                                         *)
JobsEndOnce == TerminalOnceStarted /\ RemovalRespectsTTL

(* Nobody waits for ever on a job: not the next spawn for its slot, not    *)
(* the parent for its end (run_job, wait_for_terminal).                    *)
Progress == SlotsReturned /\ JobSettles /\ WaiterReturns

-----------------------------------------------------------------------------
(* The refinement: a foreground run is no job to a caller, and a slot is   *)
(* in use from the moment the task has marked the job Running.             *)
StatusOf == [j \in Jobs |-> IF mode[j] = "Background" THEN state[j] ELSE "Absent"]

SlotOf == [j \in Jobs |->
             IF mode[j] = "Foreground" \/ pc[j] = "unborn" THEN "none"
             ELSE IF pc[j] = "queued" THEN "held"
             ELSE IF pc[j] = "exited" \/ unwound[j] THEN "returned" ELSE "used"]

Lifecycle == INSTANCE JobLifecycle WITH
               Limit  <- MaxConcurrent,
               Slack  <- Cardinality(Parents) - 1,
               status <- StatusOf,
               slot   <- SlotOf

(* Whatever the interleaving, what callers can observe of the runtime is a *)
(* behaviour of the job life cycle: spawn, run, cancel, panic and abort    *)
(* have no effect on a job's status and slot outside its edges.            *)
ImplementsLifecycle == Lifecycle!Spec

-----------------------------------------------------------------------------
(* What the documentation states and the code does not do.                 *)

(* docs/ASYNC_SUBAGENT_IMPLEMENTATION_PLAN.md, 7.3: a terminal state is    *)
(* irreversible.                                                           *)
TerminalIrreversible ==
  [][\A j \in Jobs : IsTerminal(state[j]) => state'[j] = state[j]]_vars

(* The same plan, 8.1: at most max_concurrent_jobs run at any time.        *)
LimitRespected == running <= MaxConcurrent

(* docs/SUBAGENT_TOOL_CONSOLIDATION.md: the notification contains the      *)
(* job's terminal status.                                                  *)
NotificationsAgree ==
  \A j \in Jobs : pc[j] = "exited" /\ IsTerminal(state[j])
                     => \A i \in DOMAIN told[j] : told[j][i] = state[j]

(* The plan, 6.3: after a cancel the job's state is Cancelled.             *)
CancelSettles == \A j \in Jobs : aborted[j] ~> [](IsTerminal(state[j]))
=============================================================================
