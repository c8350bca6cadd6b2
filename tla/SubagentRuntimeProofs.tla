----------------------- MODULE SubagentRuntimeProofs -----------------------
(***************************************************************************)
(* Proofs about SubagentRuntime for every number of parents and jobs: the  *)
(* types, the slots, the race between finish_job and cancel_job, the       *)
(* handles that the cleanup removes, the job life cycle it implements, and *)
(* what a parent is told of its jobs.                                      *)
(***************************************************************************)
EXTENDS SubagentRuntime, FiniteSetTheorems, TLAPS

(* What a task has decided is a terminal state from the moment it has to   *)
(* announce it: enqueue_notification is never asked to push anything else. *)
OutcomeDecided ==
  \A j \in Jobs : pc[j] \in {"enqueue", "write"} => outcome[j] \in Terminal

TypeInv == RuntimeTypes /\ HandleTypes /\ TaskTypes /\ CallTypes /\ OutcomeDecided

-----------------------------------------------------------------------------
(* Type correctness.                                                       *)

(* The initial state is well typed.                                        *)
LEMMA InitTypeInv == Init => TypeInv
<1> SUFFICES ASSUME Init PROVE TypeInv
  OBVIOUS
<1> USE ConstantsAssumption DEF Init, Actors, JobState, Terminal
<1>1. RuntimeTypes
  BY DEF RuntimeTypes
<1>2. HandleTypes
  BY DEF HandleTypes
<1>3. TaskTypes /\ OutcomeDecided
  BY DEF TaskTypes, OutcomeDecided, TaskPc
<1>4. CallTypes
  BY DEF CallTypes, CallPc, Ops, Aimed
<1>5. QED
  BY <1>1, <1>2, <1>3, <1>4 DEF TypeInv

(* A finished job's age, whatever the time to live is.                     *)
LEMMA ZeroAge == 0 \in 0..UnconsumedTTL
<1>1. UnconsumedTTL \in Nat
  BY ConstantsAssumption
<1>2. QED
  BY <1>1

(* What an action leaves alone keeps its types.                            *)
LEMMA Kept ==
  ASSUME TypeInv
  PROVE  /\ UNCHANGED <<jobs, running, told, taken>> => RuntimeTypes'
         /\ UNCHANGED handleVars => HandleTypes'
         /\ UNCHANGED taskVars => TaskTypes' /\ OutcomeDecided'
         /\ UNCHANGED callVars => CallTypes'
<1>1. UNCHANGED <<jobs, running, told, taken>> => RuntimeTypes'
  BY DEF TypeInv, RuntimeTypes
<1>2. UNCHANGED handleVars => HandleTypes'
  BY DEF TypeInv, HandleTypes, handleVars
<1>3. UNCHANGED taskVars => TaskTypes' /\ OutcomeDecided'
  BY DEF TypeInv, TaskTypes, OutcomeDecided, taskVars
<1>4. UNCHANGED callVars => CallTypes'
  BY DEF TypeInv, CallTypes, callVars
<1>5. QED
  BY <1>1, <1>2, <1>3, <1>4

(* A call that returns stays well typed.                                   *)
LEMMA ReturnTypes ==
  ASSUME TypeInv, NEW a \in Actors, Return(a)
  PROVE  CallTypes'
BY DEF TypeInv, CallTypes, Return, CallPc, Ops, Aimed

(* So does one that goes on to its next step.                              *)
LEMMA GotoTypes ==
  ASSUME TypeInv, NEW a \in Actors, NEW step \in CallPc, Goto(a, step),
         step \in Aimed => target[a] \in Jobs
  PROVE  CallTypes'
BY DEF TypeInv, CallTypes, Goto

(* So do the calls that a notification wakes.                              *)
LEMMA WokenTypes ==
  ASSUME TypeInv, NEW j, call' = Woken(j), UNCHANGED <<op, target, expired>>
  PROVE  CallTypes'
BY DEF TypeInv, CallTypes, Woken, CallPc, Aimed

(* An inbox holds terminal states only.                                    *)
LEMMA PushTypes ==
  ASSUME TypeInv, NEW j \in Jobs, NEW s \in Terminal, Push(j, s),
         UNCHANGED <<jobs, running>>
  PROVE  RuntimeTypes'
BY DEF TypeInv, RuntimeTypes, Push

(* The end of a task keeps the types.                                      *)
LEMMA ExitTypes ==
  ASSUME TypeInv, NEW j \in Jobs, Exit(j)
  PROVE  RuntimeTypes' /\ HandleTypes' /\ TaskTypes' /\ OutcomeDecided'
<1>1. RuntimeTypes'
  BY DEF TypeInv, RuntimeTypes, Exit
<1>2. HandleTypes'
  BY Kept DEF Exit
<1>3. TaskTypes' /\ OutcomeDecided'
  BY DEF TypeInv, TaskTypes, OutcomeDecided, Exit, TaskPc
<1>4. QED
  BY <1>1, <1>2, <1>3

(* Every step of a task keeps the types.                                   *)
LEMMA TaskTypeInv ==
  ASSUME TypeInv, NEW j \in Jobs, TaskStep(j)
  PROVE  TypeInv'
<1> USE DEF TypeInv
<1>1. CASE Start(j)
  <2>1. HandleTypes'
    BY <1>1 DEF HandleTypes, Start, JobState
  <2>2. TaskTypes' /\ OutcomeDecided'
    BY <1>1 DEF TaskTypes, OutcomeDecided, Start, TaskPc
  <2>3. QED
    BY <1>1, <2>1, <2>2, Kept DEF Start
<1>2. CASE SetLabel(j)
  <2>1. HandleTypes'
    BY <1>2 DEF HandleTypes, SetLabel, JobState
  <2>2. TaskTypes' /\ OutcomeDecided'
    BY <1>2 DEF TaskTypes, OutcomeDecided, SetLabel, TaskPc
  <2>3. QED
    BY <1>2, <2>1, <2>2, Kept DEF SetLabel
<1>3. CASE Execute(j)
  <2>1. TaskTypes' /\ OutcomeDecided'
    BY <1>3 DEF TaskTypes, OutcomeDecided, Execute, Ends, TaskPc, Terminal
  <2>2. QED
    BY <1>3, <2>1, Kept DEF Execute, Ends
<1>4. CASE Panic(j)
  <2>1. TaskTypes' /\ OutcomeDecided'
    BY <1>4 DEF TaskTypes, OutcomeDecided, Panic, TaskPc, Terminal
  <2>2. RuntimeTypes'
    BY <1>4 DEF RuntimeTypes, Panic
  <2>3. QED
    BY <1>4, <2>1, <2>2, Kept DEF Panic
<1>5. CASE Enqueue(j)
  <2>1. outcome[j] \in Terminal
    BY <1>5 DEF OutcomeDecided, Enqueue
  <2>2. TaskTypes' /\ OutcomeDecided'
    BY <1>5, <2>1 DEF TaskTypes, OutcomeDecided, Enqueue, TaskPc
  <2>3. RuntimeTypes'
    BY <1>5, <2>1, PushTypes DEF Enqueue
  <2>4. QED
    BY <1>5, <2>2, <2>3, Kept DEF Enqueue
<1>6. CASE WriteFinal(j)
  <2>1. outcome[j] \in Terminal
    BY <1>6 DEF OutcomeDecided, WriteFinal, Settle
  <2>2. 0 \in 0..UnconsumedTTL
    BY ZeroAge
  <2>3. TaskTypes' /\ OutcomeDecided'
    BY <1>6 DEF TaskTypes, OutcomeDecided, WriteFinal, Settle, TaskPc
  <2>4. HandleTypes'
    BY <1>6, <2>1, <2>2 DEF HandleTypes, WriteFinal, Settle, JobState
  <2>5. QED
    BY <1>6, <2>3, <2>4, Kept DEF WriteFinal, Settle
<1>7. CASE Finalize(j)
  <2>1. HandleTypes'
    BY <1>7 DEF HandleTypes, Finalize
  <2>2. TaskTypes' /\ OutcomeDecided'
    BY <1>7 DEF TaskTypes, OutcomeDecided, Finalize, TaskPc
  <2>3. QED
    BY <1>7, <2>1, <2>2, Kept DEF Finalize
<1>8. CASE Notify(j)
  <2>1. CallTypes'
    BY <1>8, WokenTypes DEF Notify
  <2>2. TaskTypes' /\ OutcomeDecided'
    BY <1>8 DEF TaskTypes, OutcomeDecided, Notify, TaskPc
  <2>3. QED
    BY <1>8, <2>1, <2>2, Kept DEF Notify
<1>9. CASE Release(j)
  <2>1. owner[j] \in Actors
    BY DEF HandleTypes
  <2>2. CallTypes'
    BY <1>9, <2>1, ReturnTypes, Kept DEF Release
  <2>3. QED
    BY <1>9, <2>2, ExitTypes DEF Release
<1>10. CASE Die(j)
  BY <1>10, ExitTypes, Kept DEF Die
<1>11. QED
  BY <1>1, <1>2, <1>3, <1>4, <1>5, <1>6, <1>7, <1>8, <1>9, <1>10 DEF TaskStep, Advance

(* Every step of a call, and of the cleanup timer, keeps the types.        *)
LEMMA SweepTypeInv ==
  ASSUME TypeInv, NEW a \in Actors, Begin(a) \/ Sweep(a)
  PROVE  TypeInv'
<1> USE DEF TypeInv
<1>1. CASE Begin(a)
  <2>1. Expired \in SUBSET Jobs
    BY DEF Expired, RuntimeTypes
  <2>2. CallTypes'
    BY <1>1, <2>1 DEF CallTypes, Begin, AfterSweep, Ops, CallPc, Aimed
  <2>3. QED
    BY <1>1, <2>2, Kept DEF Begin
<1>2. CASE Sweep(a)
  <2>1. RuntimeTypes'
    BY <1>2 DEF RuntimeTypes, Sweep
  <2>2. CallTypes'
    BY <1>2 DEF CallTypes, Sweep, AfterSweep, Ops, CallPc, Aimed
  <2>3. QED
    BY <1>2, <2>1, <2>2, Kept DEF Sweep
<1>3. QED
  BY <1>1, <1>2

(* A new handle is well typed.                                             *)
LEMMA NewHandleTypes ==
  ASSUME TypeInv, NEW j \in Jobs, NEW p \in Parents,
         NEW m \in {"Background", "Foreground"}, NewHandle(j, p, m)
  PROVE  HandleTypes'
BY DEF TypeInv, HandleTypes, NewHandle, JobState, Actors

(* Every step of a tool call keeps the types.                              *)
LEMMA CallTypeInv ==
  ASSUME TypeInv, NEW p \in Parents, CallStep(p)
  PROVE  TypeInv'
<1> USE DEF TypeInv
<1>p. p \in Actors
  BY DEF Actors
<1>t. call[p] \in Aimed => target[p] \in Jobs
  BY <1>p DEF CallTypes
<1>1. CASE Admit(p)
  <2>1. CallTypes'
    BY <1>1, <1>p, ReturnTypes, GotoTypes DEF Admit, CallPc, Aimed
  <2>2. QED
    BY <1>1, <2>1, Kept DEF Admit
<1>2. CASE Insert(p)
  <2>1. PICK j \in Jobs : NewHandle(j, p, "Background") /\ jobs' = jobs \cup {j}
    BY <1>2 DEF Insert
  <2>2. HandleTypes'
    BY <2>1, NewHandleTypes
  <2>3. RuntimeTypes'
    BY <1>2, <2>1 DEF RuntimeTypes, Insert
  <2>4. CallTypes'
    BY <1>2, <1>p, <2>1 DEF CallTypes, Insert, NewHandle, CallPc
  <2>5. QED
    BY <1>2, <2>2, <2>3, <2>4, Kept DEF Insert
<1>3. CASE Launch(p)
  <2>1. target[p] \in Jobs
    BY <1>3, <1>t DEF Launch, Aimed
  <2>2. RuntimeTypes'
    BY <1>3 DEF RuntimeTypes, Launch
  <2>3. TaskTypes' /\ OutcomeDecided'
    BY <1>3, <2>1 DEF TaskTypes, OutcomeDecided, Launch, TaskPc
  <2>4. CallTypes'
    BY <1>3, <1>p, <2>1, GotoTypes DEF Launch, CallPc
  <2>5. QED
    BY <1>3, <2>2, <2>3, <2>4, Kept DEF Launch
<1>4. CASE Store(p)
  <2>1. HandleTypes'
    BY <1>4 DEF HandleTypes, Store
  <2>2. CallTypes'
    BY <1>4, <1>p, ReturnTypes DEF Store
  <2>3. QED
    BY <1>4, <2>1, <2>2, Kept DEF Store
<1>5. CASE LookupCancel(p)
  <2>1. PICK j \in KnownIds :
          IF j \in jobs
          THEN /\ cancelled' = [cancelled EXCEPT ![j] = TRUE]
               /\ target' = [target EXCEPT ![p] = j]
               /\ call' = [call EXCEPT ![p] = "abort"]
               /\ UNCHANGED <<op, expired>>
          ELSE Return(p) /\ UNCHANGED cancelled
    BY <1>5 DEF LookupCancel
  <2>2. j \in Jobs
    BY DEF KnownIds
  <2>3. HandleTypes'
    BY <1>5, <2>1 DEF HandleTypes, LookupCancel
  <2>4. CASE j \in jobs
    <3>1. CallTypes'
      BY <1>p, <2>1, <2>2, <2>4 DEF CallTypes, CallPc
    <3>2. QED
      BY <1>5, <2>3, <3>1, Kept DEF LookupCancel
  <2>5. CASE j \notin jobs
    BY <1>5, <1>p, <2>1, <2>3, <2>5, ReturnTypes, Kept DEF LookupCancel
  <2>6. QED
    BY <2>4, <2>5
<1>6. CASE Abort(p)
  <2>1. target[p] \in Jobs
    BY <1>6, <1>t DEF Abort, Aimed
  <2>2. TaskTypes' /\ OutcomeDecided'
    BY <1>6, <2>1 DEF TaskTypes, OutcomeDecided, HandleTypes, Abort
  <2>3. CallTypes'
    BY <1>6, <1>p, <2>1, GotoTypes DEF Abort, CallPc
  <2>4. QED
    BY <1>6, <2>2, <2>3, Kept DEF Abort
<1>7. CASE Mark(p)
  <2>1. target[p] \in Jobs
    BY <1>7, <1>t DEF Mark, Settle, Aimed
  <2>2. 0 \in 0..UnconsumedTTL
    BY ZeroAge
  <2>3. HandleTypes'
    BY <1>7, <2>1, <2>2 DEF HandleTypes, Mark, Settle, JobState, Terminal
  <2>4. CallTypes'
    BY <1>7, <1>p, <2>1, ReturnTypes, GotoTypes DEF Mark, Settle, CallPc
  <2>5. QED
    BY <1>7, <2>3, <2>4, Kept DEF Mark, Settle
<1>8. CASE Report(p)
  <2>1. target[p] \in Jobs
    BY <1>8, <1>t DEF Report, Aimed
  <2>2. RuntimeTypes'
    BY <1>8, <2>1, PushTypes DEF Report, Terminal
  <2>3. CallTypes'
    BY <1>8, <1>p, <2>1, GotoTypes DEF Report, CallPc
  <2>4. QED
    BY <1>8, <2>2, <2>3, Kept DEF Report
<1>9. CASE Wake(p)
  <2>1. CallTypes'
    BY <1>9, <1>p DEF CallTypes, Wake, Woken, CallPc, Aimed, Ops
  <2>2. QED
    BY <1>9, <2>1, Kept DEF Wake
<1>10. CASE LookupConsume(p)
  <2>1. PICK j \in KnownIds :
          IF j \in jobs /\ IsTerminal(state[j])
          THEN /\ target' = [target EXCEPT ![p] = j]
               /\ call' = [call EXCEPT ![p] = "consume"]
               /\ UNCHANGED <<op, expired>>
          ELSE Return(p)
    BY <1>10 DEF LookupConsume
  <2>2. j \in Jobs
    BY DEF KnownIds
  <2>3. CallTypes'
    BY <1>p, <2>1, <2>2, ReturnTypes DEF CallTypes, CallPc
  <2>4. QED
    BY <1>10, <2>3, Kept DEF LookupConsume
<1>11. CASE Consume(p)
  <2>1. HandleTypes'
    BY <1>11 DEF HandleTypes, Consume
  <2>2. QED
    BY <1>11, <1>p, <2>1, ReturnTypes, Kept DEF Consume
<1>12. CASE LookupUnknown(p)
  BY <1>12, <1>p, ReturnTypes, Kept DEF LookupUnknown
<1>13. CASE WaitCheck(p)
  <2>1. target[p] \in Jobs
    BY <1>13, <1>t DEF WaitCheck, Aimed
  <2>2. CallTypes'
    BY <1>13, <1>p, <2>1, ReturnTypes, GotoTypes DEF WaitCheck, CallPc
  <2>3. QED
    BY <1>13, <2>2, Kept DEF WaitCheck
<1>14. CASE WaitArm(p)
  <2>1. target[p] \in Jobs
    BY <1>14, <1>t DEF WaitArm, Aimed
  <2>2. CallTypes'
    BY <1>14, <1>p, <2>1, GotoTypes DEF WaitArm, CallPc
  <2>3. QED
    BY <1>14, <2>2, Kept DEF WaitArm
<1>15. CASE WaitPoll(p)
  <2>1. target[p] \in Jobs
    BY <1>15, <1>t DEF WaitPoll, Aimed
  <2>2. CallTypes'
    BY <1>15, <1>p, <2>1, GotoTypes DEF WaitPoll, CallPc
  <2>3. QED
    BY <1>15, <2>2, Kept DEF WaitPoll
<1>16. QED
  BY <1>1, <1>2, <1>3, <1>4, <1>5, <1>6, <1>7, <1>8, <1>9, <1>10, <1>11, <1>12,
     <1>13, <1>14, <1>15 DEF CallStep

(* So does what a parent does on its own.                                  *)
LEMMA EnvironmentTypeInv ==
  ASSUME TypeInv, NEW p \in Parents, Environment(p)
  PROVE  TypeInv'
<1> USE DEF TypeInv
<1>p. p \in Actors
  BY DEF Actors
<1>t. call[p] \in Aimed => target[p] \in Jobs
  BY <1>p DEF CallTypes
<1>1. CASE RunSync(p)
  <2>1. PICK j \in Jobs : /\ NewHandle(j, p, "Foreground")
                          /\ pc' = [pc EXCEPT ![j] = "queued"]
    BY <1>1 DEF RunSync
  <2>2. HandleTypes'
    BY <2>1, NewHandleTypes
  <2>3. TaskTypes' /\ OutcomeDecided'
    BY <1>1, <2>1 DEF TaskTypes, OutcomeDecided, RunSync, TaskPc
  <2>4. CallTypes'
    BY <1>1, <1>p, <2>1 DEF CallTypes, RunSync, NewHandle, CallPc
  <2>5. QED
    BY <1>1, <2>2, <2>3, <2>4, Kept DEF RunSync
<1>2. CASE WaitBegin(p)
  <2>1. CallTypes'
    BY <1>2, <1>p DEF CallTypes, RuntimeTypes, WaitBegin, CallPc
  <2>2. QED
    BY <1>2, <2>1, Kept DEF WaitBegin
<1>3. CASE WaitDeadline(p)
  BY <1>3, <1>p, ReturnTypes, Kept DEF WaitDeadline
<1>4. CASE TakeNotifications(p)
  <2>1. RuntimeTypes'
    BY <1>4 DEF RuntimeTypes, TakeNotifications
  <2>2. QED
    BY <1>4, <2>1, Kept DEF TakeNotifications
<1>5. CASE Drop(p)
  <2>1. CallTypes'
    BY <1>5, <1>p, ReturnTypes DEF Drop
  <2>2. CASE call[p] = "joined"
    <3>1. target[p] \in Jobs
      BY <2>2, <1>t DEF Aimed
    <3>2. QED
      BY <1>5, <2>1, <2>2, <3>1, ExitTypes DEF Drop
  <2>3. CASE call[p] # "joined"
    BY <1>5, <2>1, <2>3, Kept DEF Drop
  <2>4. QED
    BY <2>2, <2>3
<1>6. QED
  BY <1>1, <1>2, <1>3, <1>4, <1>5 DEF Environment

(* No job grows older than the longer time to live.                        *)
LEMMA TickTypeInv ==
  ASSUME TypeInv, Tick
  PROVE  TypeInv'
<1> USE DEF TypeInv
<1>1. UnconsumedTTL \in Nat
  BY ConstantsAssumption
<1>2. age' \in [Jobs -> 0..UnconsumedTTL]
  BY <1>1 DEF HandleTypes, Tick
<1>3. HandleTypes'
  BY <1>2 DEF HandleTypes, Tick
<1>4. QED
  BY <1>3, Kept DEF Tick

(* The runtime's state is well typed in every reachable state, and a call  *)
(* that has to unwrap its handle always has one.                           *)
THEOREM TypeCorrect == Spec => []TypeOK
<1>1. Init => TypeInv
  BY InitTypeInv
<1>2. TypeInv /\ [Next]_vars => TypeInv'
  <2> SUFFICES ASSUME TypeInv, [Next]_vars PROVE TypeInv'
    OBVIOUS
  <2>1. CASE \E j \in Jobs : TaskStep(j)
    BY <2>1, TaskTypeInv
  <2>2. CASE \E a \in Actors : Begin(a) \/ Sweep(a)
    BY <2>2, SweepTypeInv
  <2>3. CASE \E p \in Parents : CallStep(p) \/ Environment(p)
    BY <2>3, CallTypeInv, EnvironmentTypeInv
  <2>4. CASE Tick
    BY <2>4, TickTypeInv
  <2>5. CASE UNCHANGED vars
    BY <2>5, Kept DEF vars, TypeInv
  <2>6. QED
    BY <2>1, <2>2, <2>3, <2>4, <2>5 DEF Next
<1>3. TypeInv => TypeOK
  BY DEF TypeInv, TypeOK
<1>4. QED
  BY <1>1, <1>2, <1>3, PTL DEF Spec

-----------------------------------------------------------------------------
(* Slots and handles.                                                      *)

(* The steps a task takes after a panic has been caught.                   *)
Unwinding == {"enqueue", "write", "finalize", "notify", "release", "exited"}

UnwoundLate == \A j \in Jobs : unwound[j] => pc[j] \in Unwinding

AbsentUnborn == \A j \in Jobs : state[j] = "Absent" => pc[j] = "unborn"

(* A parent about to spawn a task alone holds a job that has none yet ...  *)
LaunchOwns ==
  \A p \in Parents : call[p] = "launch" =>
    /\ state[target[p]] # "Absent" /\ mode[target[p]] = "Background"
    /\ pc[target[p]] = "unborn"
    /\ \A q \in Parents : call[q] = "launch" /\ target[q] = target[p] => q = p

(* ... and nothing else makes a job without a task.                        *)
UnbornLaunched ==
  \A j \in Jobs : state[j] # "Absent" /\ pc[j] = "unborn" =>
    \E p \in Parents : call[p] = "launch" /\ target[p] = j

(* A parent inside run_sync and its foreground job hold on to each other.  *)
JoinedForeground ==
  \A p \in Parents : call[p] = "joined" =>
    state[target[p]] # "Absent" /\ mode[target[p]] = "Foreground"

ForegroundJoined ==
  \A j \in Jobs : mode[j] = "Foreground" /\ pc[j] \notin {"unborn", "exited"} =>
    owner[j] \in Parents /\ call[owner[j]] = "joined" /\ target[owner[j]] = j

(* cancel_job works on a job that exists.                                  *)
CancelKnown ==
  \A p \in Parents : call[p] \in {"abort", "mark"} => state[target[p]] # "Absent"

LifeInv == /\ UnwoundLate /\ AbsentUnborn /\ LaunchOwns /\ UnbornLaunched
           /\ JoinedForeground /\ ForegroundJoined

-----------------------------------------------------------------------------
(* Most steps touch neither the calls that hold a job this way ...         *)
Pinned == {"launch", "joined"}

PinnedKept ==
  \A p \in Parents : call[p] \in Pinned \/ call'[p] \in Pinned
                       => call'[p] = call[p] /\ target'[p] = target[p]

(* ... nor the beginning and the end of a job's life.                      *)
StagesKept ==
  \A j \in Jobs : /\ state'[j] = "Absent" <=> state[j] = "Absent"
                  /\ mode'[j] = mode[j] /\ owner'[j] = owner[j]
                  /\ pc'[j] = "unborn" <=> pc[j] = "unborn"
                  /\ pc[j] = "exited" => pc'[j] = "exited"

(* Then who holds which job stays true.                                    *)
LEMMA LifeKept ==
  ASSUME TypeInv, LifeInv, PinnedKept, StagesKept, UnwoundLate'
  PROVE  LifeInv'
<1> USE DEF LifeInv, PinnedKept, StagesKept, Pinned
<1>1. \A p \in Parents : call[p] \in Pinned => target[p] \in Jobs
  BY DEF TypeInv, CallTypes, Actors, Aimed
<1>2. AbsentUnborn'
  BY DEF AbsentUnborn
<1>3. LaunchOwns'
  BY <1>1 DEF LaunchOwns
<1>4. UnbornLaunched'
  BY DEF UnbornLaunched
<1>5. JoinedForeground'
  BY <1>1 DEF JoinedForeground
<1>6. ForegroundJoined'
  BY DEF ForegroundJoined
<1>7. QED
  BY <1>2, <1>3, <1>4, <1>5, <1>6

(* In particular when no task and no new job is involved.                  *)
LEMMA LifeUnchanged ==
  ASSUME TypeInv, LifeInv, PinnedKept, UNCHANGED <<taskVars, mode, owner>>,
         \A j \in Jobs : state'[j] = "Absent" <=> state[j] = "Absent"
  PROVE  LifeInv'
<1>1. StagesKept
  BY DEF StagesKept, taskVars
<1>2. UnwoundLate'
  BY DEF LifeInv, UnwoundLate, taskVars
<1>3. QED
  BY <1>1, <1>2, LifeKept

(* At first nobody holds anything.                                         *)
LEMMA InitLife == Init => LifeInv
BY DEF Init, LifeInv, UnwoundLate, AbsentUnborn, LaunchOwns, UnbornLaunched,
       JoinedForeground, ForegroundJoined, Actors

(* A task keeps the hold of the call that waits for it, and lets go of it  *)
(* when it ends.                                                           *)
LEMMA TaskLife ==
  ASSUME TypeInv, LifeInv, NEW j \in Jobs, TaskStep(j)
  PROVE  LifeInv'
<1> USE DEF TypeInv, HandleTypes, TaskTypes, Unwinding, handleVars, taskVars, callVars
<1>1. CASE ~Release(j)
  <2>1. PinnedKept
    BY <1>1 DEF PinnedKept, Pinned, TaskStep, Advance, Start, SetLabel, Execute, Ends, Panic, Enqueue,
       WriteFinal, Settle, Finalize, Notify, Die, Woken, Actors
  <2>2. StagesKept
    <3>1. CASE Start(j)      BY <3>1 DEF StagesKept, Start, LifeInv, AbsentUnborn
    <3>2. CASE SetLabel(j)   BY <3>2 DEF StagesKept, SetLabel
    <3>3. CASE Execute(j)    BY <3>3 DEF StagesKept, Execute, Ends
    <3>4. CASE Panic(j)      BY <3>4 DEF StagesKept, Panic
    <3>5. CASE Enqueue(j)    BY <3>5 DEF StagesKept, Enqueue
    <3>6. CASE WriteFinal(j)
      BY <3>6 DEF StagesKept, WriteFinal, Settle, LifeInv, AbsentUnborn, OutcomeDecided, Terminal
    <3>7. CASE Finalize(j)   BY <3>7 DEF StagesKept, Finalize
    <3>8. CASE Notify(j)     BY <3>8 DEF StagesKept, Notify
    <3>9. CASE Die(j)        BY <3>9 DEF StagesKept, Die, Exit, AwaitPoint
    <3>10. QED
      BY <1>1, <3>1, <3>2, <3>3, <3>4, <3>5, <3>6, <3>7, <3>8, <3>9 DEF TaskStep, Advance
  <2>3. UnwoundLate'
    <3> USE DEF LifeInv, UnwoundLate
    <3>1. CASE Start(j)      BY <3>1 DEF Start
    <3>2. CASE SetLabel(j)   BY <3>2 DEF SetLabel
    <3>3. CASE Execute(j)    BY <3>3 DEF Execute, Ends
    <3>4. CASE Panic(j)      BY <3>4 DEF Panic
    <3>5. CASE Enqueue(j)    BY <3>5 DEF Enqueue
    <3>6. CASE WriteFinal(j) BY <3>6 DEF WriteFinal, Settle
    <3>7. CASE Finalize(j)   BY <3>7 DEF Finalize
    <3>8. CASE Notify(j)     BY <3>8 DEF Notify
    <3>9. CASE Die(j)        BY <3>9 DEF Die, Exit
    <3>10. QED
      BY <1>1, <3>1, <3>2, <3>3, <3>4, <3>5, <3>6, <3>7, <3>8, <3>9 DEF TaskStep, Advance
  <2>4. QED
    BY <2>1, <2>2, <2>3, LifeKept
<1>2. CASE Release(j) /\ mode[j] = "Background"
  <2>1. PinnedKept
    BY <1>2 DEF PinnedKept, Release
  <2>2. StagesKept
    BY <1>2 DEF StagesKept, Release, Exit
  <2>3. UnwoundLate'
    BY <1>2 DEF LifeInv, UnwoundLate, Release, Exit
  <2>4. QED
    BY <2>1, <2>2, <2>3, LifeKept
<1>3. CASE Release(j) /\ mode[j] = "Foreground"
  <2>1. /\ owner[j] \in Parents /\ call[owner[j]] = "joined" /\ target[owner[j]] = j
    BY <1>3 DEF Release, LifeInv, ForegroundJoined
  <2>2. /\ call' = [call EXCEPT ![owner[j]] = "idle"]
        /\ target' = [target EXCEPT ![owner[j]] = NoJob]
        /\ pc' = [pc EXCEPT ![j] = "exited"] /\ UNCHANGED <<state, mode, owner, unwound>>
    BY <1>3 DEF Release, Exit, Return
  <2>3. UnwoundLate' /\ AbsentUnborn' /\ JoinedForeground' /\ ForegroundJoined'
    BY <1>3, <2>1, <2>2 DEF Release, LifeInv, UnwoundLate, AbsentUnborn,
       JoinedForeground, ForegroundJoined, CallTypes, Actors
  <2>4. LaunchOwns' /\ UnbornLaunched'
    BY <1>3, <2>1, <2>2 DEF Release, LifeInv, LaunchOwns, UnbornLaunched, CallTypes,
       Actors, Aimed
  <2>5. QED
    BY <2>3, <2>4 DEF LifeInv
<1>4. QED
  BY <1>1, <1>2, <1>3

(* A spawn holds the job that it has put into the map ...                  *)
LEMMA InsertLife ==
  ASSUME TypeInv, LifeInv, NEW p \in Parents, Insert(p)
  PROVE  LifeInv'
<1>1. PICK j \in Jobs : NewHandle(j, p, "Background")
  BY DEF Insert
<1>2. /\ call[p] = "insert" /\ call' = [call EXCEPT ![p] = "launch"]
      /\ target' = [target EXCEPT ![p] = j] /\ state[j] = "Absent"
      /\ state' = [state EXCEPT ![j] = "Pending"]
      /\ mode' = [mode EXCEPT ![j] = "Background"]
      /\ owner' = [owner EXCEPT ![j] = p] /\ UNCHANGED <<pc, unwound>>
  BY <1>1 DEF Insert, NewHandle, taskVars
<1>3. p \in Actors /\ pc[j] = "unborn"
  BY <1>2 DEF LifeInv, AbsentUnborn, Actors
<1> USE <1>2, <1>3 DEF TypeInv, HandleTypes, CallTypes, LifeInv, Actors, Aimed
<1>4. UnwoundLate' /\ AbsentUnborn'
  BY DEF UnwoundLate, AbsentUnborn
<1>5. LaunchOwns'
  BY DEF LaunchOwns
<1>6. UnbornLaunched'
  BY DEF UnbornLaunched
<1>7. JoinedForeground' /\ ForegroundJoined'
  BY DEF JoinedForeground, ForegroundJoined
<1>8. QED
  BY <1>4, <1>5, <1>6, <1>7

(* ... until it has started its task.                                      *)
LEMMA LaunchLife ==
  ASSUME TypeInv, LifeInv, NEW p \in Parents, Launch(p)
  PROVE  LifeInv'
<1>1. /\ call[p] = "launch" /\ call' = [call EXCEPT ![p] = "store"]
      /\ pc' = [pc EXCEPT ![target[p]] = "queued"]
      /\ UNCHANGED <<target, state, mode, owner, unwound>>
  BY DEF Launch, Goto, handleVars
<1>2. p \in Actors /\ target[p] \in Jobs
  BY <1>1 DEF TypeInv, CallTypes, Actors, Aimed
<1> USE <1>1, <1>2 DEF TypeInv, HandleTypes, TaskTypes, CallTypes, LifeInv, Actors, Aimed
<1>3. UnwoundLate' /\ AbsentUnborn'
  BY DEF UnwoundLate, AbsentUnborn, LaunchOwns, Unwinding
<1>4. LaunchOwns'
  BY DEF LaunchOwns
<1>5. UnbornLaunched'
  BY DEF UnbornLaunched
<1>6. JoinedForeground' /\ ForegroundJoined'
  BY DEF JoinedForeground, ForegroundJoined, LaunchOwns
<1>7. QED
  BY <1>3, <1>4, <1>5, <1>6

(* A foreground run holds its job from the start.                          *)
LEMMA RunSyncLife ==
  ASSUME TypeInv, LifeInv, NEW p \in Parents, RunSync(p)
  PROVE  LifeInv'
<1>1. PICK j \in Jobs : NewHandle(j, p, "Foreground") /\ pc' = [pc EXCEPT ![j] = "queued"]
  BY DEF RunSync
<1>2. /\ call[p] = "idle" /\ call' = [call EXCEPT ![p] = "joined"]
      /\ target' = [target EXCEPT ![p] = j] /\ state[j] = "Absent"
      /\ state' = [state EXCEPT ![j] = "Pending"]
      /\ mode' = [mode EXCEPT ![j] = "Foreground"]
      /\ owner' = [owner EXCEPT ![j] = p] /\ UNCHANGED unwound
      /\ pc' = [pc EXCEPT ![j] = "queued"]
  BY <1>1 DEF RunSync, NewHandle
<1>3. p \in Actors /\ pc[j] = "unborn"
  BY <1>2 DEF LifeInv, AbsentUnborn, Actors
<1> USE <1>2, <1>3 DEF TypeInv, HandleTypes, TaskTypes, CallTypes, LifeInv, Actors, Aimed
<1>4. UnwoundLate' /\ AbsentUnborn'
  BY DEF UnwoundLate, AbsentUnborn, Unwinding
<1>5. LaunchOwns'
  BY DEF LaunchOwns
<1>6. UnbornLaunched'
  BY DEF UnbornLaunched
<1>7. JoinedForeground' /\ ForegroundJoined'
  BY DEF JoinedForeground, ForegroundJoined
<1>8. QED
  BY <1>4, <1>5, <1>6, <1>7

(* A call that is dropped takes its foreground job along.                  *)
LEMMA DropLife ==
  ASSUME TypeInv, LifeInv, NEW p \in Parents, Drop(p)
  PROVE  LifeInv'
<1>0. p \in Actors
  BY DEF Actors
<1>1. CASE call[p] = "joined"
  <2>1. target[p] \in Jobs
    BY <1>0, <1>1 DEF TypeInv, CallTypes, Aimed
  <2>2. /\ call' = [call EXCEPT ![p] = "idle"]
        /\ target' = [target EXCEPT ![p] = NoJob]
        /\ pc' = [pc EXCEPT ![target[p]] = "exited"]
        /\ UNCHANGED <<state, mode, owner, unwound>>
    BY <1>1 DEF Drop, Exit, Return, handleVars
  <2> USE <1>0, <1>1, <2>1, <2>2
      DEF TypeInv, HandleTypes, TaskTypes, CallTypes, LifeInv, Actors, Aimed
  <2>3. UnwoundLate' /\ AbsentUnborn'
    BY DEF UnwoundLate, AbsentUnborn, JoinedForeground, Unwinding
  <2>4. LaunchOwns' /\ UnbornLaunched'
    BY DEF LaunchOwns, UnbornLaunched, JoinedForeground
  <2>5. JoinedForeground' /\ ForegroundJoined'
    BY DEF JoinedForeground, ForegroundJoined
  <2>6. QED
    BY <2>3, <2>4, <2>5
<1>2. CASE call[p] # "joined"
  <2>1. PinnedKept
    BY <1>0, <1>2 DEF Drop, Return, PinnedKept, Pinned, TypeInv, CallTypes, Actors
  <2>2. UNCHANGED <<taskVars, mode, owner, state>>
    BY <1>2 DEF Drop, handleVars
  <2>3. QED
    BY <2>1, <2>2, LifeUnchanged
<1>3. QED
  BY <1>1, <1>2

(* Every step of a tool call keeps the holds.                              *)
LEMMA CallLife ==
  ASSUME TypeInv, LifeInv, CancelKnown, NEW p \in Parents, CallStep(p)
  PROVE  LifeInv'
<1>0. p \in Actors
  BY DEF Actors
<1>1. CASE ~Insert(p) /\ ~Launch(p)
  <2>1. PinnedKept
    <3> USE <1>0 DEF PinnedKept, Pinned, TypeInv, CallTypes, Actors, Return, Goto
    <3>1. CASE Admit(p) \/ Store(p)
      BY <3>1 DEF Admit, Store
    <3>2. CASE LookupCancel(p) \/ Abort(p) \/ Mark(p) \/ Report(p) \/ Wake(p)
      BY <3>2 DEF LookupCancel, Abort, Mark, Settle, Report, Wake, Woken
    <3>3. CASE LookupConsume(p) \/ Consume(p) \/ LookupUnknown(p)
      BY <3>3 DEF LookupConsume, Consume, LookupUnknown
    <3>4. CASE WaitCheck(p) \/ WaitArm(p) \/ WaitPoll(p)
      BY <3>4 DEF WaitCheck, WaitArm, WaitPoll
    <3>5. QED
      BY <1>1, <3>1, <3>2, <3>3, <3>4 DEF CallStep
  <2>2. UNCHANGED <<pc, unwound, mode, owner>>
    BY <1>1 DEF CallStep, Admit, Store, LookupCancel, Abort, Mark, Settle, Report, Wake,
       LookupConsume, Consume, LookupUnknown, WaitCheck, WaitArm, WaitPoll,
       handleVars, taskVars
  <2>3. \A j \in Jobs : state'[j] = "Absent" <=> state[j] = "Absent"
    <3>1. CASE Mark(p)
      <4>1. target[p] \in Jobs
        BY <1>0, <3>1 DEF Mark, Settle, TypeInv, CallTypes, Aimed
      <4>2. state[target[p]] # "Absent"
        BY <3>1 DEF Mark, Settle, CancelKnown
      <4>4. QED
        BY <3>1, <4>1, <4>2 DEF Mark, Settle, TypeInv, HandleTypes
    <3>2. CASE ~Mark(p)
      BY <1>1, <3>2 DEF CallStep, Admit, Store, LookupCancel, Abort, Report, Wake,
         LookupConsume, Consume, LookupUnknown, WaitCheck, WaitArm, WaitPoll, handleVars
    <3>3. QED
      BY <3>1, <3>2
  <2>4. QED
    BY <2>1, <2>2, <2>3, LifeKept DEF StagesKept, LifeInv, UnwoundLate
<1>2. QED
  BY <1>1, InsertLife, LaunchLife DEF CallStep

(* So does what a parent does on its own.                                  *)
LEMMA EnvironmentLife ==
  ASSUME TypeInv, LifeInv, NEW p \in Parents, Environment(p)
  PROVE  LifeInv'
<1>0. p \in Actors
  BY DEF Actors
<1>1. CASE WaitBegin(p) \/ WaitDeadline(p) \/ TakeNotifications(p)
  <2>1. PinnedKept
    BY <1>0, <1>1 DEF PinnedKept, Pinned, TypeInv, CallTypes, Actors, Return,
       WaitBegin, WaitDeadline, TakeNotifications, callVars
  <2>2. UNCHANGED <<taskVars, mode, owner, state>>
    BY <1>1 DEF WaitBegin, WaitDeadline, TakeNotifications, handleVars
  <2>3. QED
    BY <2>1, <2>2, LifeUnchanged
<1>2. QED
  BY <1>1, RunSyncLife, DropLife DEF Environment

(* The cleanup holds nothing.                                              *)
LEMMA SweepLife ==
  ASSUME TypeInv, LifeInv, NEW a \in Actors, Begin(a) \/ Sweep(a)
  PROVE  LifeInv'
<1>1. PinnedKept
  BY DEF PinnedKept, Pinned, TypeInv, CallTypes, Actors, Begin, Sweep, AfterSweep, Ops
<1>2. UNCHANGED <<taskVars, mode, owner, state>>
  BY DEF Begin, Sweep, handleVars
<1>3. QED
  BY <1>1, <1>2, LifeUnchanged

(* The clock neither.                                                      *)
LEMMA TickLife ==
  ASSUME TypeInv, LifeInv, Tick
  PROVE  LifeInv'
BY LifeUnchanged DEF PinnedKept, Tick, callVars

(* No step forgets a handle ...                                            *)
LEMMA HandlesStay ==
  ASSUME TypeInv, Next
  PROVE  \A j \in Jobs : state[j] # "Absent" => state'[j] # "Absent"
<1> USE DEF TypeInv, HandleTypes, handleVars
<1>1. ASSUME NEW j \in Jobs, TaskStep(j)
      PROVE  \A i \in Jobs : state[i] # "Absent" => state'[i] # "Absent"
  <2>1. CASE Start(j)
    BY <2>1 DEF Start
  <2>2. CASE WriteFinal(j)
    BY <2>2 DEF WriteFinal, Settle, OutcomeDecided, Terminal
  <2>3. CASE ~Start(j) /\ ~WriteFinal(j)
    BY <1>1, <2>3 DEF TaskStep, Advance, SetLabel, Execute, Ends, Panic, Enqueue, Finalize, Notify,
       Release, Die, Exit
  <2>4. QED
    BY <2>1, <2>2, <2>3
<1>2. ASSUME NEW a \in Actors, Begin(a) \/ Sweep(a) PROVE UNCHANGED state
  BY <1>2 DEF Begin, Sweep
<1>3. ASSUME NEW p \in Parents, CallStep(p)
      PROVE  \A i \in Jobs : state[i] # "Absent" => state'[i] # "Absent"
  <2>1. CASE Insert(p)
    BY <2>1 DEF Insert, NewHandle
  <2>2. CASE Mark(p)
    BY <2>2 DEF Mark, Settle
  <2>3. CASE ~Insert(p) /\ ~Mark(p)
    BY <1>3, <2>3 DEF CallStep, Admit, Launch, Store, LookupCancel, Abort, Report,
       Wake, LookupConsume, Consume, LookupUnknown, WaitCheck, WaitArm, WaitPoll
  <2>4. QED
    BY <2>1, <2>2, <2>3
<1>4. ASSUME NEW p \in Parents, Environment(p)
      PROVE  \A i \in Jobs : state[i] # "Absent" => state'[i] # "Absent"
  BY <1>4 DEF Environment, RunSync, NewHandle, WaitBegin, WaitDeadline,
     TakeNotifications, Drop, Exit
<1>5. CASE Tick
  BY <1>5 DEF Tick
<1>6. QED
  BY <1>1, <1>2, <1>3, <1>4, <1>5 DEF Next

(* ... and a cancel keeps the handle it has looked up.                     *)
LEMMA CancelKnownKept ==
  ASSUME TypeInv, CancelKnown, Next
  PROVE  CancelKnown'
<1> DEFINE Working(p) == call[p] \in {"abort", "mark"}
<1> USE DEF TypeInv, CallTypes, Actors, Return, Goto, callVars, CancelKnown
<1>1. SUFFICES \A p \in Parents : Working(p)' =>
                 \/ Working(p) /\ target'[p] = target[p]
                 \/ state[target'[p]] # "Absent" /\ target'[p] \in Jobs
  BY HandlesStay DEF Aimed
<1>2. ASSUME NEW j \in Jobs, TaskStep(j)
      PROVE  \A p \in Parents : Working(p)' => Working(p) /\ target'[p] = target[p]
  BY <1>2 DEF TaskStep, Advance, Start, SetLabel, Execute, Ends, Panic, Enqueue, WriteFinal, Settle,
     Finalize, Notify, Woken, Release, Die
<1>3. ASSUME NEW a \in Actors, Begin(a) \/ Sweep(a)
      PROVE  \A p \in Parents : Working(p)' => Working(p) /\ target'[p] = target[p]
  BY <1>3 DEF Begin, Sweep, AfterSweep, Ops
<1>4. ASSUME NEW q \in Parents, CallStep(q)
      PROVE  \A p \in Parents : Working(p)' =>
               \/ Working(p) /\ target'[p] = target[p]
               \/ state[target'[p]] # "Absent" /\ target'[p] \in Jobs
  <2>1. CASE LookupCancel(q)
    BY <2>1 DEF LookupCancel, KnownIds
  <2>2. CASE ~LookupCancel(q)
    BY <1>4, <2>2 DEF CallStep, Admit, Insert, NewHandle, Launch, Store, Abort, Mark, Settle,
       Report, Wake, Woken, LookupConsume, Consume, LookupUnknown, WaitCheck, WaitArm,
       WaitPoll
  <2>3. QED
    BY <2>1, <2>2
<1>5. ASSUME NEW q \in Parents, Environment(q)
      PROVE  \A p \in Parents : Working(p)' => Working(p) /\ target'[p] = target[p]
  BY <1>5 DEF Environment, RunSync, NewHandle, WaitBegin, WaitDeadline,
     TakeNotifications, Drop
<1>6. CASE Tick
  BY <1>6 DEF Tick
<1>7. QED
  BY <1>2, <1>3, <1>4, <1>5, <1>6 DEF Next

IInv == TypeInv /\ LifeInv /\ CancelKnown

(* Every step keeps the types ...                                          *)
LEMMA NextTypeInv ==
  ASSUME TypeInv, [Next]_vars
  PROVE  TypeInv'
<1>1. CASE Next
  BY <1>1, TaskTypeInv, SweepTypeInv, CallTypeInv, EnvironmentTypeInv, TickTypeInv DEF Next
<1>2. CASE UNCHANGED vars
  BY <1>2, Kept DEF vars, TypeInv
<1>3. QED
  BY <1>1, <1>2

(* ... and the holds.                                                      *)
LEMMA LifeStep ==
  ASSUME IInv, [Next]_vars
  PROVE  IInv'
<1> USE DEF IInv
<1>1. TypeInv'
  BY NextTypeInv
<1>2. CASE Next
  <2>1. LifeInv'
    BY <1>2, TaskLife, SweepLife, CallLife, EnvironmentLife, TickLife DEF Next
  <2>2. QED
    BY <1>1, <1>2, <2>1, CancelKnownKept
<1>3. CASE UNCHANGED vars
  <2>1. LifeInv'
    BY <1>3, LifeUnchanged DEF vars, handleVars, callVars, PinnedKept
  <2>2. QED
    BY <1>1, <1>3, <2>1 DEF vars, handleVars, callVars, CancelKnown
<1>4. QED
  BY <1>2, <1>3

(* Who holds each job at every stage of its life: the inductive invariant. *)
THEOREM LifeInvariant == Spec => []IInv
<1>1. Init => IInv
  BY InitTypeInv, InitLife DEF IInv, CancelKnown, Init, Actors
<1>2. QED
  BY <1>1, LifeStep, PTL DEF Spec

-----------------------------------------------------------------------------
(* The slots.                                                              *)

(* The slots in use are finitely many.                                     *)
LEMMA SlotsFinite == Slots \in SUBSET Jobs /\ IsFiniteSet(Slots)
<1>1. Slots \subseteq Jobs
  BY DEF Slots
<1>2. IsFiniteSet(Jobs)
  BY ConstantsAssumption
<1>3. QED
  BY <1>1, <1>2, FS_Subset

(* A task that ends gives back the slot it has, and no other.              *)
LEMMA ExitSlots ==
  ASSUME IInv, CounterExact, NEW j \in Jobs, pc[j] \notin {"unborn", "exited"}, Exit(j)
  PROVE  CounterExact'
<1> USE DEF IInv, TypeInv, TaskTypes, HandleTypes
<1>1. CASE j \in Slots
  <2>1. Slots' = Slots \ {j} /\ running' = running - 1
    BY <1>1 DEF Slots, Exit, handleVars
  <2>2. QED
    BY <1>1, <2>1, SlotsFinite, FS_RemoveElement DEF CounterExact
<1>2. CASE j \notin Slots
  <2>1. Slots' = Slots /\ running' = running
    BY <1>2 DEF Slots, Exit, handleVars
  <2>2. QED
    BY <2>1 DEF CounterExact
<1>3. QED
  BY <1>1, <1>2

(* Steps that change neither the slots nor the counter.                    *)
LEMMA SlotsKept ==
  ASSUME Slots' = Slots, running' = running, CounterExact
  PROVE  CounterExact'
BY DEF CounterExact

(* A task gives its slot back once, when it ends or panics.                *)
LEMMA TaskSlots ==
  ASSUME IInv, CounterExact, NEW j \in Jobs, TaskStep(j)
  PROVE  CounterExact'
<1> USE DEF IInv, TypeInv, TaskTypes, HandleTypes
<1>1. CASE Panic(j)
  <2>1. ~unwound[j]
    BY <1>1 DEF Panic, LifeInv, UnwoundLate, Unwinding
  <2>2. j \in Slots /\ Slots' = Slots \ {j} /\ running' = running - 1
    BY <1>1, <2>1 DEF Panic, Slots, handleVars
  <2>3. QED
    BY <2>2, SlotsFinite, FS_RemoveElement DEF CounterExact
<1>2. CASE Release(j)
  BY <1>2, ExitSlots DEF Release
<1>3. CASE Die(j)
  BY <1>3, ExitSlots DEF Die, AwaitPoint
<1>4. CASE Start(j)
  BY <1>4, SlotsKept DEF Start, Slots
<1>5. CASE SetLabel(j)
  BY <1>5, SlotsKept DEF SetLabel, Slots
<1>6. CASE Execute(j)
  BY <1>6, SlotsKept DEF Execute, Ends, Slots, handleVars
<1>7. CASE Enqueue(j)
  BY <1>7, SlotsKept DEF Enqueue, Slots, handleVars
<1>8. CASE WriteFinal(j)
  BY <1>8, SlotsKept DEF WriteFinal, Settle, Slots
<1>9. CASE Finalize(j)
  BY <1>9, SlotsKept DEF Finalize, Slots
<1>10. CASE Notify(j)
  BY <1>10, SlotsKept DEF Notify, Slots, handleVars
<1>11. QED
  BY <1>1, <1>2, <1>3, <1>4, <1>5, <1>6, <1>7, <1>8, <1>9, <1>10 DEF TaskStep, Advance

(* A spawn takes one slot, and a dropped foreground run has none to give.  *)
LEMMA CallSlots ==
  ASSUME IInv, CounterExact, NEW p \in Parents, CallStep(p) \/ Environment(p)
  PROVE  CounterExact'
<1> USE DEF IInv, TypeInv, TaskTypes, HandleTypes
<1>p. p \in Actors
  BY DEF Actors
<1>1. CASE Launch(p)
  <2>1. /\ target[p] \in Jobs /\ pc[target[p]] = "unborn"
        /\ mode[target[p]] = "Background" /\ ~unwound[target[p]]
    BY <1>1, <1>p DEF Launch, CallTypes, Aimed, LifeInv, LaunchOwns, UnwoundLate, Unwinding
  <2>2. /\ target[p] \notin Slots /\ Slots' = Slots \cup {target[p]}
        /\ running' = running + 1
    BY <1>1, <2>1 DEF Launch, Slots, handleVars
  <2>3. QED
    BY <2>2, SlotsFinite, FS_AddElement DEF CounterExact
<1>2. CASE Insert(p) \/ RunSync(p)
  <2>1. PICK j \in Jobs, m \in {"Background", "Foreground"} :
          /\ NewHandle(j, p, m) /\ running' = running /\ unwound' = unwound
          /\ \/ pc' = pc
             \/ pc' = [pc EXCEPT ![j] = "queued"] /\ m = "Foreground"
    BY <1>2 DEF Insert, RunSync, taskVars
  <2>2. pc[j] = "unborn" /\ mode' = [mode EXCEPT ![j] = m]
    BY <2>1 DEF NewHandle, LifeInv, AbsentUnborn
  <2>3. Slots' = Slots
    BY <2>1, <2>2 DEF Slots
  <2>4. QED
    BY <2>1, <2>3, SlotsKept
<1>3. CASE Drop(p) /\ call[p] = "joined"
  <2>1. /\ target[p] \in Jobs /\ mode[target[p]] = "Foreground" /\ Exit(target[p])
    BY <1>3, <1>p DEF Drop, CallTypes, Aimed, LifeInv, JoinedForeground
  <2>2. Slots' = Slots /\ running' = running
    BY <2>1 DEF Slots, Exit, handleVars
  <2>3. QED
    BY <2>2, SlotsKept
<1>4. CASE ~Launch(p) /\ ~Insert(p) /\ ~RunSync(p) /\ ~(Drop(p) /\ call[p] = "joined")
  <2>1. UNCHANGED <<running, mode, unwound, pc>>
    BY <1>4 DEF CallStep, Environment, Admit, Store, LookupCancel, Abort, Mark, Settle, Report,
       Wake, LookupConsume, Consume, LookupUnknown, WaitCheck, WaitArm, WaitPoll,
       WaitBegin, WaitDeadline, TakeNotifications, Drop, handleVars, taskVars
  <2>2. QED
    BY <2>1, SlotsKept DEF Slots
<1>5. QED
  BY <1>1, <1>2, <1>3, <1>4

(* running_jobs is the number of background tasks that still run: no       *)
(* completion, panic, abort or dropped call leaks a slot or returns one    *)
(* twice, whatever the number of jobs and parents.                         *)
THEOREM CounterCorrect == Spec => []CounterExact
<1>1. Init => CounterExact
  <2> SUFFICES ASSUME Init PROVE CounterExact
    OBVIOUS
  <2>1. Slots = {}
    BY DEF Init, Slots
  <2>2. QED
    BY <2>1, FS_EmptySet DEF Init, CounterExact
<1>2. IInv /\ CounterExact /\ [Next]_vars => CounterExact'
  <2> SUFFICES ASSUME IInv, CounterExact, [Next]_vars PROVE CounterExact'
    OBVIOUS
  <2>1. CASE \E j \in Jobs : TaskStep(j)
    BY <2>1, TaskSlots
  <2>2. CASE \E p \in Parents : CallStep(p) \/ Environment(p)
    BY <2>2, CallSlots
  <2>3. CASE (\E a \in Actors : Begin(a) \/ Sweep(a)) \/ Tick \/ UNCHANGED vars
    BY <2>3, SlotsKept DEF Begin, Sweep, Tick, vars, handleVars, taskVars, Slots
  <2>4. QED
    BY <2>1, <2>2, <2>3 DEF Next
<1>3. QED
  BY <1>1, <1>2, LifeInvariant, PTL DEF Spec

(* Steps that admit nobody and take no slot cannot exceed the bound.       *)
LEMMA NobodyAdmitted ==
  ASSUME OvershootBounded, running \in Int, running' \in Int,
         Admitted' \subseteq Admitted, running' <= running
  PROVE  OvershootBounded'
<1>1. IsFiniteSet(Admitted) /\ IsFiniteSet(Admitted')
  BY ConstantsAssumption, FS_Subset DEF Admitted
<1>2. /\ Cardinality(Admitted) \in Nat /\ Cardinality(Admitted') \in Nat
      /\ Cardinality(Admitted') <= Cardinality(Admitted)
  BY <1>1, FS_CardinalityType, FS_Subset
<1>3. MaxConcurrent \in Nat /\ Cardinality(Parents) \in Nat
  BY ConstantsAssumption, FS_CardinalityType
<1>4. QED
  BY <1>2, <1>3 DEF OvershootBounded

(* No step exceeds the bound.                                              *)
LEMMA OvershootStep ==
  ASSUME TypeInv, OvershootBounded, [Next]_vars
  PROVE  OvershootBounded'
<1> USE DEF TypeInv, RuntimeTypes, CallTypes, Actors, Return, Goto
<1>1. running \in Int /\ running' \in Int
  BY NextTypeInv
<1>2. ASSUME NEW j \in Jobs, TaskStep(j) PROVE OvershootBounded'
  <2>1. running' <= running
    BY <1>1, <1>2 DEF TaskStep, Advance, Start, SetLabel, Execute, Ends, Panic, Enqueue, WriteFinal, Settle,
       Finalize, Notify, Release, Die, Exit
  <2>2. Admitted' \subseteq Admitted
    BY <1>2 DEF TaskStep, Advance, Start, SetLabel, Execute, Ends, Panic, Enqueue, WriteFinal, Settle,
       Finalize, Notify, Woken, Release, Die, callVars, Admitted
  <2>3. QED
    BY <1>1, <2>1, <2>2, NobodyAdmitted
<1>3. ASSUME NEW a \in Actors, Begin(a) \/ Sweep(a) PROVE OvershootBounded'
  BY <1>1, <1>3, NobodyAdmitted DEF Begin, Sweep, AfterSweep, Ops, Admitted
<1>4. ASSUME NEW p \in Parents, Admit(p) PROVE OvershootBounded'
  <2>1. running' = running
    BY <1>4 DEF Admit
  <2>2. CASE running >= MaxConcurrent
    BY <1>1, <1>4, <2>1, <2>2, NobodyAdmitted DEF Admit, Admitted
  <2>3. CASE ~(running >= MaxConcurrent)
    <3>1. IsFiniteSet(Parents) /\ Admitted' \subseteq Parents
      BY ConstantsAssumption DEF Admitted
    <3>2. /\ Cardinality(Admitted') <= Cardinality(Parents)
          /\ Cardinality(Admitted') \in Nat /\ Cardinality(Parents) \in Nat
      BY <3>1, FS_Subset, FS_CardinalityType
    <3>3. MaxConcurrent \in Nat
      BY ConstantsAssumption
    <3>4. QED
      BY <1>1, <2>1, <2>3, <3>2, <3>3 DEF OvershootBounded
  <2>4. QED
    BY <2>2, <2>3
<1>5. ASSUME NEW p \in Parents, Launch(p) PROVE OvershootBounded'
  <2>1. /\ p \in Admitted /\ Admitted' = Admitted \ {p} /\ running' = running + 1
    BY <1>5 DEF Launch, Admitted
  <2>2. IsFiniteSet(Admitted)
    BY ConstantsAssumption, FS_Subset DEF Admitted
  <2>3. Cardinality(Admitted') = Cardinality(Admitted) - 1
    BY <2>1, <2>2, FS_RemoveElement
  <2>4. Cardinality(Admitted) \in Nat
    BY <2>2, FS_CardinalityType
  <2>5. QED
    BY <1>1, <2>1, <2>3, <2>4 DEF OvershootBounded
<1>6. ASSUME NEW p \in Parents, CallStep(p) \/ Environment(p), ~Admit(p), ~Launch(p)
      PROVE  OvershootBounded'
  <2>1. running' <= running
    BY <1>1, <1>6 DEF CallStep, Environment, Insert, Store, LookupCancel, Abort, Mark, Settle,
       Report, Wake, LookupConsume, Consume, LookupUnknown, WaitCheck, WaitArm, WaitPoll,
       RunSync, WaitBegin, WaitDeadline, TakeNotifications, Drop, Exit
  <2>2. Admitted' \subseteq Admitted
    BY <1>6 DEF CallStep, Environment, Insert, Store, LookupCancel, Abort, Mark, Settle,
       Report, Wake, Woken, LookupConsume, Consume, LookupUnknown, WaitCheck, WaitArm,
       WaitPoll, RunSync, WaitBegin, WaitDeadline, TakeNotifications, Drop, callVars,
       Admitted
  <2>3. QED
    BY <1>1, <2>1, <2>2, NobodyAdmitted
<1>7. CASE Tick \/ UNCHANGED vars
  BY <1>1, <1>7, NobodyAdmitted DEF Tick, vars, callVars, Admitted
<1>8. QED
  BY <1>2, <1>3, <1>4, <1>5, <1>6, <1>7 DEF Next

(* The race between the limit check and the increment costs at most one    *)
(* job beyond max_concurrent_jobs per further parent that is spawning.     *)
THEOREM OvershootCorrect == Spec => []OvershootBounded
<1>1. Init => OvershootBounded
  <2> SUFFICES ASSUME Init PROVE OvershootBounded
    OBVIOUS
  <2>1. Admitted = {} /\ running = 0
    BY DEF Init, Admitted, Actors
  <2>2. Cardinality(Admitted) = 0
    BY <2>1, FS_EmptySet
  <2>3. Cardinality(Parents) \in Nat /\ Cardinality(Parents) # 0
    BY ConstantsAssumption, FS_CardinalityType, FS_EmptySet
  <2>4. MaxConcurrent \in Nat
    BY ConstantsAssumption
  <2>5. QED
    BY <2>1, <2>2, <2>3, <2>4 DEF OvershootBounded
<1>2. Init => TypeInv
  BY InitTypeInv
<1>3. TypeInv /\ [Next]_vars => TypeInv'
  BY NextTypeInv
<1>4. TypeInv /\ OvershootBounded /\ [Next]_vars => OvershootBounded'
  BY OvershootStep
<1>5. QED
  BY <1>1, <1>2, <1>3, <1>4, PTL DEF Spec

-----------------------------------------------------------------------------
(* The one winner of the race between finish_job and cancel_job.           *)

(* Only the opening write of run_job replaces a terminal state.            *)
LEMMA TerminalStep ==
  ASSUME TypeInv, [Next]_vars
  PROVE  \A j \in Jobs : IsTerminal(state[j]) /\ state'[j] # state[j]
                           => pc[j] = "queued" /\ state'[j] = "Running"
<1> USE DEF TypeInv, HandleTypes, IsTerminal, Terminal
<1>1. ASSUME NEW i \in Jobs, TaskStep(i)
      PROVE  \A j \in Jobs : IsTerminal(state[j]) /\ state'[j] # state[j]
                               => pc[j] = "queued" /\ state'[j] = "Running"
  <2>1. CASE Start(i)
    BY <2>1 DEF Start
  <2>2. CASE WriteFinal(i)
    BY <2>2 DEF WriteFinal, Settle
  <2>3. CASE ~Start(i) /\ ~WriteFinal(i)
    BY <1>1, <2>3 DEF TaskStep, Advance, SetLabel, Execute, Ends, Panic, Enqueue, Finalize, Notify,
       Release, Die, Exit, handleVars
  <2>4. QED
    BY <2>1, <2>2, <2>3
<1>2. ASSUME NEW p \in Parents, CallStep(p) \/ Environment(p)
      PROVE  \A j \in Jobs : IsTerminal(state[j]) => state'[j] = state[j]
  <2>1. CASE Insert(p) \/ RunSync(p)
    BY <2>1 DEF Insert, RunSync, NewHandle
  <2>2. CASE Mark(p)
    BY <2>2 DEF Mark, Settle
  <2>3. CASE ~Insert(p) /\ ~RunSync(p) /\ ~Mark(p)
    BY <1>2, <2>3 DEF CallStep, Environment, Admit, Launch, Store, LookupCancel, Abort,
       Report, Wake, LookupConsume, Consume, LookupUnknown, WaitCheck, WaitArm, WaitPoll,
       WaitBegin, WaitDeadline, TakeNotifications, Drop, Exit, handleVars
  <2>4. QED
    BY <2>1, <2>2, <2>3
<1>3. CASE (\E a \in Actors : Begin(a) \/ Sweep(a)) \/ Tick \/ UNCHANGED vars
  BY <1>3 DEF Begin, Sweep, Tick, vars, handleVars
<1>4. QED
  BY <1>1, <1>2, <1>3 DEF Next

(* Once a job's task has started, its first terminal state is its last:    *)
(* only run_job's opening write may replace one.                           *)
THEOREM TerminalCorrect == Spec => TerminalOnceStarted
<1>1. TypeInv /\ [Next]_vars
        => [\A j \in Jobs : IsTerminal(state[j]) /\ state'[j] # state[j]
                              => pc[j] = "queued" /\ state'[j] = "Running"]_vars
  BY TerminalStep
<1>2. Init => TypeInv
  BY InitTypeInv
<1>3. TypeInv /\ [Next]_vars => TypeInv'
  BY NextTypeInv
<1>4. QED
  BY <1>1, <1>2, <1>3, PTL DEF Spec, TerminalOnceStarted

-----------------------------------------------------------------------------
(* The cleanup.                                                            *)

Begun(j) == pc[j] \notin {"unborn", "queued"}

Entitled(j) == age[j] >= IF consumed[j] THEN ConsumedTTL ELSE UnconsumedTTL

(* A result can only have aged after its task has begun: run_job's opening *)
(* write cannot revive a job that a cleanup has collected.                 *)
AgedBegun == \A j \in Jobs : IsTerminal(state[j]) /\ age[j] > 0 => Begun(j)

(* What a cleanup has collected stays removable until it is removed.       *)
Collected ==
  \A a \in Actors : \A j \in expired[a] : IsTerminal(state[j]) /\ Begun(j) /\ Entitled(j)

CleanupInv == AgedBegun /\ Collected

(* The times to live are numbers, and a consumed job has the shorter.      *)
LEMMA ShorterTTL ==
  /\ ConsumedTTL \in Nat /\ UnconsumedTTL \in Nat
  /\ 0 < ConsumedTTL /\ ConsumedTTL <= UnconsumedTTL
BY ConstantsAssumption

(* Steps that leave begun terminal jobs alone and collect nothing.         *)
LEMMA CleanupKept ==
  ASSUME TypeInv, CleanupInv, HandleTypes',
         \A a \in Actors : expired'[a] \subseteq expired[a],
         \A j \in Jobs : /\ IsTerminal(state[j]) /\ Begun(j) =>
                              state'[j] = state[j] /\ age'[j] >= age[j] /\ Begun(j)'
                         /\ consumed[j] => consumed'[j]
                         /\ IsTerminal(state'[j]) /\ age'[j] > 0 => Begun(j)'
  PROVE  CleanupInv'
<1> USE ShorterTTL DEF CleanupInv
<1>1. AgedBegun'
  BY DEF AgedBegun, IsTerminal
<1>2. ASSUME NEW a \in Actors, NEW j \in expired'[a]
      PROVE  (IsTerminal(state[j]) /\ Begun(j) /\ Entitled(j))'
  <2>1. j \in Jobs /\ j \in expired[a]
    BY <1>2 DEF TypeInv, CallTypes
  <2>2. IsTerminal(state[j]) /\ Begun(j) /\ Entitled(j)
    BY <2>1 DEF Collected
  <2>3. age[j] \in Int /\ age'[j] \in Int /\ age'[j] >= age[j]
    BY <2>1, <2>2 DEF TypeInv, HandleTypes
  <2>4. Entitled(j)'
    BY <2>1, <2>2, <2>3 DEF Entitled
  <2>5. QED
    BY <2>1, <2>2, <2>4 DEF IsTerminal
<1>3. QED
  BY <1>1, <1>2 DEF Collected

(* A call that returns forgets what it has collected.                      *)
LEMMA ReturnExpired ==
  ASSUME TypeInv, NEW a \in Actors, Return(a)
  PROVE  \A b \in Actors : expired'[b] \subseteq expired[b]
BY DEF TypeInv, CallTypes, Return

(* A task does not touch a job that was collected.                         *)
LEMMA TaskCleanup ==
  ASSUME IInv, CleanupInv, NEW i \in Jobs, TaskStep(i)
  PROVE  CleanupInv'
<1>1. TypeInv /\ HandleTypes'
  BY TaskTypeInv DEF IInv, TypeInv
<1> USE <1>1, ShorterTTL DEF TypeInv, HandleTypes, TaskTypes, Begun, IsTerminal, Terminal,
    handleVars, callVars
<1>2. \A a \in Actors : expired'[a] \subseteq expired[a]
  BY ReturnExpired DEF TaskStep, Advance, Start, SetLabel, Execute, Ends, Panic, Enqueue, WriteFinal, Settle,
     Finalize, Notify, Release, Die
<1> USE DEF CleanupInv, AgedBegun
<1>3. CASE Start(i)
  BY <1>2, <1>3, CleanupKept DEF Start
<1>4. CASE WriteFinal(i)
  BY <1>2, <1>4, CleanupKept DEF WriteFinal, Settle
<1>5. CASE ~Start(i) /\ ~WriteFinal(i)
  <2>1. UNCHANGED <<state, age, consumed>> /\ \A j \in Jobs : Begun(j) => Begun(j)'
    BY <1>5 DEF TaskStep, Advance, SetLabel, Execute, Ends, Panic, Enqueue, Finalize, Notify, Release,
       Die, Exit
  <2>2. QED
    BY <1>2, <2>1, CleanupKept
<1>6. QED
  BY <1>3, <1>4, <1>5

(* Nor does a call.                                                        *)
LEMMA CallCleanup ==
  ASSUME IInv, CleanupInv, NEW p \in Parents, CallStep(p) \/ Environment(p)
  PROVE  CleanupInv'
<1>1. TypeInv /\ HandleTypes'
  BY CallTypeInv, EnvironmentTypeInv DEF IInv, TypeInv
<1>2. p \in Actors
  BY DEF Actors
<1> USE <1>1, <1>2, ShorterTTL DEF TypeInv, HandleTypes, TaskTypes, Begun, IsTerminal,
    Terminal, handleVars, taskVars, callVars
<1>3. \A a \in Actors : expired'[a] \subseteq expired[a]
  <2>1. CASE UNCHANGED expired
    BY <2>1
  <2>2. CASE Return(p)
    BY <2>2, ReturnExpired
  <2>3. UNCHANGED expired \/ Return(p)
    BY DEF CallStep, Environment, Admit, Insert, NewHandle, Launch, Store, LookupCancel,
       Abort, Mark, Settle, Report, Wake, LookupConsume, Consume, LookupUnknown, WaitCheck,
       WaitArm, WaitPoll, RunSync, WaitBegin, WaitDeadline, TakeNotifications, Drop, Goto
  <2>4. QED
    BY <2>1, <2>2, <2>3
<1> USE DEF CleanupInv, AgedBegun
<1>4. CASE Insert(p) \/ RunSync(p)
  BY <1>3, <1>4, CleanupKept DEF Insert, RunSync, NewHandle
<1>5. CASE Launch(p)
  <2>1. target[p] \in Jobs /\ pc[target[p]] = "unborn"
    BY <1>5 DEF Launch, CallTypes, Aimed, IInv, LifeInv, LaunchOwns
  <2>2. QED
    BY <1>3, <1>5, <2>1, CleanupKept DEF Launch
<1>6. CASE Mark(p)
  BY <1>3, <1>6, CleanupKept DEF Mark, Settle
<1>7. CASE Consume(p)
  BY <1>3, <1>7, CleanupKept DEF Consume
<1>8. CASE Drop(p)
  BY <1>3, <1>8, CleanupKept DEF Drop, Exit
<1>9. CASE ~Insert(p) /\ ~RunSync(p) /\ ~Launch(p) /\ ~Mark(p) /\ ~Consume(p) /\ ~Drop(p)
  <2>1. UNCHANGED <<state, age, consumed, pc>>
    BY <1>9 DEF CallStep, Environment, Admit, Store, LookupCancel, Abort, Report, Wake,
       LookupConsume, LookupUnknown, WaitCheck, WaitArm, WaitPoll, WaitBegin,
       WaitDeadline, TakeNotifications
  <2>2. QED
    BY <1>3, <2>1, CleanupKept
<1>10. QED
  BY <1>4, <1>5, <1>6, <1>7, <1>8, <1>9

(* A cleanup collects what it may remove.                                  *)
LEMMA SweepCleanup ==
  ASSUME IInv, CleanupInv, NEW a \in Actors, Begin(a) \/ Sweep(a)
  PROVE  CleanupInv'
<1> USE ShorterTTL DEF IInv, TypeInv, HandleTypes, CallTypes, RuntimeTypes, CleanupInv
<1>1. UNCHANGED <<state, age, consumed, pc>>
  BY DEF Begin, Sweep, handleVars, taskVars
<1>2. ASSUME NEW j \in Expired
      PROVE  j \in Jobs /\ IsTerminal(state[j]) /\ Begun(j) /\ Entitled(j)
  <2>1. j \in Jobs /\ IsTerminal(state[j]) /\ Entitled(j)
    BY DEF Expired, Entitled
  <2>2. age[j] \in Int /\ age[j] > 0
    BY <2>1 DEF Entitled
  <2>3. QED
    BY <2>1, <2>2 DEF AgedBegun
<1>3. \A b \in Actors : expired'[b] \subseteq expired[b] \cup Expired
  BY DEF Begin, Sweep
<1>4. QED
  BY <1>1, <1>2, <1>3 DEF AgedBegun, Collected, Begun, Entitled, IsTerminal

(* The clock takes no time to live back.                                   *)
LEMMA TickCleanup ==
  ASSUME IInv, CleanupInv, Tick
  PROVE  CleanupInv'
<1> USE ShorterTTL DEF CleanupInv
<1>1. TypeInv /\ HandleTypes'
  BY TickTypeInv DEF IInv, TypeInv
<1>2. \A j \in Jobs : IsTerminal(state[j]) => Begun(j)
  <2> SUFFICES ASSUME NEW j \in Jobs, IsTerminal(state[j]) PROVE pc[j] # "unborn" /\ pc[j] # "queued"
    BY DEF Begun
  <2>1. state[j] # "Absent"
    BY DEF IsTerminal, Terminal
  <2>2. \A p \in Parents : call[p] # "launch"
    BY DEF Tick, Actors
  <2>3. QED
    BY <2>1, <2>2 DEF Tick, IInv, LifeInv, UnbornLaunched
<1>3. /\ UNCHANGED <<state, consumed, pc, expired>>
      /\ \A j \in Jobs : age'[j] >= age[j]
  BY <1>1 DEF Tick, TypeInv, HandleTypes, taskVars, callVars
<1>4. QED
  BY <1>1, <1>2, <1>3, CleanupKept DEF Begun, IsTerminal

(* No step does.                                                           *)
LEMMA CleanupStep ==
  ASSUME IInv, CleanupInv, [Next]_vars
  PROVE  CleanupInv'
<1>1. CASE Next
  BY <1>1, TaskCleanup, CallCleanup, SweepCleanup, TickCleanup DEF Next
<1>2. CASE UNCHANGED vars
  BY <1>2 DEF vars, handleVars, taskVars, callVars, CleanupInv, AgedBegun, Collected,
     Begun, Entitled, IsTerminal
<1>3. QED
  BY <1>1, <1>2

(* A job leaves the map only in a terminal state and after its time to     *)
(* live, although its collection and its removal are two critical sections *)
(* between which tasks, cancels and other cleanups run.                    *)
THEOREM RemovalCorrect == Spec => RemovalRespectsTTL
<1>1. Init => CleanupInv
  BY DEF Init, CleanupInv, AgedBegun, Collected, IsTerminal, Terminal
<1>2. IInv /\ CleanupInv /\ [Next]_vars => CleanupInv'
  BY CleanupStep
<1>3. IInv /\ CleanupInv /\ [Next]_vars =>
        [\A j \in jobs \ jobs' :
           /\ IsTerminal(state[j])
           /\ age[j] >= IF consumed[j] THEN ConsumedTTL ELSE UnconsumedTTL]_vars
  <2> SUFFICES ASSUME CleanupInv, Next, NEW j \in jobs \ jobs'
               PROVE  IsTerminal(state[j]) /\ Entitled(j)
    BY DEF Entitled
  <2>1. PICK a \in Actors : Sweep(a)
    BY DEF Next, TaskStep, Advance, Start, SetLabel, Execute, Ends, Panic, Enqueue, WriteFinal, Settle, Finalize,
       Notify, Release, Die, Exit, Begin, CallStep, Environment, Admit, Insert, Launch,
       Store, LookupCancel, Abort, Mark, Report, Wake, LookupConsume, Consume,
       LookupUnknown, WaitCheck, WaitArm, WaitPoll, RunSync, WaitBegin, WaitDeadline,
       TakeNotifications, Drop, Tick
  <2>2. j \in expired[a]
    BY <2>1 DEF Sweep
  <2>3. QED
    BY <2>2 DEF CleanupInv, Collected
<1>4. QED
  BY <1>1, <1>2, <1>3, LifeInvariant, PTL DEF Spec, RemovalRespectsTTL

(* JobsEndOnce: a job that has ended, after run_job's opening write, stays *)
(* so and is kept for its time to live.                                    *)
THEOREM JobsEndOnceCorrect == Spec => JobsEndOnce
BY TerminalCorrect, RemovalCorrect, PTL DEF JobsEndOnce

-----------------------------------------------------------------------------
(* The refinement of the job life cycle.                                   *)

(* A job's state before its task has begun, and while it runs.             *)
StateStaged ==
  \A j \in Jobs :
    /\ pc[j] \in {"unborn", "queued"} => state[j] \in {"Absent", "Pending", "Cancelled"}
    /\ pc[j] \notin {"unborn", "queued", "exited"} => state[j] \in {"Running"} \cup Terminal

(* Most steps keep it because they change neither.                         *)
LEMMA StagedKept ==
  ASSUME StateStaged,
         \A j \in Jobs : state'[j] = state[j] /\
                         \/ pc'[j] = pc[j] \/ pc'[j] = "exited"
                         \/ /\ pc[j] \notin {"unborn", "queued", "exited"}
                            /\ pc'[j] \notin {"unborn", "queued"}
  PROVE  StateStaged'
BY DEF StateStaged

(* Every step keeps a job's state in step with its task.                   *)
LEMMA StagedStep ==
  ASSUME IInv, StateStaged, [Next]_vars
  PROVE  StateStaged'
<1> USE DEF IInv, TypeInv, HandleTypes, TaskTypes, handleVars, taskVars
<1>1. ASSUME NEW i \in Jobs, TaskStep(i) PROVE StateStaged'
  <2>1. CASE Start(i)
    BY <2>1 DEF Start, StateStaged
  <2>2. CASE WriteFinal(i)
    BY <2>2 DEF WriteFinal, Settle, StateStaged, OutcomeDecided
  <2>3. CASE SetLabel(i) \/ Execute(i) \/ Panic(i) \/ Enqueue(i)
    BY <2>3, StagedKept DEF SetLabel, Execute, Ends, Panic, Enqueue
  <2>4. CASE Finalize(i) \/ Notify(i) \/ Release(i) \/ Die(i)
    BY <2>4, StagedKept DEF Finalize, Notify, Release, Die, Exit
  <2>5. QED
    BY <1>1, <2>1, <2>2, <2>3, <2>4 DEF TaskStep, Advance
<1>2. ASSUME NEW p \in Parents, CallStep(p) \/ Environment(p) PROVE StateStaged'
  <2>p. p \in Actors
    BY DEF Actors
  <2>1. CASE Insert(p) \/ RunSync(p)
    <3>1. PICK j \in Jobs : /\ state[j] = "Absent"
                            /\ state' = [state EXCEPT ![j] = "Pending"]
                            /\ pc' = pc \/ pc' = [pc EXCEPT ![j] = "queued"]
      BY <2>1 DEF Insert, RunSync, NewHandle
    <3>2. pc[j] = "unborn"
      BY <3>1 DEF LifeInv, AbsentUnborn
    <3>3. QED
      BY <3>1, <3>2 DEF StateStaged
  <2>2. CASE Launch(p)
    <3>1. target[p] \in Jobs /\ pc[target[p]] = "unborn"
      BY <2>p, <2>2 DEF Launch, CallTypes, Aimed, LifeInv, LaunchOwns
    <3>2. QED
      BY <2>2, <3>1 DEF Launch, StateStaged
  <2>3. CASE Mark(p)
    BY <2>3 DEF Mark, Settle, StateStaged, Terminal
  <2>4. CASE Drop(p)
    <3>1. call[p] = "joined" => target[p] \in Jobs
      BY <2>p DEF CallTypes, Aimed
    <3>2. QED
      BY <2>4, <3>1, StagedKept DEF Drop, Exit
  <2>5. CASE ~Insert(p) /\ ~RunSync(p) /\ ~Launch(p) /\ ~Mark(p) /\ ~Drop(p)
    <3>1. UNCHANGED <<state, pc>>
      BY <1>2, <2>5 DEF CallStep, Environment, Admit, Store, LookupCancel, Abort, Report,
         Wake, LookupConsume, Consume, LookupUnknown, WaitCheck, WaitArm, WaitPoll,
         WaitBegin, WaitDeadline, TakeNotifications
    <3>2. QED
      BY <3>1, StagedKept
  <2>6. QED
    BY <2>1, <2>2, <2>3, <2>4, <2>5
<1>3. CASE (\E a \in Actors : Begin(a) \/ Sweep(a)) \/ Tick \/ UNCHANGED vars
  BY <1>3, StagedKept DEF Begin, Sweep, Tick, vars
<1>4. QED
  BY <1>1, <1>2, <1>3 DEF Next

-----------------------------------------------------------------------------
(* The mapping.                                                            *)

(* What a caller sees of one job.                                          *)
LEMMA Mapped ==
  ASSUME TypeInv, NEW j \in Jobs
  PROVE  /\ StatusOf[j] = IF mode[j] = "Background" THEN state[j] ELSE "Absent"
         /\ mode[j] = "Foreground" => SlotOf[j] = "none"
         /\ mode[j] = "Background" =>
              SlotOf[j] = IF pc[j] = "unborn" THEN "none"
                          ELSE IF pc[j] = "queued" THEN "held"
                          ELSE IF pc[j] = "exited" \/ unwound[j] THEN "returned" ELSE "used"
BY DEF TypeInv, HandleTypes, StatusOf, SlotOf

(* The slots in use, seen through the mapping, are those the counter       *)
(* counts.                                                                 *)
LEMMA MappedSlots ==
  ASSUME TypeInv, LifeInv
  PROVE  Lifecycle!Occupied = Slots
<1>1. ASSUME NEW j \in Jobs PROVE SlotOf[j] \in {"held", "used"} <=> j \in Slots
  BY Mapped DEF Slots, LifeInv, UnwoundLate, Unwinding, TypeInv, HandleTypes
<1>2. QED
  BY <1>1 DEF Lifecycle!Occupied, Slots

(* The life cycle's cardinality is the runtime's.                          *)
LEMMA SameCardinality == \A S : Lifecycle!Cardinality(S) = Cardinality(S)
  BY Zenon DEF Lifecycle!Cardinality, Cardinality

(* A step that changes the status and the slot of one job only.            *)
LEMMA OneJob ==
  ASSUME NEW j \in Jobs,
         \A i \in Jobs \ {j} : /\ state'[i] = state[i] /\ mode'[i] = mode[i]
                               /\ pc'[i] = pc[i] /\ unwound'[i] = unwound[i]
  PROVE  /\ StatusOf' = [StatusOf EXCEPT ![j] = StatusOf'[j]]
         /\ SlotOf' = [SlotOf EXCEPT ![j] = SlotOf'[j]]
<1>1. \A i \in Jobs \ {j} : StatusOf'[i] = StatusOf[i] /\ SlotOf'[i] = SlotOf[i]
  BY DEF StatusOf, SlotOf
<1>2. /\ StatusOf = [i \in Jobs |-> StatusOf[i]] /\ StatusOf' = [i \in Jobs |-> StatusOf'[i]]
      /\ SlotOf = [i \in Jobs |-> SlotOf[i]] /\ SlotOf' = [i \in Jobs |-> SlotOf'[i]]
  BY DEF StatusOf, SlotOf
<1>3. QED
  BY <1>1, <1>2

(* A step that no caller can observe.                                      *)
LEMMA Unobserved ==
  ASSUME \A j \in Jobs : StatusOf'[j] = StatusOf[j] /\ SlotOf'[j] = SlotOf[j]
  PROVE  UNCHANGED Lifecycle!jvars
BY DEF StatusOf, SlotOf, Lifecycle!jvars

-----------------------------------------------------------------------------
(* The steps.                                                              *)

(* A task that ends, however it ends, vacates its slot or never had one.   *)
LEMMA ExitMaps ==
  ASSUME TypeInv, TypeInv', NEW j \in Jobs, pc[j] # "unborn" \/ mode[j] = "Foreground",
         Exit(j)
  PROVE  [Lifecycle!Next]_(Lifecycle!jvars)
<1> USE DEF TypeInv, HandleTypes, TaskTypes, handleVars
<1>1. /\ UNCHANGED <<state, mode, unwound>> /\ pc' = [pc EXCEPT ![j] = "exited"]
  BY DEF Exit
<1>2. CASE SlotOf[j] \in {"held", "used"}
  <2>1. SlotOf'[j] = "returned" /\ StatusOf'[j] = StatusOf[j]
    BY <1>1, <1>2 DEF SlotOf, StatusOf
  <2>2. StatusOf' = StatusOf /\ SlotOf' = [SlotOf EXCEPT ![j] = "returned"]
    BY <1>1, <2>1, OneJob DEF StatusOf
  <2>3. QED
    BY <1>2, <2>2 DEF Lifecycle!Next, Lifecycle!Vacate, Lifecycle!Occupied
<1>3. CASE SlotOf[j] \notin {"held", "used"}
  <2>1. SlotOf'[j] = SlotOf[j]
    BY <1>1, <1>3 DEF SlotOf
  <2>2. \A i \in Jobs : StatusOf'[i] = StatusOf[i] /\ SlotOf'[i] = SlotOf[i]
    BY <1>1, <2>1 DEF StatusOf, SlotOf
  <2>3. QED
    BY <2>2, Unobserved
<1>4. QED
  BY <1>2, <1>3

(* Every step of a task is a step of the life cycle, or none.              *)
LEMMA TaskMaps ==
  ASSUME IInv, TypeInv', StateStaged, NEW j \in Jobs, TaskStep(j)
  PROVE  [Lifecycle!Next]_(Lifecycle!jvars)
<1> USE DEF IInv, TypeInv, HandleTypes, TaskTypes, handleVars, taskVars
<1>1. CASE Start(j)
  <2>1. /\ pc[j] = "queued" /\ pc' = [pc EXCEPT ![j] = "label"]
        /\ state' = [state EXCEPT ![j] = "Running"] /\ UNCHANGED <<mode, unwound>>
    BY <1>1 DEF Start
  <2>2. ~unwound[j] /\ state[j] \in {"Pending", "Cancelled"}
    BY <2>1 DEF LifeInv, UnwoundLate, Unwinding, AbsentUnborn, StateStaged
  <2>3. CASE mode[j] = "Background"
    <3>1. /\ StatusOf[j] \in {"Pending", "Cancelled"} /\ SlotOf[j] = "held"
          /\ StatusOf'[j] = "Running" /\ SlotOf'[j] = "used"
      BY <2>1, <2>2, <2>3 DEF StatusOf, SlotOf
    <3>2. Lifecycle!Run(j) \/ Lifecycle!Restart(j)
      BY <2>1, <3>1, OneJob DEF Lifecycle!Run, Lifecycle!Restart
    <3>3. QED
      BY <3>2 DEF Lifecycle!Next
  <2>4. CASE mode[j] = "Foreground"
    BY <2>1, <2>4, Unobserved DEF StatusOf, SlotOf
  <2>5. QED
    BY <2>3, <2>4
<1>2. CASE Panic(j)
  <2>1. /\ pc[j] = "executing" /\ mode[j] = "Background"
        /\ pc' = [pc EXCEPT ![j] = "enqueue"] /\ unwound' = [unwound EXCEPT ![j] = TRUE]
        /\ UNCHANGED <<state, mode>>
    BY <1>2 DEF Panic
  <2>2. ~unwound[j]
    BY <2>1 DEF LifeInv, UnwoundLate, Unwinding
  <2>3. SlotOf[j] = "used" /\ SlotOf'[j] = "returned" /\ StatusOf' = StatusOf
    BY <2>1, <2>2 DEF StatusOf, SlotOf
  <2>4. SlotOf' = [SlotOf EXCEPT ![j] = "returned"]
    BY <2>1, <2>3, OneJob
  <2>5. QED
    BY <2>3, <2>4 DEF Lifecycle!Next, Lifecycle!Vacate, Lifecycle!Occupied
<1>3. CASE WriteFinal(j)
  <2>1. /\ pc[j] = "write" /\ pc' = [pc EXCEPT ![j] = "finalize"]
        /\ UNCHANGED <<mode, unwound>>
        /\ state' = IF IsTerminal(state[j]) THEN state ELSE [state EXCEPT ![j] = outcome[j]]
    BY <1>3 DEF WriteFinal, Settle
  <2>2. SlotOf' = SlotOf
    BY <2>1 DEF SlotOf
  <2>3. CASE IsTerminal(state[j]) \/ mode[j] = "Foreground"
    BY <2>1, <2>2, <2>3, Unobserved DEF StatusOf
  <2>4. CASE ~IsTerminal(state[j]) /\ mode[j] = "Background"
    <3>1. StatusOf[j] = "Running" /\ StatusOf'[j] = outcome[j] /\ outcome[j] \in Terminal
      BY <2>1, <2>4 DEF StateStaged, OutcomeDecided, StatusOf, IsTerminal
    <3>2. Lifecycle!Finish(j)
      BY <2>1, <2>2, <3>1, OneJob DEF Lifecycle!Finish, Lifecycle!Final, Terminal
    <3>3. QED
      BY <3>2 DEF Lifecycle!Next
  <2>5. QED
    BY <2>3, <2>4
<1>4. CASE Release(j) \/ Die(j)
  BY <1>4, ExitMaps DEF Release, Die, AwaitPoint
<1>5. CASE SetLabel(j) \/ Execute(j) \/ Enqueue(j) \/ Finalize(j) \/ Notify(j)
  <2>1. /\ UNCHANGED <<state, mode, unwound>>
        /\ pc[j] \notin {"unborn", "queued", "exited"}
        /\ pc'[j] \notin {"unborn", "queued", "exited"}
        /\ \A i \in Jobs \ {j} : pc'[i] = pc[i]
    BY <1>5 DEF SetLabel, Execute, Ends, Enqueue, Finalize, Notify
  <2>2. QED
    BY <2>1, Unobserved DEF StatusOf, SlotOf
<1>6. QED
  BY <1>1, <1>2, <1>3, <1>4, <1>5 DEF TaskStep, Advance

(* So is every step of a tool call.                                        *)
LEMMA CallMaps ==
  ASSUME IInv, TypeInv', OvershootBounded, CounterExact, NEW p \in Parents,
         CallStep(p) \/ Environment(p)
  PROVE  [Lifecycle!Next]_(Lifecycle!jvars)
<1> USE DEF IInv, TypeInv, HandleTypes, TaskTypes, handleVars, taskVars
<1>p. p \in Actors /\ (call[p] \in Aimed => target[p] \in Jobs)
  BY DEF Actors, CallTypes
<1>1. CASE Insert(p)
  <2>1. PICK j \in Jobs : NewHandle(j, p, "Background")
    BY <1>1 DEF Insert
  <2>2. /\ state[j] = "Absent" /\ state' = [state EXCEPT ![j] = "Pending"]
        /\ mode' = [mode EXCEPT ![j] = "Background"] /\ UNCHANGED <<pc, unwound>>
        /\ pc[j] = "unborn"
    BY <1>1, <2>1 DEF Insert, NewHandle, LifeInv, AbsentUnborn
  <2>3. /\ StatusOf[j] = "Absent" /\ StatusOf'[j] = "Pending"
        /\ SlotOf[j] = "none" /\ SlotOf'[j] = "none"
    BY <2>2 DEF StatusOf, SlotOf
  <2>4. SlotOf' = SlotOf
    BY <2>2, <2>3 DEF SlotOf
  <2>5. Lifecycle!Register(j)
    BY <2>2, <2>3, <2>4, OneJob DEF Lifecycle!Register
  <2>6. QED
    BY <2>5 DEF Lifecycle!Next
<1>2. CASE Launch(p)
  <2> DEFINE j == target[p]
  <2>1. /\ j \in Jobs /\ pc[j] = "unborn" /\ mode[j] = "Background" /\ ~unwound[j]
        /\ state[j] # "Absent" /\ pc' = [pc EXCEPT ![j] = "queued"]
        /\ UNCHANGED <<state, mode, unwound>>
    BY <1>2, <1>p DEF Launch, Aimed, LifeInv, LaunchOwns, UnwoundLate, Unwinding
  <2>2. StatusOf' = StatusOf /\ StatusOf[j] # "Absent"
        /\ SlotOf[j] = "none" /\ SlotOf'[j] = "held"
    BY <2>1 DEF StatusOf, SlotOf
  <2>3. Cardinality(Lifecycle!Occupied) < MaxConcurrent + (Cardinality(Parents) - 1)
    <3>1. IsFiniteSet(Admitted) /\ p \in Admitted
      BY <1>2, ConstantsAssumption, FS_Subset DEF Launch, Admitted
    <3>2. Cardinality(Admitted) \in Nat /\ Cardinality(Admitted) # 0
      BY <3>1, FS_CardinalityType, FS_EmptySet
    <3>3. running = Cardinality(Lifecycle!Occupied)
      BY MappedSlots DEF CounterExact
    <3>4. MaxConcurrent \in Nat /\ Cardinality(Parents) \in Nat /\ running \in Int
      BY ConstantsAssumption, FS_CardinalityType DEF RuntimeTypes
    <3>5. QED
      BY <3>2, <3>3, <3>4 DEF OvershootBounded
  <2>4. SlotOf' = [SlotOf EXCEPT ![j] = "held"]
    BY <2>1, <2>2, OneJob
  <2>5. Lifecycle!Occupy(j)
    BY <2>2, <2>3, <2>4, SameCardinality DEF Lifecycle!Occupy
  <2>6. QED
    BY <2>1, <2>5 DEF Lifecycle!Next
<1>3. CASE Mark(p)
  <2> DEFINE j == target[p]
  <2>1. /\ j \in Jobs /\ state[j] # "Absent" /\ UNCHANGED <<mode, pc, unwound>>
        /\ state' = IF IsTerminal(state[j]) THEN state ELSE [state EXCEPT ![j] = "Cancelled"]
    BY <1>3, <1>p DEF Mark, Settle, Aimed, CancelKnown
  <2>2. SlotOf' = SlotOf
    BY <2>1 DEF SlotOf
  <2>3. CASE IsTerminal(state[j]) \/ mode[j] = "Foreground"
    BY <2>1, <2>2, <2>3, Unobserved DEF StatusOf
  <2>4. CASE ~IsTerminal(state[j]) /\ mode[j] = "Background"
    <3>1. StatusOf[j] \in {"Pending", "Running"} /\ StatusOf'[j] = "Cancelled"
      BY <2>1, <2>4 DEF StatusOf, IsTerminal, JobState
    <3>2. Lifecycle!Cancel(j)
      BY <2>1, <2>2, <3>1, OneJob DEF Lifecycle!Cancel
    <3>3. QED
      BY <2>1, <3>2 DEF Lifecycle!Next
  <2>5. QED
    BY <2>1, <2>3, <2>4
<1>4. CASE RunSync(p)
  <2>1. PICK j \in Jobs : NewHandle(j, p, "Foreground") /\ pc' = [pc EXCEPT ![j] = "queued"]
    BY <1>4 DEF RunSync
  <2>2. /\ state[j] = "Absent" /\ state' = [state EXCEPT ![j] = "Pending"]
        /\ mode' = [mode EXCEPT ![j] = "Foreground"] /\ UNCHANGED unwound
        /\ pc[j] = "unborn"
    BY <1>4, <2>1 DEF RunSync, NewHandle, LifeInv, AbsentUnborn
  <2>3. QED
    BY <2>1, <2>2, Unobserved DEF StatusOf, SlotOf
<1>5. CASE Drop(p) /\ call[p] = "joined"
  BY <1>5, <1>p, ExitMaps DEF Drop, Aimed, LifeInv, JoinedForeground
<1>6. CASE /\ ~Insert(p) /\ ~Launch(p) /\ ~Mark(p) /\ ~RunSync(p)
           /\ ~(Drop(p) /\ call[p] = "joined")
  <2>1. UNCHANGED <<state, mode, pc, unwound>>
    BY <1>6 DEF CallStep, Environment, Admit, Store, LookupCancel, Abort, Report, Wake,
       LookupConsume, Consume, LookupUnknown, WaitCheck, WaitArm, WaitPoll, WaitBegin,
       WaitDeadline, TakeNotifications, Drop
  <2>2. QED
    BY <2>1, Unobserved DEF StatusOf, SlotOf
<1>7. QED
  BY <1>1, <1>2, <1>3, <1>4, <1>5, <1>6

(* What callers can observe of the runtime, jobs coming, running, being    *)
(* cancelled and ending, is always a behaviour of the job life cycle.      *)
THEOREM RuntimeImplementsLifecycle == Spec => ImplementsLifecycle
<1>1. Init => Lifecycle!Init /\ StateStaged
  BY DEF Init, Lifecycle!Init, StatusOf, SlotOf, StateStaged
<1>2. IInv /\ StateStaged /\ [Next]_vars => StateStaged'
  BY StagedStep
<1>3. IInv /\ StateStaged /\ OvershootBounded /\ CounterExact /\ [Next]_vars
        => [Lifecycle!Next]_(Lifecycle!jvars)
  <2> SUFFICES ASSUME IInv, StateStaged, OvershootBounded, CounterExact, [Next]_vars
               PROVE  [Lifecycle!Next]_(Lifecycle!jvars)
    OBVIOUS
  <2>1. TypeInv /\ TypeInv'
    BY NextTypeInv DEF IInv
  <2>2. CASE \E j \in Jobs : TaskStep(j)
    BY <2>1, <2>2, TaskMaps
  <2>3. CASE \E p \in Parents : CallStep(p) \/ Environment(p)
    BY <2>1, <2>3, CallMaps
  <2>4. CASE (\E a \in Actors : Begin(a) \/ Sweep(a)) \/ Tick \/ UNCHANGED vars
    <3>1. UNCHANGED <<state, mode, pc, unwound>>
      BY <2>4 DEF Begin, Sweep, Tick, vars, handleVars, taskVars
    <3>2. QED
      BY <2>1, <3>1, Unobserved DEF StatusOf, SlotOf
  <2>5. QED
    BY <2>2, <2>3, <2>4 DEF Next
<1>4. QED
  BY <1>1, <1>2, <1>3, LifeInvariant, OvershootCorrect, CounterCorrect, PTL
  DEF Spec, ImplementsLifecycle, Lifecycle!Spec

-----------------------------------------------------------------------------
(* What a parent is told of its jobs.                                      *)

(* The map holds background jobs only.                                     *)
MappedBackground ==
  \A j \in jobs : j \in Jobs /\ state[j] # "Absent" /\ mode[j] = "Background"

(* cancel_job sets the flag before it aborts, and aborts before it marks;  *)
(* nothing but it cancels, and the flag is never taken back.               *)
CancelFlagged ==
  /\ \A j \in Jobs : state[j] = "Cancelled" \/ outcome[j] = "Cancelled" \/ aborted[j]
       => cancelled[j]
  /\ \A p \in Parents : call[p] \in {"abort", "mark"} => cancelled[target[p]]

(* A state that lasts, but for the one that run_job overwrites.            *)
Final(j) == IsTerminal(state[j]) \/ cancelled[j]

(* What is being consumed, or has been, is such a state.                   *)
ConsumesFinal ==
  /\ ConsumedIsFinal
  /\ \A p \in Parents : call[p] = "consume" => Final(target[p])

(* The state is terminal once the task has written it, unless the task was *)
(* aborted before, and the label follows.                                  *)
EndedByItself(j) == pc[j] = "exited" /\ mode[j] = "Background" /\ ~aborted[j]

Settled ==
  \A j \in Jobs :
    /\ pc[j] \in {"finalize", "notify", "release"} \/ EndedByItself(j)
         => IsTerminal(state[j])
    /\ pc[j] \in {"notify", "release"} \/ EndedByItself(j) => label[j] = state[j]

(* A notification of the job with this status has been queued.             *)
Announced(j, s) == \E i \in DOMAIN told[j] : told[j][i] = s

(* finish_job announces an outcome before it writes it.                    *)
ResultsAnnounced ==
  \A j \in Jobs : mode[j] = "Background" =>
    /\ state[j] \in {"Completed", "Failed", "TimedOut"} => Announced(j, state[j])
    /\ pc[j] = "write" => Announced(j, outcome[j])

(* The cancels that have won and are yet to report.                        *)
Reporters(j) == {p \in Parents : call[p] = "report" /\ target[p] = j}

(* One notice for the task's own end, one for each terminal state that a   *)
(* cancel may have reached: before the task has begun and after.           *)
If(b) == IF b THEN 1 ELSE 0
Notices(j) ==
  If(pc[j] \in {"write", "finalize", "notify", "release", "exited"})
    + If(Begun(j)) + If(IsTerminal(state[j]))

NoticesPaid ==
  \A j \in Jobs : Len(told[j]) + Cardinality(Reporters(j)) <= Notices(j)

(* Before finish_job announces it, a parent has heard of no end of the job *)
(* but cancellations; after it, of one.                                    *)
Unfinished == {"unborn", "queued", "label", "executing", "enqueue"}
OneOutcome ==
  \A j \in Jobs :
    /\ pc[j] \in Unfinished => \A i \in DOMAIN told[j] : told[j][i] = "Cancelled"
    /\ \A i, k \in DOMAIN told[j] :
         told[j][i] # "Cancelled" /\ told[j][k] # "Cancelled" => i = k

(* The inductive invariant of what is told, beside IInv.                   *)
ToldInv ==
  /\ StateStaged /\ MappedBackground /\ CancelFlagged /\ ConsumesFinal
  /\ Settled /\ ResultsAnnounced /\ NoticesPaid /\ OneOutcome

(* The flag of a job is never taken back, and a job that is final stays    *)
(* so: only the opening write of run_job replaces a terminal state, and    *)
(* that state is then a cancellation.                                      *)
LEMMA FlagStays ==
  ASSUME TypeInv, [Next]_vars
  PROVE  \A j \in Jobs : cancelled[j] => cancelled'[j]
<1> USE DEF TypeInv, HandleTypes, handleVars, taskVars
<1>1. ASSUME NEW i \in Jobs, TaskStep(i) PROVE UNCHANGED cancelled
  BY <1>1 DEF TaskStep, Advance, Start, SetLabel, Execute, Ends, Panic, Enqueue,
     WriteFinal, Finalize, Notify, Release, Die, Exit
<1>2. ASSUME NEW p \in Parents, CallStep(p) \/ Environment(p)
      PROVE  \A j \in Jobs : cancelled[j] => cancelled'[j]
  <2>1. CASE LookupCancel(p)
    BY <2>1 DEF LookupCancel
  <2>2. CASE ~LookupCancel(p)
    BY <1>2, <2>2 DEF CallStep, Environment, Admit, Insert, NewHandle, Launch, Store, Abort,
       Mark, Report, Wake, LookupConsume, Consume, LookupUnknown, WaitCheck, WaitArm,
       WaitPoll, RunSync, WaitBegin, WaitDeadline, TakeNotifications, Drop, Exit
  <2>3. QED
    BY <2>1, <2>2
<1>3. CASE (\E a \in Actors : Begin(a) \/ Sweep(a)) \/ Tick \/ UNCHANGED vars
  BY <1>3 DEF Begin, Sweep, Tick, vars
<1>4. QED
  BY <1>1, <1>2, <1>3 DEF Next

(* A job that is final stays so.                                           *)
LEMMA FinalStays ==
  ASSUME TypeInv, StateStaged, CancelFlagged, [Next]_vars
  PROVE  \A j \in Jobs : Final(j) => Final(j)'
<1> SUFFICES ASSUME NEW j \in Jobs, Final(j) PROVE Final(j)'
  OBVIOUS
<1>1. cancelled[j] => cancelled'[j]
  BY FlagStays
<1>2. CASE IsTerminal(state[j]) /\ state'[j] # state[j]
  <2>1. pc[j] = "queued"
    BY <1>2, TerminalStep
  <2>2. state[j] = "Cancelled"
    BY <1>2, <2>1 DEF StateStaged, IsTerminal, Terminal
  <2>3. QED
    BY <1>1, <2>2 DEF CancelFlagged, Final
<1>3. QED
  BY <1>1, <1>2 DEF Final, IsTerminal

(* Nothing but a spawn puts a job into the map.                            *)
LEMMA MappedStep ==
  ASSUME IInv, MappedBackground, [Next]_vars
  PROVE  MappedBackground'
<1> USE DEF IInv, TypeInv, HandleTypes, handleVars, taskVars
<1>1. ASSUME NEW j \in Jobs, state[j] # "Absent", mode[j] = "Background"
      PROVE  state'[j] # "Absent" /\ mode'[j] = "Background"
  <2>1. state'[j] # "Absent"
    BY <1>1, HandlesStay DEF vars
  <2>2. ASSUME NEW i \in Jobs, TaskStep(i) PROVE UNCHANGED mode
    BY <2>2 DEF TaskStep, Advance, Start, SetLabel, Execute, Ends, Panic, Enqueue,
       WriteFinal, Finalize, Notify, Release, Die, Exit
  <2>3. ASSUME NEW p \in Parents, CallStep(p) \/ Environment(p)
        PROVE  mode'[j] = "Background"
    <3>1. CASE Insert(p) \/ RunSync(p)
      BY <1>1, <3>1 DEF Insert, RunSync, NewHandle
    <3>2. CASE ~Insert(p) /\ ~RunSync(p)
      BY <1>1, <2>3, <3>2 DEF CallStep, Environment, Admit, Launch, Store, LookupCancel,
         Abort, Mark, Report, Wake, LookupConsume, Consume, LookupUnknown, WaitCheck,
         WaitArm, WaitPoll, WaitBegin, WaitDeadline, TakeNotifications, Drop, Exit
    <3>3. QED
      BY <3>1, <3>2
  <2>4. CASE (\E a \in Actors : Begin(a) \/ Sweep(a)) \/ Tick \/ UNCHANGED vars
    BY <1>1, <2>4 DEF Begin, Sweep, Tick, vars
  <2>5. QED
    BY <1>1, <2>1, <2>2, <2>3, <2>4 DEF Next
<1>2. ASSUME NEW p \in Parents, Insert(p) PROVE MappedBackground'
  <2>1. PICK j \in Jobs : NewHandle(j, p, "Background") /\ jobs' = jobs \cup {j}
    BY <1>2 DEF Insert
  <2>2. state'[j] # "Absent" /\ mode'[j] = "Background"
    BY <2>1 DEF NewHandle
  <2>3. QED
    BY <1>1, <2>1, <2>2 DEF MappedBackground
<1>3. (\A p \in Parents : ~Insert(p)) => jobs' \subseteq jobs
  <2>1. ASSUME NEW i \in Jobs, TaskStep(i) PROVE UNCHANGED jobs
    BY <2>1 DEF TaskStep, Advance, Start, SetLabel, Execute, Ends, Panic, Enqueue,
       WriteFinal, Finalize, Notify, Release, Die, Exit
  <2>2. ASSUME NEW p \in Parents, CallStep(p) \/ Environment(p), ~Insert(p)
        PROVE  UNCHANGED jobs
    BY <2>2 DEF CallStep, Environment, Admit, Launch, Store, LookupCancel, Abort, Mark,
       Report, Wake, LookupConsume, Consume, LookupUnknown, WaitCheck, WaitArm, WaitPoll,
       RunSync, WaitBegin, WaitDeadline, TakeNotifications, Drop, Exit
  <2>3. CASE (\E a \in Actors : Begin(a) \/ Sweep(a)) \/ Tick \/ UNCHANGED vars
    BY <2>3 DEF Begin, Sweep, Tick, vars
  <2>4. QED
    BY <2>1, <2>2, <2>3 DEF Next
<1>4. QED
  BY <1>1, <1>2, <1>3 DEF MappedBackground

(* The calls that have a job in hand at a step, and the job, stay the same *)
(* unless they just got there.                                             *)
LEMMA StaysAt ==
  ASSUME TypeInv, NEW p \in Parents, Next,
         NEW X \in {"abort", "mark", "report", "consume"}, call'[p] = X,
         ~(LookupCancel(p) \/ LookupConsume(p) \/ Abort(p) \/ Mark(p))
  PROVE  call[p] = X /\ target'[p] = target[p]
<1> USE DEF TypeInv, CallTypes, Actors, Return, Goto, callVars
<1>1. ASSUME NEW i \in Jobs, TaskStep(i) PROVE call[p] = X /\ target'[p] = target[p]
  BY <1>1 DEF TaskStep, Advance, Start, SetLabel, Execute, Ends, Panic, Enqueue,
     WriteFinal, Finalize, Notify, Woken, Release, Die, HandleTypes
<1>2. ASSUME NEW a \in Actors, Begin(a) \/ Sweep(a) PROVE call[p] = X /\ target'[p] = target[p]
  BY <1>2 DEF Begin, Sweep, AfterSweep
<1>3. ASSUME NEW q \in Parents, CallStep(q)
      PROVE  call[p] = X /\ target'[p] = target[p]
  <2>1. CASE q = p
    BY <1>3, <2>1 DEF CallStep, Admit, Insert, NewHandle, Launch, Store, Report,
       Wake, Woken, Consume, LookupUnknown, WaitCheck, WaitArm, WaitPoll
  <2>2. CASE q # p
    BY <1>3, <2>2 DEF CallStep, Admit, Insert, NewHandle, Launch, Store, LookupCancel,
       Abort, Mark, Report, Wake, Woken, LookupConsume, Consume, LookupUnknown, WaitCheck,
       WaitArm, WaitPoll
  <2>3. QED
    BY <2>1, <2>2
<1>4. ASSUME NEW q \in Parents, Environment(q)
      PROVE  call[p] = X /\ target'[p] = target[p]
  BY <1>4 DEF Environment, RunSync, NewHandle, WaitBegin, WaitDeadline, TakeNotifications, Drop
<1>5. CASE Tick
  BY <1>5 DEF Tick
<1>6. QED
  BY <1>1, <1>2, <1>3, <1>4, <1>5 DEF Next

(* Only cancel_job cancels, and it sets the flag first.                    *)
LEMMA FlaggedStep ==
  ASSUME IInv, CancelFlagged, [Next]_vars
  PROVE  CancelFlagged'
<1> USE DEF IInv, TypeInv, HandleTypes, TaskTypes, handleVars, taskVars
<1>1. \A j \in Jobs : cancelled[j] => cancelled'[j]
  BY FlagStays
<1>2. ASSUME NEW i \in Jobs, TaskStep(i), NEW j \in Jobs,
             state'[j] = "Cancelled" \/ outcome'[j] = "Cancelled" \/ aborted'[j]
      PROVE  cancelled[j]
  <2>1. CASE Start(i)
    BY <1>2, <2>1 DEF Start, CancelFlagged
  <2>2. CASE Execute(i)
    BY <1>2, <2>2 DEF Execute, Ends, CancelFlagged
  <2>3. CASE WriteFinal(i)
    BY <1>2, <2>3 DEF WriteFinal, Settle, CancelFlagged
  <2>4. CASE Panic(i)
    BY <1>2, <2>4 DEF Panic, CancelFlagged
  <2>5. CASE Release(i) \/ Die(i)
    BY <1>2, <2>5 DEF Release, Die, Exit, CancelFlagged
  <2>6. CASE SetLabel(i) \/ Enqueue(i) \/ Finalize(i) \/ Notify(i)
    BY <1>2, <2>6 DEF SetLabel, Enqueue, Finalize, Notify, CancelFlagged
  <2>7. QED
    BY <1>2, <2>1, <2>2, <2>3, <2>4, <2>5, <2>6 DEF TaskStep, Advance
<1>3. ASSUME NEW p \in Parents, CallStep(p) \/ Environment(p), NEW j \in Jobs,
             state'[j] = "Cancelled" \/ outcome'[j] = "Cancelled" \/ aborted'[j]
      PROVE  cancelled[j]
  <2>p. p \in Actors /\ (call[p] \in Aimed => target[p] \in Jobs)
    BY DEF Actors, CallTypes
  <2>1. CASE Insert(p) \/ RunSync(p)
    BY <1>3, <2>1 DEF Insert, RunSync, NewHandle, CancelFlagged
  <2>2. CASE Abort(p)
    <3>1. /\ target[p] \in Jobs /\ cancelled[target[p]]
          /\ UNCHANGED <<state, outcome>>
          /\ aborted'[j] => aborted[j] \/ j = target[p]
      BY <2>p, <2>2 DEF Abort, Aimed, CancelFlagged
    <3>2. QED
      BY <1>3, <3>1 DEF CancelFlagged
  <2>3. CASE Mark(p)
    <3>1. /\ cancelled[target[p]] /\ UNCHANGED <<outcome, aborted>>
          /\ state'[j] = state[j] \/ j = target[p]
      BY <2>p, <2>3 DEF Mark, Settle, Aimed, CancelFlagged
    <3>2. QED
      BY <1>3, <3>1 DEF CancelFlagged
  <2>4. CASE Drop(p)
    <3>1. call[p] = "joined" => target[p] \in Jobs
      BY <2>p DEF Aimed
    <3>2. QED
      BY <1>3, <2>4, <3>1 DEF Drop, Exit, CancelFlagged
  <2>5. CASE ~Insert(p) /\ ~RunSync(p) /\ ~Abort(p) /\ ~Mark(p) /\ ~Drop(p)
    <3>1. UNCHANGED <<state, outcome, aborted>>
      BY <1>3, <2>5 DEF CallStep, Environment, Admit, Launch, Store, LookupCancel, Report,
         Wake, LookupConsume, Consume, LookupUnknown, WaitCheck, WaitArm, WaitPoll,
         WaitBegin, WaitDeadline, TakeNotifications
    <3>2. QED
      BY <1>3, <3>1 DEF CancelFlagged
  <2>6. QED
    BY <2>1, <2>2, <2>3, <2>4, <2>5
<1>4. \A j \in Jobs : state'[j] = "Cancelled" \/ outcome'[j] = "Cancelled" \/ aborted'[j]
        => cancelled'[j]
  <2>1. CASE UNCHANGED <<state, outcome, aborted>>
    BY <1>1, <2>1 DEF CancelFlagged
  <2>2. CASE ~UNCHANGED <<state, outcome, aborted>>
    <3>1. ~((\E a \in Actors : Begin(a) \/ Sweep(a)) \/ Tick \/ UNCHANGED vars)
      BY <2>2 DEF Begin, Sweep, Tick, vars
    <3>2. QED
      BY <1>1, <1>2, <1>3, <3>1 DEF Next
  <2>3. QED
    BY <2>1, <2>2
<1>5. ASSUME NEW p \in Parents, call'[p] \in {"abort", "mark"}
      PROVE  cancelled'[target'[p]]
  <2>p. p \in Actors /\ (call[p] \in Aimed => target[p] \in Jobs)
    BY DEF Actors, CallTypes
  <2>1. CASE LookupCancel(p)
    <3>1. PICK j \in KnownIds :
            IF j \in jobs
            THEN /\ cancelled' = [cancelled EXCEPT ![j] = TRUE]
                 /\ target' = [target EXCEPT ![p] = j]
                 /\ call' = [call EXCEPT ![p] = "abort"]
            ELSE Return(p)
      BY <2>1 DEF LookupCancel
    <3>2. j \in jobs
      BY <1>5, <2>p, <3>1 DEF Return, CallTypes
    <3>3. QED
      BY <2>p, <3>1, <3>2 DEF CallTypes, KnownIds
  <2>2. CASE LookupConsume(p)
    BY <1>5, <2>p, <2>2 DEF LookupConsume, Return, CallTypes
  <2>3. CASE Abort(p)
    BY <1>1, <2>p, <2>3 DEF Abort, Goto, Aimed, CancelFlagged
  <2>4. CASE Mark(p)
    BY <1>5, <2>p, <2>4 DEF Mark, Return, Goto, CallTypes
  <2>5. CASE Next /\ ~(LookupCancel(p) \/ LookupConsume(p) \/ Abort(p) \/ Mark(p))
    <3>1. call[p] \in {"abort", "mark"} /\ target'[p] = target[p]
      BY <1>5, <2>5, StaysAt
    <3>2. QED
      BY <1>1, <2>p, <3>1 DEF Aimed, CancelFlagged
  <2>6. CASE UNCHANGED vars
    BY <1>5, <2>6 DEF vars, callVars, CancelFlagged
  <2>7. QED
    BY <2>1, <2>2, <2>3, <2>4, <2>5, <2>6
<1>6. QED
  BY <1>4, <1>5 DEF CancelFlagged

(* What is being consumed is final, and stays so until it is stamped.      *)
LEMMA ConsumesStep ==
  ASSUME IInv, StateStaged, CancelFlagged, ConsumesFinal, [Next]_vars
  PROVE  ConsumesFinal'
<1> USE DEF IInv, TypeInv, HandleTypes, handleVars
<1>1. \A j \in Jobs : Final(j) => Final(j)'
  BY FinalStays
<1>2. \A j \in Jobs : consumed'[j] => Final(j)
  <2>1. \A j \in Jobs : consumed[j] => Final(j)
    BY DEF ConsumesFinal, ConsumedIsFinal, Final
  <2>2. CASE \E p \in Parents : Consume(p)
    <3>1. PICK p \in Parents : Consume(p)
      BY <2>2
    <3>2. Final(target[p]) /\ \A j \in Jobs : consumed'[j] => consumed[j] \/ j = target[p]
      BY <3>1 DEF Consume, ConsumesFinal
    <3>3. QED
      BY <2>1, <3>2
  <2>3. CASE \A p \in Parents : ~Consume(p)
    <3>1. UNCHANGED consumed
      BY <2>3 DEF Next, vars, TaskStep, Advance, Start, SetLabel, Execute, Ends, Panic,
         Enqueue, WriteFinal, Finalize, Notify, Release, Die, Exit, CallStep, Environment,
         Admit, Insert, NewHandle, Launch, Store, LookupCancel, Abort, Mark, Report, Wake,
         LookupConsume, LookupUnknown, WaitCheck, WaitArm, WaitPoll, RunSync, WaitBegin,
         WaitDeadline, TakeNotifications, Drop, Begin, Sweep, Tick
    <3>2. QED
      BY <2>1, <3>1
  <2>4. QED
    BY <2>2, <2>3
<1>3. ASSUME NEW p \in Parents, call'[p] = "consume"
      PROVE  target'[p] \in Jobs /\ Final(target'[p])
  <2>p. p \in Actors /\ (call[p] \in Aimed => target[p] \in Jobs)
    BY DEF Actors, CallTypes
  <2>1. CASE LookupConsume(p)
    <3>1. PICK j \in KnownIds :
            IF j \in jobs /\ IsTerminal(state[j])
            THEN target' = [target EXCEPT ![p] = j]
            ELSE Return(p)
      BY <2>1 DEF LookupConsume
    <3>2. j \in jobs /\ IsTerminal(state[j])
      BY <1>3, <2>p, <3>1 DEF Return, CallTypes
    <3>3. QED
      BY <2>p, <3>1, <3>2 DEF CallTypes, KnownIds, Final
  <2>2. CASE LookupCancel(p)
    BY <1>3, <2>p, <2>2 DEF LookupCancel, Return, CallTypes
  <2>3. CASE Abort(p) \/ Mark(p)
    BY <1>3, <2>p, <2>3 DEF Abort, Mark, Return, Goto, CallTypes
  <2>4. CASE Next /\ ~(LookupCancel(p) \/ LookupConsume(p) \/ Abort(p) \/ Mark(p))
    <3>1. call[p] = "consume" /\ target'[p] = target[p]
      BY <1>3, <2>4, StaysAt
    <3>2. QED
      BY <2>p, <3>1 DEF Aimed, ConsumesFinal
  <2>5. CASE UNCHANGED vars
    BY <1>3, <2>p, <2>5 DEF vars, callVars, ConsumesFinal, Aimed
  <2>6. QED
    BY <2>1, <2>2, <2>3, <2>4, <2>5
<1>4. ConsumedIsFinal'
  BY <1>1, <1>2 DEF ConsumedIsFinal, Final
<1>5. ASSUME NEW p \in Parents, call'[p] = "consume" PROVE Final(target[p])'
  <2>1. PICK j \in Jobs : j = target'[p]
    BY <1>3, <1>5
  <2>2. Final(j)'
    BY <1>1, <1>3, <1>5, <2>1
  <2>3. QED
    BY <2>1, <2>2 DEF Final
<1>6. QED
  BY <1>4, <1>5 DEF ConsumesFinal

(* A task writes a terminal state, then its label, and then it ends.       *)
LEMMA SettledStep ==
  ASSUME IInv, Settled, [Next]_vars
  PROVE  Settled'
<1> USE DEF IInv, TypeInv, HandleTypes, TaskTypes, handleVars, taskVars
<1> DEFINE Written(j) == pc[j] \in {"finalize", "notify", "release"} \/ EndedByItself(j)
           Labelled(j) == pc[j] \in {"notify", "release"} \/ EndedByItself(j)
<1>1. SUFFICES \A j \in Jobs : /\ Written(j)' => IsTerminal(state'[j])
                               /\ Labelled(j)' => label'[j] = state'[j]
  BY DEF Settled, IsTerminal, EndedByItself
<1>2. \A j \in Jobs : /\ Written(j) => IsTerminal(state[j])
                      /\ Labelled(j) => label[j] = state[j] /\ Written(j)
  BY DEF Settled
<1>3. \A j \in Jobs : IsTerminal(state[j]) /\ pc[j] # "queued" => state'[j] = state[j]
  BY TerminalStep
<1>4. ASSUME \A j \in Jobs : /\ Written(j)' => Written(j)
                             /\ Labelled(j)' => Labelled(j)
                             /\ Labelled(j) => label'[j] = label[j]
      PROVE  \A j \in Jobs : /\ Written(j)' => IsTerminal(state'[j])
                             /\ Labelled(j)' => label'[j] = state'[j]
  <2>1. \A j \in Jobs : Written(j) => pc[j] # "queued"
    BY DEF EndedByItself
  <2>2. QED
    BY <1>2, <1>3, <1>4, <2>1
<1> HIDE DEF Written, Labelled
<1>5. ASSUME NEW i \in Jobs, TaskStep(i)
      PROVE  \A j \in Jobs : /\ Written(j)' => IsTerminal(state'[j])
                             /\ Labelled(j)' => label'[j] = state'[j]
  <2>1. CASE WriteFinal(i)
    <3>1. /\ pc[i] = "write" /\ pc' = [pc EXCEPT ![i] = "finalize"]
          /\ UNCHANGED <<label, mode, aborted>>
          /\ state' = IF IsTerminal(state[i]) THEN state ELSE [state EXCEPT ![i] = outcome[i]]
          /\ outcome[i] \in Terminal
      BY <2>1 DEF WriteFinal, Settle, OutcomeDecided
    <3>2. IsTerminal(state'[i]) /\ ~Labelled(i)'
      BY <3>1 DEF IsTerminal, Labelled, EndedByItself
    <3>3. \A j \in Jobs \ {i} : /\ Written(j)' = Written(j) /\ Labelled(j)' = Labelled(j)
                                /\ state'[j] = state[j] /\ label'[j] = label[j]
      BY <3>1 DEF Written, Labelled, EndedByItself
    <3>4. QED
      BY <1>2, <3>2, <3>3
  <2>2. CASE Finalize(i)
    <3>1. /\ pc[i] = "finalize" /\ pc' = [pc EXCEPT ![i] = "notify"]
          /\ label' = [label EXCEPT ![i] = state[i]]
          /\ UNCHANGED <<state, mode, aborted>>
      BY <2>2 DEF Finalize
    <3>2. IsTerminal(state'[i]) /\ label'[i] = state'[i]
      BY <1>2, <3>1 DEF Written
    <3>3. \A j \in Jobs \ {i} : /\ Written(j)' = Written(j) /\ Labelled(j)' = Labelled(j)
                                /\ state'[j] = state[j] /\ label'[j] = label[j]
      BY <3>1 DEF Written, Labelled, EndedByItself
    <3>4. QED
      BY <1>2, <3>2, <3>3
  <2>3. CASE Start(i)
    BY <1>4, <2>3 DEF Start, Written, Labelled, EndedByItself
  <2>4. CASE SetLabel(i)
    BY <1>4, <2>4 DEF SetLabel, Written, Labelled, EndedByItself
  <2>5. CASE Execute(i) \/ Panic(i) \/ Enqueue(i)
    BY <1>4, <2>5 DEF Execute, Ends, Panic, Enqueue, Written, Labelled, EndedByItself
  <2>6. CASE Notify(i)
    BY <1>4, <2>6 DEF Notify, Written, Labelled, EndedByItself
  <2>7. CASE Release(i)
    BY <1>4, <2>7 DEF Release, Exit, Written, Labelled, EndedByItself
  <2>8. CASE Die(i)
    BY <1>4, <2>8 DEF Die, Exit, Written, Labelled, EndedByItself
  <2>9. QED
    BY <1>5, <2>1, <2>2, <2>3, <2>4, <2>5, <2>6, <2>7, <2>8 DEF TaskStep, Advance
<1>6. ASSUME NEW p \in Parents, CallStep(p) \/ Environment(p)
      PROVE  \A j \in Jobs : /\ Written(j)' => Written(j)
                             /\ Labelled(j)' => Labelled(j)
                             /\ Labelled(j) => label'[j] = label[j]
  <2>p. p \in Actors /\ (call[p] \in Aimed => target[p] \in Jobs)
    BY DEF Actors, CallTypes
  <2>1. UNCHANGED label
    BY <1>6 DEF CallStep, Environment, Admit, Insert, NewHandle, Launch, Store,
       LookupCancel, Abort, Mark, Report, Wake, LookupConsume, Consume, LookupUnknown,
       WaitCheck, WaitArm, WaitPoll, RunSync, WaitBegin, WaitDeadline,
       TakeNotifications, Drop, Exit
  <2>2. CASE Insert(p) \/ RunSync(p)
    <3>1. PICK j \in Jobs : /\ state[j] = "Absent"
                            /\ pc' = pc \/ pc' = [pc EXCEPT ![j] = "queued"]
                            /\ \A i \in Jobs \ {j} : mode'[i] = mode[i]
                            /\ UNCHANGED aborted
      BY <2>2 DEF Insert, RunSync, NewHandle
    <3>2. pc[j] = "unborn"
      BY <3>1 DEF LifeInv, AbsentUnborn
    <3>3. QED
      BY <2>1, <3>1, <3>2 DEF Written, Labelled, EndedByItself
  <2>3. CASE Launch(p)
    BY <2>1, <2>3 DEF Launch, Written, Labelled, EndedByItself
  <2>4. CASE Abort(p)
    BY <2>1, <2>4 DEF Abort, Written, Labelled, EndedByItself
  <2>5. CASE Drop(p)
    <3>1. CASE call[p] = "joined"
      <4>1. /\ target[p] \in Jobs /\ mode[target[p]] = "Foreground"
            /\ pc' = [pc EXCEPT ![target[p]] = "exited"] /\ UNCHANGED <<mode, aborted>>
        BY <2>p, <2>5, <3>1 DEF Drop, Exit, Aimed, LifeInv, JoinedForeground
      <4>2. QED
        BY <2>1, <4>1 DEF Written, Labelled, EndedByItself
    <3>2. CASE call[p] # "joined"
      BY <2>1, <2>5, <3>2 DEF Drop, Written, Labelled, EndedByItself
    <3>3. QED
      BY <3>1, <3>2
  <2>6. CASE ~Insert(p) /\ ~RunSync(p) /\ ~Launch(p) /\ ~Abort(p) /\ ~Drop(p)
    <3>1. UNCHANGED <<pc, mode, aborted>>
      BY <1>6, <2>6 DEF CallStep, Environment, Admit, Store, LookupCancel, Mark, Report,
         Wake, LookupConsume, Consume, LookupUnknown, WaitCheck, WaitArm, WaitPoll,
         WaitBegin, WaitDeadline, TakeNotifications
    <3>2. QED
      BY <2>1, <3>1 DEF Written, Labelled, EndedByItself
  <2>7. QED
    BY <2>2, <2>3, <2>4, <2>5, <2>6
<1>7. CASE (\E a \in Actors : Begin(a) \/ Sweep(a)) \/ Tick \/ UNCHANGED vars
  BY <1>4, <1>7 DEF Begin, Sweep, Tick, vars, Written, Labelled, EndedByItself
<1>8. QED
  BY <1>4, <1>5, <1>6, <1>7 DEF Next

(* A notice that was queued stays queued.                                  *)
LEMMA PushAnnounces ==
  ASSUME TypeInv, NEW i \in Jobs, NEW s, Push(i, s)
  PROVE  /\ told'[i] = Append(told[i], s) /\ \A j \in Jobs \ {i} : told'[j] = told[j]
         /\ Len(told'[i]) = Len(told[i]) + 1 /\ Announced(i, s)'
         /\ \A t : Announced(i, t) => Announced(i, t)'
<1>1. told[i] \in Seq(Terminal)
  BY DEF TypeInv, RuntimeTypes
<1>2. told'[i] = Append(told[i], s) /\ \A j \in Jobs \ {i} : told'[j] = told[j]
  BY DEF Push, TypeInv, RuntimeTypes
<1>3. /\ Len(told'[i]) = Len(told[i]) + 1 /\ Len(told[i]) \in Nat
      /\ told'[i][Len(told[i]) + 1] = s
      /\ \A k \in 1..Len(told[i]) : told'[i][k] = told[i][k]
  <2>1. PICK q \in Seq(Terminal) : q = told[i]
    BY <1>1
  <2>2. /\ Len(Append(q, s)) = Len(q) + 1 /\ Len(q) \in Nat
        /\ Append(q, s)[Len(q) + 1] = s
        /\ \A k \in 1..Len(q) : Append(q, s)[k] = q[k]
    OBVIOUS
  <2>3. QED
    BY <1>2, <2>1, <2>2
<1>4. DOMAIN told[i] = 1..Len(told[i]) /\ DOMAIN told'[i] = 1..(Len(told[i]) + 1)
  <2>1. PICK q \in Seq(Terminal) : q = told[i]
    BY <1>1
  <2>2. DOMAIN q = 1..Len(q) /\ DOMAIN Append(q, s) = 1..(Len(q) + 1)
    OBVIOUS
  <2>3. QED
    BY <1>2, <2>1, <2>2
<1>5. QED
  BY <1>2, <1>3, <1>4 DEF Announced

(* No other step queues anything.                                          *)
LEMMA ToldKept ==
  ASSUME [Next]_vars, \A i \in Jobs : ~Enqueue(i), \A p \in Parents : ~Report(p)
  PROVE  told' = told
BY DEF Next, vars, TaskStep, Advance, Start, SetLabel, Execute, Ends, Panic, WriteFinal,
   Finalize, Notify, Release, Die, Exit, CallStep, Environment, Admit, Insert, Launch, Store,
   LookupCancel, Abort, Mark, Wake, LookupConsume, Consume, LookupUnknown, WaitCheck,
   WaitArm, WaitPoll, RunSync, WaitBegin, WaitDeadline, TakeNotifications, Drop, Begin,
   Sweep, Tick

(* What is queued is never lost.                                           *)
LEMMA AnnouncedStays ==
  ASSUME TypeInv, [Next]_vars
  PROVE  \A j \in Jobs : \A s : Announced(j, s) => Announced(j, s)'
<1>1. CASE \E i \in Jobs : Enqueue(i)
  <2>1. PICK i \in Jobs : Enqueue(i)
    BY <1>1
  <2>2. PICK o : o = outcome[i]
    OBVIOUS
  <2>3. Push(i, o)
    BY <2>1, <2>2 DEF Enqueue
  <2>4. QED
    BY <2>3, PushAnnounces DEF Announced
<1>2. CASE \E p \in Parents : Report(p)
  <2>1. PICK p \in Parents : Report(p)
    BY <1>2
  <2>2. PICK i \in Jobs : i = target[p]
    BY <2>1 DEF Report, TypeInv, CallTypes, Aimed, Actors
  <2>3. Push(i, "Cancelled")
    BY <2>1, <2>2 DEF Report
  <2>4. QED
    BY <2>3, PushAnnounces DEF Announced
<1>3. CASE ~(\E i \in Jobs : Enqueue(i)) /\ ~(\E p \in Parents : Report(p))
  BY <1>3, ToldKept DEF Announced
<1>4. QED
  BY <1>1, <1>2, <1>3

(* A task that has announced an end does not come back to before that.     *)
LEMMA FinishedStays ==
  ASSUME TypeInv, LifeInv, [Next]_vars, NEW j \in Jobs, pc'[j] \in Unfinished
  PROVE  pc[j] \in Unfinished
<1> USE DEF TypeInv, HandleTypes, TaskTypes, Unfinished
<1>1. ASSUME NEW i \in Jobs, TaskStep(i) PROVE pc[j] \in Unfinished
  BY <1>1 DEF TaskStep, Advance, Start, SetLabel, Execute, Ends, Panic, Enqueue, WriteFinal,
     Finalize, Notify, Release, Die, Exit, taskVars
<1>2. ASSUME NEW p \in Parents, CallStep(p) \/ Environment(p) PROVE pc[j] \in Unfinished
  <2>p. p \in Actors /\ (call[p] \in Aimed => target[p] \in Jobs)
    BY DEF Actors, CallTypes
  <2>1. CASE Insert(p) \/ RunSync(p)
    <3>1. PICK i \in Jobs : state[i] = "Absent" /\ (pc' = pc \/ pc' = [pc EXCEPT ![i] = "queued"])
      BY <2>1 DEF Insert, RunSync, NewHandle, taskVars
    <3>2. pc[i] = "unborn"
      BY <3>1 DEF LifeInv, AbsentUnborn
    <3>3. QED
      BY <3>1, <3>2
  <2>2. CASE Launch(p)
    <3>1. target[p] \in Jobs /\ pc[target[p]] = "unborn"
      BY <2>p, <2>2 DEF Launch, CallTypes, Aimed, LifeInv, LaunchOwns
    <3>2. QED
      BY <2>2, <3>1 DEF Launch
  <2>3. CASE Drop(p)
    BY <2>3 DEF Drop, Exit, taskVars
  <2>4. CASE ~Insert(p) /\ ~RunSync(p) /\ ~Launch(p) /\ ~Drop(p)
    <3>1. pc' = pc
      BY <1>2, <2>4 DEF CallStep, Environment, Admit, Store, LookupCancel, Abort, Mark, Report,
         Wake, LookupConsume, Consume, LookupUnknown, WaitCheck, WaitArm, WaitPoll,
         WaitBegin, WaitDeadline, TakeNotifications, taskVars
    <3>2. QED
      BY <3>1
  <2>5. QED
    BY <2>1, <2>2, <2>3, <2>4
<1>3. CASE (\E a \in Actors : Begin(a) \/ Sweep(a)) \/ Tick \/ UNCHANGED vars
  BY <1>3 DEF Begin, Sweep, Tick, vars, taskVars
<1>4. QED
  BY <1>1, <1>2, <1>3 DEF Next

(* An end that is no cancellation is announced once.                       *)
LEMMA OneOutcomeStep ==
  ASSUME IInv, OneOutcome, [Next]_vars
  PROVE  OneOutcome'
<1> SUFFICES ASSUME NEW j \in Jobs
             PROVE  /\ pc'[j] \in Unfinished =>
                         \A i \in DOMAIN told'[j] : told'[j][i] = "Cancelled"
                    /\ \A i, k \in DOMAIN told'[j] :
                         told'[j][i] # "Cancelled" /\ told'[j][k] # "Cancelled" => i = k
  BY DEF OneOutcome, Unfinished
<1>1. /\ pc[j] \in Unfinished => \A i \in DOMAIN told[j] : told[j][i] = "Cancelled"
      /\ \A i, k \in DOMAIN told[j] :
           told[j][i] # "Cancelled" /\ told[j][k] # "Cancelled" => i = k
  BY DEF OneOutcome
<1>2. pc'[j] \in Unfinished => pc[j] \in Unfinished
  BY FinishedStays DEF IInv
<1>3. TypeInv
  BY DEF IInv
<1>4. ASSUME NEW q, q \in Seq(Terminal), q = told[j], NEW s, told'[j] = Append(q, s)
      PROVE  /\ DOMAIN q = 1..Len(q) /\ DOMAIN told'[j] = 1..(Len(q) + 1) /\ Len(q) \in Nat
             /\ told'[j][Len(q) + 1] = s /\ \A k \in DOMAIN q : told'[j][k] = told[j][k]
  <2>1. /\ DOMAIN q = 1..Len(q) /\ DOMAIN Append(q, s) = 1..(Len(q) + 1) /\ Len(q) \in Nat
        /\ Append(q, s)[Len(q) + 1] = s /\ \A k \in 1..Len(q) : Append(q, s)[k] = q[k]
    BY <1>4
  <2>2. QED
    BY <1>4, <2>1
<1>5. CASE \E i \in Jobs : Enqueue(i)
  <2>1. PICK i \in Jobs : Enqueue(i)
    BY <1>5
  <2>2. PICK o : o = outcome[i] /\ Push(i, o)
    BY <2>1 DEF Enqueue
  <2>3. told'[i] = Append(told[i], o) /\ \A k \in Jobs \ {i} : told'[k] = told[k]
    BY <1>3, <2>2, PushAnnounces
  <2>4. CASE j # i
    BY <1>1, <1>2, <2>3, <2>4
  <2>5. CASE j = i
    <3>1. pc[j] \in Unfinished /\ pc'[j] \notin Unfinished
      BY <1>3, <2>1, <2>5 DEF Enqueue, TypeInv, TaskTypes, Unfinished
    <3>2. PICK q \in Seq(Terminal) : q = told[j]
      BY <1>3 DEF TypeInv, RuntimeTypes
    <3>3. /\ DOMAIN q = 1..Len(q) /\ DOMAIN told'[j] = 1..(Len(q) + 1) /\ Len(q) \in Nat
          /\ \A k \in DOMAIN q : told'[j][k] = told[j][k]
      BY <1>4, <2>3, <2>5, <3>2
    <3>4. \A k \in DOMAIN told'[j] : told'[j][k] # "Cancelled" => k = Len(q) + 1
      BY <1>1, <3>1, <3>2, <3>3
    <3>5. QED
      BY <3>1, <3>4
  <2>6. QED
    BY <2>4, <2>5
<1>6. CASE \E p \in Parents : Report(p)
  <2>1. PICK p \in Parents : Report(p)
    BY <1>6
  <2>2. PICK i \in Jobs : i = target[p]
    BY <1>3, <2>1 DEF Report, TypeInv, CallTypes, Aimed, Actors
  <2>3. Push(i, "Cancelled")
    BY <2>1, <2>2 DEF Report
  <2>4. told'[i] = Append(told[i], "Cancelled") /\ \A k \in Jobs \ {i} : told'[k] = told[k]
    BY <1>3, <2>3, PushAnnounces
  <2>5. CASE j # i
    BY <1>1, <1>2, <2>4, <2>5
  <2>6. CASE j = i
    <3>1. PICK q \in Seq(Terminal) : q = told[j]
      BY <1>3 DEF TypeInv, RuntimeTypes
    <3>2. /\ DOMAIN q = 1..Len(q) /\ DOMAIN told'[j] = 1..(Len(q) + 1) /\ Len(q) \in Nat
          /\ told'[j][Len(q) + 1] = "Cancelled" /\ \A k \in DOMAIN q : told'[j][k] = told[j][k]
      BY <1>4, <2>4, <2>6, <3>1
    <3>3. \A k \in DOMAIN told'[j] : k \in DOMAIN q \/ k = Len(q) + 1
      BY <3>2
    <3>4. QED
      BY <1>1, <1>2, <3>1, <3>2, <3>3
  <2>7. QED
    BY <2>5, <2>6
<1>7. CASE ~(\E i \in Jobs : Enqueue(i)) /\ ~(\E p \in Parents : Report(p))
  <2>1. told' = told
    BY <1>7, ToldKept
  <2>2. QED
    BY <1>1, <1>2, <2>1
<1>8. QED
  BY <1>5, <1>6, <1>7

(* A result is announced before it is written.                             *)
LEMMA AnnouncedStep ==
  ASSUME IInv, ResultsAnnounced, [Next]_vars
  PROVE  ResultsAnnounced'
<1> USE DEF IInv, TypeInv, HandleTypes, TaskTypes, handleVars, taskVars
<1> DEFINE Results == {"Completed", "Failed", "TimedOut"}
           Now(j, s) == \E k \in DOMAIN told'[j] : told'[j][k] = s
<1>1. \A j \in Jobs : \A s : Announced(j, s) => Now(j, s)
  BY AnnouncedStays DEF Announced
<1>2. SUFFICES ASSUME NEW j \in Jobs, mode'[j] = "Background"
               PROVE  /\ state'[j] \in Results => Now(j, state'[j])
                      /\ pc'[j] = "write" => Now(j, outcome'[j])
  BY DEF ResultsAnnounced, Announced
<1>3. ASSUME state'[j] \in Results => mode[j] = "Background" /\ state'[j] = state[j],
             pc'[j] = "write" =>
               mode[j] = "Background" /\ pc[j] = "write" /\ outcome'[j] = outcome[j]
      PROVE  /\ state'[j] \in Results => Now(j, state'[j])
             /\ pc'[j] = "write" => Now(j, outcome'[j])
  <2>1. ASSUME state'[j] \in Results PROVE Now(j, state'[j])
    <3>1. mode[j] = "Background" /\ state'[j] = state[j] /\ Announced(j, state[j])
      BY <1>3, <2>1 DEF ResultsAnnounced
    <3>2. QED
      BY <1>1, <3>1
  <2>2. ASSUME pc'[j] = "write" PROVE Now(j, outcome'[j])
    <3>1. outcome'[j] = outcome[j] /\ Announced(j, outcome[j])
      BY <1>3, <2>2 DEF ResultsAnnounced
    <3>2. QED
      BY <1>1, <3>1
  <2>3. QED
    BY <2>1, <2>2
<1>4. ASSUME NEW i \in Jobs, TaskStep(i)
      PROVE  /\ state'[j] \in Results => Now(j, state'[j])
             /\ pc'[j] = "write" => Now(j, outcome'[j])
  <2>1. CASE Enqueue(i)
    <3>1. PICK o : o = outcome[i]
      OBVIOUS
    <3>2. /\ Push(i, o) /\ pc' = [pc EXCEPT ![i] = "write"]
          /\ UNCHANGED <<state, mode, outcome>>
      BY <2>1, <3>1 DEF Enqueue
    <3>3. CASE j = i
      <4>1. Now(j, outcome'[j])
        BY <3>1, <3>2, <3>3, PushAnnounces DEF Announced
      <4>2. ASSUME state'[j] \in Results PROVE Now(j, state'[j])
        <5>1. Announced(j, state[j]) /\ state'[j] = state[j]
          BY <1>2, <3>2, <4>2 DEF ResultsAnnounced
        <5>2. QED
          BY <1>1, <5>1
      <4>3. QED
        BY <4>1, <4>2
    <3>4. CASE j # i
      BY <1>2, <1>3, <3>2, <3>4
    <3>5. QED
      BY <3>3, <3>4
  <2>2. CASE WriteFinal(i)
    <3>1. /\ pc[i] = "write" /\ pc' = [pc EXCEPT ![i] = "finalize"]
          /\ UNCHANGED <<mode, outcome, told>>
          /\ state' = IF IsTerminal(state[i]) THEN state ELSE [state EXCEPT ![i] = outcome[i]]
      BY <2>2 DEF WriteFinal, Settle
    <3>2. CASE j = i /\ ~IsTerminal(state[i])
      <4>1. state'[j] = outcome[j] /\ pc'[j] = "finalize" /\ Announced(j, outcome[j])
        BY <1>2, <3>1, <3>2 DEF ResultsAnnounced
      <4>2. QED
        BY <1>1, <4>1
    <3>3. CASE ~(j = i /\ ~IsTerminal(state[i]))
      BY <1>2, <1>3, <3>1, <3>3
    <3>4. QED
      BY <3>2, <3>3
  <2>3. CASE Start(i)
    BY <1>2, <1>3, <2>3 DEF Start
  <2>4. CASE Execute(i)
    BY <1>2, <1>3, <2>4 DEF Execute, Ends
  <2>5. CASE Panic(i)
    BY <1>2, <1>3, <2>5 DEF Panic
  <2>6. CASE SetLabel(i) \/ Finalize(i) \/ Notify(i)
    BY <1>2, <1>3, <2>6 DEF SetLabel, Finalize, Notify
  <2>7. CASE Release(i) \/ Die(i)
    BY <1>2, <1>3, <2>7 DEF Release, Die, Exit
  <2>8. QED
    BY <1>4, <2>1, <2>2, <2>3, <2>4, <2>5, <2>6, <2>7 DEF TaskStep, Advance
<1>5. ASSUME NEW p \in Parents, CallStep(p) \/ Environment(p)
      PROVE  /\ state'[j] \in Results => mode[j] = "Background" /\ state'[j] = state[j]
             /\ pc'[j] = "write" =>
                  mode[j] = "Background" /\ pc[j] = "write" /\ outcome'[j] = outcome[j]
  <2>p. p \in Actors /\ (call[p] \in Aimed => target[p] \in Jobs)
    BY DEF Actors, CallTypes
  <2>1. CASE Insert(p) \/ RunSync(p)
    <3>1. PICK i \in Jobs : /\ state[i] = "Absent"
                            /\ pc' = pc \/ pc' = [pc EXCEPT ![i] = "queued"]
                            /\ state' = [state EXCEPT ![i] = "Pending"]
                            /\ \A k \in Jobs \ {i} : mode'[k] = mode[k]
                            /\ UNCHANGED outcome
      BY <2>1 DEF Insert, RunSync, NewHandle
    <3>2. pc[i] = "unborn"
      BY <3>1 DEF LifeInv, AbsentUnborn
    <3>3. QED
      BY <1>2, <3>1, <3>2
  <2>2. CASE Launch(p)
    BY <1>2, <2>2 DEF Launch
  <2>3. CASE Mark(p)
    BY <1>2, <2>3 DEF Mark, Settle
  <2>4. CASE Drop(p)
    BY <1>2, <2>4 DEF Drop, Exit
  <2>5. CASE ~Insert(p) /\ ~RunSync(p) /\ ~Launch(p) /\ ~Mark(p) /\ ~Drop(p)
    <3>1. UNCHANGED <<pc, mode, state, outcome>>
      BY <1>5, <2>5 DEF CallStep, Environment, Admit, Store, LookupCancel, Abort, Report,
         Wake, LookupConsume, Consume, LookupUnknown, WaitCheck, WaitArm, WaitPoll,
         WaitBegin, WaitDeadline, TakeNotifications
    <3>2. QED
      BY <1>2, <3>1
  <2>6. QED
    BY <2>1, <2>2, <2>3, <2>4, <2>5
<1>6. CASE (\E a \in Actors : Begin(a) \/ Sweep(a)) \/ Tick \/ UNCHANGED vars
  BY <1>2, <1>3, <1>6 DEF Begin, Sweep, Tick, vars
<1>7. QED
  BY <1>3, <1>4, <1>5, <1>6 DEF Next

-----------------------------------------------------------------------------
(* How many notices there are.                                             *)

(* The parents with a report to make of a job are finitely many.           *)
LEMMA ReportersFinite ==
  \A j : IsFiniteSet(Reporters(j)) /\ Cardinality(Reporters(j)) \in Nat
<1> TAKE j
<1>1. Reporters(j) \subseteq Parents /\ IsFiniteSet(Parents)
  BY ConstantsAssumption DEF Reporters
<1>2. QED
  BY <1>1, FS_Subset, FS_CardinalityType

(* Only a cancel that has won goes on to report.                           *)
LEMMA ReportersShrink ==
  ASSUME TypeInv, [Next]_vars, \A p \in Parents : ~Mark(p), NEW j \in Jobs
  PROVE  Reporters(j)' \subseteq Reporters(j)
<1>1. SUFFICES ASSUME NEW p \in Parents, call'[p] = "report", target'[p] = j
               PROVE  call[p] = "report" /\ target[p] = j
  BY DEF Reporters
<1>2. CASE UNCHANGED vars
  BY <1>1, <1>2 DEF vars, callVars
<1>3. CASE Next
  <2>1. ~LookupCancel(p) /\ ~LookupConsume(p) /\ ~Abort(p)
    BY <1>1 DEF LookupCancel, LookupConsume, Abort, Return, Goto, TypeInv, CallTypes, Actors
  <2>2. QED
    BY <1>1, <1>3, <2>1, StaysAt
<1>4. QED
  BY <1>2, <1>3

(* Counting one by one, in whole numbers.                                  *)
LEMMA PaidAt ==
  ASSUME TypeInv, TypeInv', NoticesPaid, NEW j \in Jobs,
         NEW t \in Int, NEW r \in Int, NEW n \in Int,
         Len(told'[j]) <= Len(told[j]) + t,
         Cardinality(Reporters(j)') <= Cardinality(Reporters(j)) + r,
         Notices(j)' >= Notices(j) + n, t + r <= n
  PROVE  Len(told'[j]) + Cardinality(Reporters(j)') <= Notices(j)'
<1>1. Len(told[j]) \in Nat /\ Len(told'[j]) \in Nat
  <2>1. told[j] \in Seq(Terminal) /\ told'[j] \in Seq(Terminal)
    BY DEF TypeInv, RuntimeTypes
  <2>2. \A q \in Seq(Terminal) : Len(q) \in Nat
    OBVIOUS
  <2>3. QED
    BY <2>1, <2>2
<1>2. Cardinality(Reporters(j)) \in Nat /\ Cardinality(Reporters(j)') \in Nat
  <2>1. Reporters(j)' \subseteq Parents /\ IsFiniteSet(Parents)
    BY ConstantsAssumption DEF Reporters
  <2>2. QED
    BY <2>1, ReportersFinite, FS_Subset, FS_CardinalityType
<1>3. Notices(j) \in Nat /\ Notices(j)' \in Nat
  BY DEF Notices, If
<1>4. Len(told[j]) + Cardinality(Reporters(j)) <= Notices(j)
  BY DEF NoticesPaid
<1>5. QED
  BY <1>1, <1>2, <1>3, <1>4

(* Most steps pay for nothing.                                             *)
LEMMA PaidSame ==
  ASSUME TypeInv, TypeInv', NoticesPaid, NEW j \in Jobs,
         Len(told'[j]) <= Len(told[j]),
         Cardinality(Reporters(j)') <= Cardinality(Reporters(j)),
         Notices(j)' >= Notices(j)
  PROVE  Len(told'[j]) + Cardinality(Reporters(j)') <= Notices(j)'
<1>1. /\ Len(told'[j]) <= Len(told[j]) + 0
      /\ Cardinality(Reporters(j)') <= Cardinality(Reporters(j)) + 0
      /\ Notices(j)' >= Notices(j) + 0
  <2>1. Len(told[j]) \in Nat
    <3>1. told[j] \in Seq(Terminal)
      BY DEF TypeInv, RuntimeTypes
    <3>2. QED
      BY <3>1
  <2>2. Notices(j) \in Nat
    BY DEF Notices, If
  <2>3. QED
    BY <2>1, <2>2, ReportersFinite
<1>2. 0 \in Int /\ 0 + 0 <= 0
  OBVIOUS
<1>3. QED
  BY <1>1, <1>2, PaidAt

(* What a task has been through stays behind it; a terminal state does as  *)
(* well once the task has begun.                                           *)
Ended(j) == pc[j] \in {"write", "finalize", "notify", "release", "exited"}

(* No task goes back behind its begin or its end.                          *)
LEMMA StagesPass ==
  ASSUME IInv, [Next]_vars
  PROVE  \A j \in Jobs : (Ended(j) => Ended(j)') /\ (Begun(j) => Begun(j)')
<1> USE DEF IInv, TypeInv, HandleTypes, TaskTypes, handleVars, taskVars
<1>1. ASSUME NEW i \in Jobs, TaskStep(i)
      PROVE  \A j \in Jobs : (Ended(j) => Ended(j)') /\ (Begun(j) => Begun(j)')
  BY <1>1 DEF TaskStep, Advance, Start, SetLabel, Execute, Ends, Panic, Enqueue,
     WriteFinal, Finalize, Notify, Release, Die, Exit, Ended, Begun
<1>2. ASSUME NEW p \in Parents, CallStep(p) \/ Environment(p)
      PROVE  \A j \in Jobs : (Ended(j) => Ended(j)') /\ (Begun(j) => Begun(j)')
  <2>1. CASE Insert(p) \/ RunSync(p)
    <3>1. PICK j \in Jobs : /\ state[j] = "Absent"
                            /\ pc' = pc \/ pc' = [pc EXCEPT ![j] = "queued"]
      BY <2>1 DEF Insert, RunSync, NewHandle
    <3>2. pc[j] = "unborn"
      BY <3>1 DEF LifeInv, AbsentUnborn
    <3>3. QED
      BY <3>1, <3>2 DEF Ended, Begun
  <2>2. CASE Launch(p)
    <3>1. target[p] \in Jobs /\ pc[target[p]] = "unborn"
      BY <2>2 DEF Launch, CallTypes, Aimed, Actors, LifeInv, LaunchOwns
    <3>2. QED
      BY <2>2, <3>1 DEF Launch, Ended, Begun
  <2>3. CASE Drop(p)
    BY <2>3 DEF Drop, Exit, Ended, Begun
  <2>4. CASE ~Insert(p) /\ ~RunSync(p) /\ ~Launch(p) /\ ~Drop(p)
    <3>1. UNCHANGED pc
      BY <1>2, <2>4 DEF CallStep, Environment, Admit, Store, LookupCancel, Abort, Mark,
         Report, Wake, LookupConsume, Consume, LookupUnknown, WaitCheck, WaitArm, WaitPoll,
         WaitBegin, WaitDeadline, TakeNotifications
    <3>2. QED
      BY <3>1 DEF Ended, Begun
  <2>5. QED
    BY <2>1, <2>2, <2>3, <2>4
<1>3. CASE (\E a \in Actors : Begin(a) \/ Sweep(a)) \/ Tick \/ UNCHANGED vars
  BY <1>3 DEF Begin, Sweep, Tick, vars, Ended, Begun
<1>4. QED
  BY <1>1, <1>2, <1>3 DEF Next

(* So the number of notices that may be queued never falls: the opening    *)
(* write of run_job gives one for the terminal state it may take away.     *)
LEMMA NoticesGrow ==
  ASSUME IInv, [Next]_vars, NEW j \in Jobs
  PROVE  Notices(j)' >= Notices(j)
<1>1. (Ended(j) => Ended(j)') /\ (Begun(j) => Begun(j)')
  BY StagesPass
<1>2. IsTerminal(state[j]) /\ ~IsTerminal(state'[j]) => ~Begun(j) /\ Begun(j)'
  <2> SUFFICES ASSUME IsTerminal(state[j]), ~IsTerminal(state'[j])
               PROVE  ~Begun(j) /\ Begun(j)'
    OBVIOUS
  <2>1. pc[j] = "queued" /\ state'[j] = "Running" /\ state[j] # "Running"
    BY TerminalStep DEF IInv, IsTerminal, Terminal
  <2>2. PICK i \in Jobs : Start(i)
    <3>1. Next
      BY <2>1 DEF vars, handleVars
    <3>2. ASSUME NEW i \in Jobs, TaskStep(i), ~Start(i) PROVE FALSE
      <4>1. CASE WriteFinal(i)
        BY <2>1, <4>1 DEF WriteFinal, Settle, IInv, TypeInv, HandleTypes
      <4>2. CASE ~WriteFinal(i)
        BY <2>1, <3>2, <4>2 DEF TaskStep, Advance, SetLabel, Execute, Panic, Enqueue,
           Finalize, Notify, Release, Die, Exit, handleVars
      <4>3. QED
        BY <4>1, <4>2
    <3>3. ASSUME NEW p \in Parents, CallStep(p) \/ Environment(p) PROVE FALSE
      <4>1. CASE Insert(p) \/ RunSync(p)
        BY <2>1, <4>1 DEF Insert, RunSync, NewHandle, IInv, TypeInv, HandleTypes
      <4>2. CASE Mark(p)
        BY <2>1, <4>2 DEF Mark, Settle, IInv, TypeInv, HandleTypes
      <4>3. CASE ~Insert(p) /\ ~RunSync(p) /\ ~Mark(p)
        BY <2>1, <3>3, <4>3 DEF CallStep, Environment, Admit, Launch, Store, LookupCancel,
           Abort, Report, Wake, LookupConsume, Consume, LookupUnknown, WaitCheck, WaitArm,
           WaitPoll, WaitBegin, WaitDeadline, TakeNotifications, Drop, Exit, handleVars
      <4>4. QED
        BY <4>1, <4>2, <4>3
    <3>4. CASE (\E a \in Actors : Begin(a) \/ Sweep(a)) \/ Tick
      BY <2>1, <3>4 DEF Begin, Sweep, Tick, handleVars
    <3>5. QED
      BY <3>1, <3>2, <3>3, <3>4 DEF Next
  <2>3. i = j
    BY <2>1, <2>2 DEF Start, IInv, TypeInv, HandleTypes
  <2>4. QED
    BY <2>1, <2>2, <2>3 DEF Start, Begun, IInv, TypeInv, TaskTypes
<1>3. QED
  BY <1>1, <1>2 DEF Notices, If, Ended, Begun, IsTerminal

(* Every notice that is queued has been allowed for.                       *)
LEMMA PaidStep ==
  ASSUME IInv, NoticesPaid, [Next]_vars
  PROVE  NoticesPaid'
<1>1. TypeInv /\ TypeInv'
  BY NextTypeInv DEF IInv
<1>2. SUFFICES ASSUME NEW j \in Jobs
               PROVE  Len(told'[j]) + Cardinality(Reporters(j)') <= Notices(j)'
  BY DEF NoticesPaid, Reporters, Notices, Begun, IsTerminal
<1>3. Notices(j)' >= Notices(j)
  BY NoticesGrow
<1>4. (\A p \in Parents : ~Mark(p)) => Cardinality(Reporters(j)') <= Cardinality(Reporters(j))
  BY <1>1, ReportersShrink, ReportersFinite, FS_Subset
<1>5. Len(told[j]) \in Nat
  <2>1. told[j] \in Seq(Terminal)
    BY <1>1 DEF TypeInv, RuntimeTypes
  <2>2. QED
    BY <2>1
<1>6. CASE \E i \in Jobs : Enqueue(i)
  <2>1. PICK i \in Jobs : Enqueue(i)
    BY <1>6
  <2>2. PICK o : o = outcome[i]
    OBVIOUS
  <2>3. /\ Push(i, o) /\ pc[i] = "enqueue" /\ pc' = [pc EXCEPT ![i] = "write"]
        /\ UNCHANGED <<state, call, target>>
    BY <2>1, <2>2 DEF Enqueue, handleVars, callVars
  <2>4. Cardinality(Reporters(j)') <= Cardinality(Reporters(j))
    <3>1. Reporters(j)' = Reporters(j)
      BY <2>3 DEF Reporters
    <3>2. QED
      BY <3>1, ReportersFinite
  <2>5. CASE j = i
    <3>1. Len(told'[j]) <= Len(told[j]) + 1
      BY <1>1, <1>5, <2>3, <2>5, PushAnnounces
    <3>2. Notices(j)' >= Notices(j) + 1
      BY <1>1, <2>3, <2>5 DEF Notices, If, Begun, TypeInv, TaskTypes
    <3>3. Cardinality(Reporters(j)') <= Cardinality(Reporters(j)) + 0
      BY <2>4, ReportersFinite
    <3>4. QED
      BY <1>1, <3>1, <3>2, <3>3, PaidAt
  <2>6. CASE j # i
    <3>1. Len(told'[j]) <= Len(told[j])
      BY <1>1, <1>5, <2>3, <2>6, PushAnnounces
    <3>2. QED
      BY <1>1, <1>3, <2>4, <3>1, PaidSame
  <2>7. QED
    BY <2>5, <2>6
<1>7. CASE \E p \in Parents : Report(p)
  <2>1. PICK p \in Parents : Report(p)
    BY <1>7
  <2>2. PICK i \in Jobs : i = target[p]
    BY <1>1, <2>1 DEF Report, TypeInv, CallTypes, Aimed, Actors
  <2>3. /\ Push(i, "Cancelled") /\ call[p] = "report"
        /\ call' = [call EXCEPT ![p] = "wake"] /\ UNCHANGED target
    BY <2>1, <2>2 DEF Report, Goto
  <2>4. \A q \in Parents : q # p => call'[q] = call[q]
    BY <1>1, <2>3 DEF TypeInv, CallTypes, Actors
  <2>5. call'[p] = "wake"
    BY <1>1, <2>3 DEF TypeInv, CallTypes, Actors
  <2>6. CASE j = i
    <3>1. Len(told'[j]) <= Len(told[j]) + 1
      BY <1>1, <1>5, <2>3, <2>6, PushAnnounces
    <3>2. p \in Reporters(j) /\ Reporters(j)' = Reporters(j) \ {p}
      BY <2>2, <2>3, <2>4, <2>5, <2>6 DEF Reporters
    <3>3. Cardinality(Reporters(j)') <= Cardinality(Reporters(j)) + (-1)
      BY <3>2, ReportersFinite, FS_RemoveElement
    <3>4. Notices(j)' >= Notices(j) + 0
      BY <1>3 DEF Notices, If
    <3>5. -1 \in Int /\ 1 + (-1) <= 0
      OBVIOUS
    <3>6. QED
      BY <1>1, <3>1, <3>3, <3>4, <3>5, PaidAt
  <2>7. CASE j # i
    <3>1. Len(told'[j]) <= Len(told[j])
      BY <1>1, <1>5, <2>3, <2>7, PushAnnounces
    <3>2. Reporters(j)' = Reporters(j)
      BY <2>2, <2>3, <2>4, <2>5, <2>7 DEF Reporters
    <3>3. Cardinality(Reporters(j)') <= Cardinality(Reporters(j))
      BY <3>2, ReportersFinite
    <3>4. QED
      BY <1>1, <1>3, <3>1, <3>3, PaidSame
  <2>8. QED
    BY <2>6, <2>7
<1>8. CASE \E p \in Parents : Mark(p)
  <2>1. PICK p \in Parents : Mark(p)
    BY <1>8
  <2>2. PICK i \in Jobs : i = target[p]
    BY <1>1, <2>1 DEF Mark, TypeInv, CallTypes, Aimed, Actors
  <2>3. Len(told'[j]) <= Len(told[j])
    BY <1>5, <2>1 DEF Mark
  <2>4. call[p] = "mark" /\ \A q \in Parents : q # p => call'[q] = call[q] /\ target'[q] = target[q]
    BY <1>1, <2>1 DEF Mark, Return, Goto, TypeInv, CallTypes, Actors
  <2>5. CASE j = i /\ ~IsTerminal(state[i])
    <3>1. /\ state' = [state EXCEPT ![i] = "Cancelled"] /\ UNCHANGED <<pc, target>>
          /\ call'[p] = "report"
      BY <1>1, <2>1, <2>2, <2>5 DEF Mark, Settle, Goto, taskVars, TypeInv, CallTypes, Actors
    <3>2. Notices(j)' >= Notices(j) + 1
      BY <1>1, <2>5, <3>1 DEF Notices, If, Begun, IsTerminal, Terminal, TypeInv, HandleTypes
    <3>3. Reporters(j)' = Reporters(j) \cup {p} /\ p \notin Reporters(j)
      <4>1. p \notin Reporters(j)
        BY <2>4 DEF Reporters
      <4>2. p \in Reporters(j)'
        BY <2>2, <2>5, <3>1 DEF Reporters
      <4>3. \A q \in Parents \ {p} : q \in Reporters(j)' <=> q \in Reporters(j)
        BY <2>4 DEF Reporters
      <4>4. QED
        BY <4>1, <4>2, <4>3 DEF Reporters
    <3>4. Cardinality(Reporters(j)') <= Cardinality(Reporters(j)) + 1
      <4>1. /\ IsFiniteSet(Reporters(j)) /\ Cardinality(Reporters(j)) \in Nat
            /\ Cardinality(Reporters(j) \cup {p}) = Cardinality(Reporters(j)) + 1
        BY <3>3, ReportersFinite, FS_AddElement
      <4>2. QED
        BY <3>3, <4>1
    <3>5. Len(told'[j]) <= Len(told[j]) + 0
      BY <1>5, <2>3
    <3>6. 1 \in Int /\ 0 \in Int /\ 0 + 1 <= 1
      OBVIOUS
    <3>7. QED
      BY <1>1, <3>2, <3>4, <3>5, <3>6, PaidAt
  <2>6. CASE ~(j = i /\ ~IsTerminal(state[i]))
    <3>1. target'[p] # j \/ call'[p] # "report"
      BY <1>1, <2>1, <2>2, <2>6 DEF Mark, Return, Goto, TypeInv, CallTypes, Actors
    <3>2. Reporters(j)' \subseteq Reporters(j)
      BY <2>4, <3>1 DEF Reporters
    <3>3. Cardinality(Reporters(j)') <= Cardinality(Reporters(j))
      BY <3>2, ReportersFinite, FS_Subset
    <3>4. QED
      BY <1>1, <1>3, <2>3, <3>3, PaidSame
  <2>7. QED
    BY <2>5, <2>6
<1>9. CASE /\ \A i \in Jobs : ~Enqueue(i)
           /\ \A p \in Parents : ~Report(p)
           /\ \A p \in Parents : ~Mark(p)
  <2>1. Len(told'[j]) <= Len(told[j])
    BY <1>5, <1>9, ToldKept
  <2>2. QED
    BY <1>1, <1>3, <1>4, <1>9, <2>1, PaidSame
<1>10. QED
  BY <1>6, <1>7, <1>8, <1>9

-----------------------------------------------------------------------------
(* At first there is nothing to tell.                                      *)
LEMMA InitTold == Init => ToldInv
<1> SUFFICES ASSUME Init PROVE ToldInv
  OBVIOUS
<1>1. StateStaged /\ MappedBackground /\ CancelFlagged /\ ConsumesFinal /\ Settled
  BY DEF Init, StateStaged, MappedBackground, CancelFlagged, ConsumesFinal, ConsumedIsFinal,
     Settled, EndedByItself, Actors
<1>2. ResultsAnnounced
  BY DEF Init, ResultsAnnounced
<1>3. ASSUME NEW j \in Jobs
      PROVE  Len(told[j]) + Cardinality(Reporters(j)) <= Notices(j)
  <2>1. Reporters(j) = {} /\ told[j] = <<>>
    BY DEF Init, Reporters, Actors
  <2>2. Cardinality(Reporters(j)) = 0 /\ Len(told[j]) = 0
    BY <2>1, FS_EmptySet
  <2>3. Notices(j) \in Nat
    BY DEF Notices, If
  <2>4. QED
    BY <2>2, <2>3
<1>4. OneOutcome
  BY DEF Init, OneOutcome
<1>5. QED
  BY <1>1, <1>2, <1>3, <1>4 DEF ToldInv, NoticesPaid

(* The invariant says what the property says.                              *)
LEMMA ToldReported == IInv /\ ToldInv => JobsReported
<1> SUFFICES ASSUME IInv, ToldInv PROVE JobsReported
  OBVIOUS
<1> USE DEF IInv, TypeInv, ToldInv
<1>1. TypeOK
  BY DEF TypeOK
<1>2. ResultAnnounced
  BY DEF ResultAnnounced, MappedBackground, ResultsAnnounced, Announced
<1>3. ASSUME NEW j \in Jobs PROVE Len(told[j]) <= 3
  <2>1. told[j] \in Seq(Terminal)
    BY DEF RuntimeTypes
  <2>2. Len(told[j]) \in Nat
    BY <2>1
  <2>3. Notices(j) \in 0..3
    BY DEF Notices, If
  <2>4. QED
    BY <2>2, <2>3, ReportersFinite DEF NoticesPaid
<1>4. NoticesBounded
  BY <1>3 DEF NoticesBounded, OneOutcome
<1>5. ConsumedIsFinal
  BY DEF ConsumesFinal
<1>6. LiveJobHasTask
  <2> SUFFICES ASSUME NEW j \in jobs, state[j] \in {"Pending", "Running"}, ~cancelled[j],
                      pc[j] \in {"unborn", "exited"}
               PROVE  \E p \in Parents : call[p] = "launch" /\ target[p] = j
    BY DEF LiveJobHasTask
  <2>1. j \in Jobs /\ mode[j] = "Background" /\ ~aborted[j]
    BY DEF MappedBackground, CancelFlagged
  <2>2. pc[j] # "exited"
    BY <2>1 DEF Settled, EndedByItself, IsTerminal, Terminal
  <2>3. QED
    BY <2>1, <2>2 DEF LifeInv, UnbornLaunched
<1>7. LabelAgrees
  BY DEF LabelAgrees, Settled, EndedByItself
<1>8. QED
  BY <1>1, <1>2, <1>4, <1>5, <1>6, <1>7 DEF JobsReported

(* What a parent is told of its jobs is what has become of them: a result  *)
(* it can read was announced, there are at most three notices of a job and *)
(* one of them is of an end that is no cancellation, what is consumed is   *)
(* final unless it was cancelled, a job that reads as live has somebody to *)
(* move it on or was cancelled, and the label of one that ended by itself  *)
(* agrees with its state, for any number of parents, jobs and cancels.     *)
THEOREM JobsReportedCorrect == Spec => []JobsReported
<1>1. IInv /\ ToldInv /\ [Next]_vars => ToldInv'
  BY StagedStep, MappedStep, FlaggedStep, ConsumesStep, SettledStep, AnnouncedStep,
     PaidStep, OneOutcomeStep DEF ToldInv
<1>2. QED
  BY <1>1, InitTold, ToldReported, LifeInvariant, PTL DEF Spec

=============================================================================
