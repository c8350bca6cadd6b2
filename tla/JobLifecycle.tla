---------------------------- MODULE JobLifecycle ----------------------------
(***************************************************************************)
(* What the sub-agent runtime promises the callers of its tool, without    *)
(* locks, tasks or calls: the life of each background job as status and    *)
(* list queries see it, and the slots the jobs occupy.  It is the state    *)
(* diagram of section 7.3 of docs/ASYNC_SUBAGENT_IMPLEMENTATION_PLAN.md,   *)
(* with the one edge that the code adds to it (Restart), and the           *)
(* concurrency limit with the slack the code leaves (Slack).               *)
(***************************************************************************)
EXTENDS Naturals, FiniteSets

CONSTANTS
  Jobs,    \* the sub-session ids
  Limit,   \* max_concurrent_jobs
  Slack    \* how many jobs concurrent spawns may start beyond it

VARIABLES
  status,  \* what a query returns for the job
  slot     \* the job's slot: none yet, held, in use by its run, or returned

jvars == <<status, slot>>

Final == {"Completed", "Failed", "Cancelled", "TimedOut"}

Occupied == {j \in Jobs : slot[j] \in {"held", "used"}}

Init ==
  /\ status = [j \in Jobs |-> "Absent"]
  /\ slot = [j \in Jobs |-> "none"]

Register(j) ==
  /\ status[j] = "Absent"
  /\ status' = [status EXCEPT ![j] = "Pending"]
  /\ UNCHANGED slot

Occupy(j) ==
  /\ status[j] # "Absent" /\ slot[j] = "none"
  /\ Cardinality(Occupied) < Limit + Slack
  /\ slot' = [slot EXCEPT ![j] = "held"]
  /\ UNCHANGED status

Run(j) ==
  /\ status[j] = "Pending" /\ slot[j] = "held"
  /\ status' = [status EXCEPT ![j] = "Running"]
  /\ slot' = [slot EXCEPT ![j] = "used"]

(* The run of a job that was cancelled before the run began.               *)
Restart(j) ==
  /\ status[j] = "Cancelled" /\ slot[j] = "held"
  /\ status' = [status EXCEPT ![j] = "Running"]
  /\ slot' = [slot EXCEPT ![j] = "used"]

Finish(j) ==
  /\ status[j] = "Running"
  /\ \E s \in Final : status' = [status EXCEPT ![j] = s]
  /\ UNCHANGED slot

Cancel(j) ==
  /\ status[j] \in {"Pending", "Running"}
  /\ status' = [status EXCEPT ![j] = "Cancelled"]
  /\ UNCHANGED slot

Vacate(j) ==
  /\ j \in Occupied
  /\ slot' = [slot EXCEPT ![j] = "returned"]
  /\ UNCHANGED status

Next == \E j \in Jobs : \/ Register(j) \/ Occupy(j) \/ Run(j) \/ Restart(j)
                        \/ Finish(j) \/ Cancel(j) \/ Vacate(j)

Spec == Init /\ [][Next]_jvars
=============================================================================
