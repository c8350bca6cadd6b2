------------------------------ MODULE Scheduler ------------------------------
(***************************************************************************)
(* The scheduler (src/src/scheduler.rs) and the tool calls and commands    *)
(* that edit its schedule (src/src/tools/scheduler.rs, app/commands.rs).   *)
(*                                                                         *)
(* The schedule lives twice: in a map behind a read-write lock and in      *)
(* schedule.json.  Every call first reloads the map from the file, then    *)
(* edits it and saves it; a loop that wakes every thirty seconds does the  *)
(* same to mark, drop and start what is due.  The lock is released between *)
(* these steps, and the file is read without it, so calls and loop         *)
(* interleave on the threads of the executor.  The process may be killed   *)
(* at any step and started again.                                          *)
(*                                                                         *)
(* Time is counted in ticks.  A cron expression is the set of the times at *)
(* which it fires.  What a task says, and the turn it starts, are left     *)
(* out.  A definition marked "Mutant" is a mistake its neighbour could     *)
(* contain and that a property must notice; nothing uses it.               *)
(***************************************************************************)
EXTENDS Integers, Sequences, FiniteSets

CONSTANTS
  Ids,        \* the ids of tasks
  Callers,    \* the tool calls and commands that may be in flight
  Loop,       \* the loop's task
  Nil,        \* no value
  Crons,      \* the cron expressions in use: sets of times
  Delays,     \* the delays of one-time reminders
  Minute,     \* ticks of a minute
  Period,     \* ticks the loop sleeps: thirty seconds
  Slack,      \* ticks by which the executor may run the loop late
  Horizon,    \* bound: the last tick
  MaxCalls,   \* bound: how many calls are made
  MaxFaults,  \* bound: how many saves fail
  MaxKills    \* bound: how often the process is killed

Actors  == Callers \cup {Loop}
Serials == 0 .. MaxCalls

(* ScheduledTask: last is 0 before the first run.  The serial tells which  *)
(* call made it, the program does not keep it.                             *)
Task == [id : Ids, cron : SUBSET Nat, once : BOOLEAN, enabled : BOOLEAN,
         last : Nat, serial : Serials]

Schedule == [Ids -> Task \cup {Nil}]
Empty    == [i \in Ids |-> Nil]

ASSUME SchedulerAssumption ==
  /\ Loop \notin Callers /\ Nil \notin Callers \cup {Loop}
  /\ Nil \notin Task /\ Nil \notin Schedule
  /\ {Minute, Period} \subseteq Nat \ {0}
  /\ {Slack, Horizon, MaxCalls, MaxFaults, MaxKills} \subseteq Nat
  /\ Delays \subseteq Nat
  /\ \A cron \in Crons : cron \subseteq Nat

Kinds == {"add", "remove", "toggle", "list"}

(* Where a call, or the loop's turn, stands: the step it will take next.   *)
Pc == {"idle", "read", "install", "edit", "open", "write", "mark", "drop",
       "start"}

VARIABLES
  now,      \* the clock
  up,       \* the process runs
  tasks,    \* Scheduler::tasks
  file,     \* what schedule.json holds; Nil if nothing can be parsed from it
  pc,       \* where each actor stands
  copy,     \* the parsed file of its reload
  request,  \* a caller's request
  stamp,    \* `now` of the loop's turn
  due,      \* tasks_to_run of the loop's turn
  wake,     \* when the loop's sleep ends
  started,  \* history: when the runs of a task were started
  made,     \* history: the task an add has asked for
  calls, faults, kills  \* history: how many there were

actorVars   == <<pc, copy, request>>
loopVars    == <<stamp, due, wake>>
historyVars == <<started, made, calls, faults, kills>>
vars == <<now, up, tasks, file, actorVars, loopVars, historyVars>>

Reminder(i, at, n) == [id |-> i, cron |-> {at}, once |-> TRUE,
                       enabled |-> TRUE, last |-> 0, serial |-> n]
Recurring(i, cron, n) == [id |-> i, cron |-> cron, once |-> FALSE,
                          enabled |-> TRUE, last |-> 0, serial |-> n]

(* The tasks that can be made at a time.                                   *)
NewTasks(i, t, n) == {Recurring(i, cron, n) : cron \in Crons}
                       \cup {Reminder(i, t + d, n) : d \in Delays}

NoRequest == [kind |-> "list", id |-> Nil, task |-> Nil, on |-> FALSE]

(* The schedules a file may hold when the program is first started.        *)
FirstFiles ==
  {Nil} \cup UNION {{[Empty EXCEPT ![i] = t] : t \in NewTasks(i, Minute, 0)} :
                     i \in Ids}

Loaded(f) == IF f = Nil THEN Empty ELSE f

-----------------------------------------------------------------------------
Init ==
  /\ now = Minute /\ up = TRUE
  /\ file \in FirstFiles
  /\ tasks = Loaded(file)
  /\ pc = [a \in Actors |-> IF a = Loop THEN "read" ELSE "idle"]
  /\ copy = [a \in Actors |-> Nil]
  /\ request = [a \in Callers |-> NoRequest]
  /\ stamp = 0 /\ due = {} /\ wake = Minute
  /\ started = [s \in Serials |-> <<>>]
  /\ made = [s \in Serials |->
               IF s = 0 /\ \E i \in Ids : tasks[i] # Nil
               THEN tasks[CHOOSE i \in Ids : tasks[i] # Nil] ELSE Nil]
  /\ calls = 0 /\ faults = 0 /\ kills = 0

Goto(a, l) == pc' = [pc EXCEPT ![a] = l]

(* save() holds the read lock while it writes the file: whoever wants the  *)
(* write lock waits until no save is under way.                            *)
Lockable == \A a \in Actors : pc[a] # "write"

(* A caller that returns forgets its request.                              *)
Return(a) == Goto(a, "idle") /\ request' = [request EXCEPT ![a] = NoRequest]

(* The loop's turn ends, its locals are forgotten and it sleeps.           *)
Sleep ==
  /\ Goto(Loop, "idle") /\ wake' = now + Period
  /\ stamp' = 0 /\ due' = {}

(* What follows the reload: the loop looks at the clock.                   *)
Resume(a) ==
  \/ a = Loop /\ Goto(a, "mark") /\ stamp' = now /\ UNCHANGED request
  \/ a # Loop /\ request[a].kind = "list" /\ Return(a) /\ UNCHANGED stamp
  \/ /\ a # Loop /\ request[a].kind # "list"
     /\ Goto(a, "edit") /\ UNCHANGED <<request, stamp>>

(* A call is made, a reminder's time is fixed and the reload begins.       *)
Request(i) ==
  {[kind |-> "add", id |-> i, task |-> t, on |-> TRUE] :
     t \in NewTasks(i, now, calls + 1)}
  \cup {[kind |-> k, id |-> i, task |-> Nil, on |-> b] :
          k \in {"remove", "toggle", "list"}, b \in BOOLEAN}

Call(a) ==
  /\ up /\ pc[a] = "idle" /\ calls < MaxCalls
  /\ \E i \in Ids : \E r \in Request(i) :
       /\ r.kind \in {"remove", "list"} => r.on
       /\ request' = [request EXCEPT ![a] = r]
       /\ made' = [made EXCEPT ![calls + 1] = r.task]
  /\ calls' = calls + 1
  /\ Goto(a, "read")
  /\ UNCHANGED <<now, up, tasks, file, copy, loopVars, started, faults, kills>>

(* Mutant: a file that cannot be parsed is taken for a schedule.           *)
ReadAnything(a) ==
  /\ up /\ pc[a] = "read"
  /\ copy' = [copy EXCEPT ![a] = file]
  /\ Goto(a, "install")
  /\ UNCHANGED <<now, up, tasks, file, request, loopVars, historyVars>>

(* reload: read and parse the file, without the lock; a file that is       *)
(* absent or half written changes nothing.                                 *)
Read(a) ==
  /\ up /\ pc[a] = "read"
  /\ \/ file = Nil /\ Resume(a) /\ UNCHANGED copy
     \/ /\ file # Nil
        /\ copy' = [copy EXCEPT ![a] = file]
        /\ Goto(a, "install") /\ UNCHANGED <<request, stamp>>
  /\ UNCHANGED <<now, up, tasks, file, due, wake, historyVars>>

(* reload: the parsed schedule replaces the map.                           *)
Install(a) ==
  /\ up /\ pc[a] = "install" /\ Lockable
  /\ tasks' = copy[a]
  /\ copy' = [copy EXCEPT ![a] = Nil]
  /\ Resume(a)
  /\ UNCHANGED <<now, up, file, due, wake, historyVars>>

(* add_task, remove_task and toggle_task edit the map; the last two return *)
(* an error when there is no such task.                                    *)
Edit(a) ==
  /\ up /\ pc[a] = "edit" /\ Lockable
  /\ LET r == request[a] IN
     \/ /\ r.kind = "add"
        /\ tasks' = [tasks EXCEPT ![r.id] = r.task]
        /\ Goto(a, "open") /\ UNCHANGED request
     \/ /\ r.kind = "remove" /\ tasks[r.id] # Nil
        /\ tasks' = [tasks EXCEPT ![r.id] = Nil]
        /\ Goto(a, "open") /\ UNCHANGED request
     \/ /\ r.kind = "toggle" /\ tasks[r.id] # Nil
        /\ tasks' = [tasks EXCEPT ![r.id].enabled = r.on]
        /\ Goto(a, "open") /\ UNCHANGED request
     \/ /\ r.kind # "add" /\ tasks[r.id] = Nil
        /\ Return(a) /\ UNCHANGED tasks
  /\ UNCHANGED <<now, up, file, copy, loopVars, historyVars>>

(* Where a save leads: a caller returns, the loop ignores its outcome.     *)
Saved(a) ==
  \/ a = Loop /\ Goto(a, "start") /\ UNCHANGED request
  \/ a # Loop /\ Return(a)

(* save: take the read lock and open the file, which empties it.           *)
Open(a) ==
  /\ up /\ pc[a] = "open"
  /\ file' = Nil
  /\ Goto(a, "write")
  /\ UNCHANGED <<now, up, tasks, copy, request, loopVars, historyVars>>

(* save: write the map and release the lock.                               *)
Write(a) ==
  /\ up /\ pc[a] = "write"
  /\ file' = tasks
  /\ Saved(a)
  /\ UNCHANGED <<now, up, tasks, copy, loopVars, historyVars>>

(* The directory cannot be made, or the file not opened or not written.    *)
SaveFails(a) ==
  /\ up /\ pc[a] \in {"open", "write"} /\ faults < MaxFaults
  /\ faults' = faults + 1
  /\ Saved(a)
  /\ UNCHANGED <<now, up, tasks, file, copy, loopVars,
                 started, made, calls, kills>>

-----------------------------------------------------------------------------
(* The loop's turn, after its reload.                                      *)

(* Mutant: the window is as long as the loop's sleep.                      *)
IsDueShort(t) ==
  /\ t.enabled
  /\ \E o \in t.cron : stamp - Period < o /\ o <= stamp
  /\ stamp \div Minute > t.last \div Minute

(* The task fires within the last minute and has not run in this minute.   *)
IsDue(t) ==
  /\ t.enabled
  /\ \E o \in t.cron : stamp - Minute < o /\ o <= stamp
  /\ stamp \div Minute > t.last \div Minute

Ripe == {i \in Ids : tasks[i] # Nil /\ IsDue(tasks[i])}

(* Mutant: what is due is run but not marked.                              *)
Unmarked == tasks

(* last_run is set on what is due.                                         *)
Marked == [i \in Ids |-> IF i \in Ripe THEN [tasks[i] EXCEPT !.last = stamp]
                         ELSE tasks[i]]

(* run_loop: mark what is due, under the write lock.                       *)
Mark ==
  /\ up /\ pc[Loop] = "mark" /\ Lockable
  /\ tasks' = Marked
  /\ \/ Ripe = {} /\ Sleep
     \/ /\ Ripe # {}
        /\ due' = {[id |-> i, once |-> tasks[i].once, serial |-> tasks[i].serial] :
                     i \in Ripe}
        /\ Goto(Loop, "drop") /\ UNCHANGED <<stamp, wake>>
  /\ UNCHANGED <<now, up, file, copy, request, historyVars>>

(* Mutant: reminders are not removed.                                      *)
NoneDropped == tasks

(* The reminders among it are removed, by id.                              *)
Dropped == [i \in Ids |-> IF \E d \in due : d.id = i /\ d.once
                          THEN Nil ELSE tasks[i]]

(* run_loop: remove them, under a second lock.                             *)
Drop ==
  /\ up /\ pc[Loop] = "drop" /\ Lockable
  /\ tasks' = Dropped
  /\ Goto(Loop, "open")
  /\ UNCHANGED <<now, up, file, copy, request, loopVars, historyVars>>

(* run_loop: spawn a run of each and go to sleep.                          *)
Start ==
  /\ up /\ pc[Loop] = "start"
  /\ started' = [s \in Serials |->
                   IF \E d \in due : d.serial = s
                   THEN Append(started[s], stamp) ELSE started[s]]
  /\ Sleep
  /\ UNCHANGED <<now, up, tasks, file, copy, request,
                 made, calls, faults, kills>>

Wake ==
  /\ up /\ pc[Loop] = "idle" /\ wake <= now
  /\ Goto(Loop, "read")
  /\ UNCHANGED <<now, up, tasks, file, copy, request, loopVars, historyVars>>

-----------------------------------------------------------------------------
(* The clock, which does not outrun a loop that is due, and the process.   *)

Tick ==
  /\ now < Horizon /\ (up => now < wake + Slack)
  /\ now' = now + 1
  /\ UNCHANGED <<up, tasks, file, actorVars, loopVars, historyVars>>

Kill ==
  /\ up /\ kills < MaxKills
  /\ up' = FALSE /\ kills' = kills + 1
  /\ tasks' = Empty /\ due' = {} /\ stamp' = 0
  /\ pc' = [a \in Actors |-> "idle"] /\ copy' = [a \in Actors |-> Nil]
  /\ request' = [a \in Callers |-> NoRequest]
  /\ UNCHANGED <<now, file, wake, started, made, calls, faults>>

(* Scheduler::new reads the file once more; the loop starts at once.       *)
Restart ==
  /\ ~up
  /\ up' = TRUE /\ tasks' = Loaded(file)
  /\ wake' = now /\ Goto(Loop, "read")
  /\ UNCHANGED <<now, file, copy, request, stamp, due, historyVars>>

Reload(a) == Read(a) \/ Install(a)
Save(a)   == Open(a) \/ Write(a) \/ SaveFails(a)
LoopStep  == Wake \/ Reload(Loop) \/ Mark \/ Drop \/ Save(Loop) \/ Start
CallStep(a) == Reload(a) \/ Edit(a) \/ Save(a)

Next ==
  \/ \E a \in Callers : Call(a) \/ CallStep(a)
  \/ LoopStep
  \/ Tick \/ Kill \/ Restart

Spec == Init /\ [][Next]_vars

-----------------------------------------------------------------------------
(* Correctness.                                                            *)

(* The map is a schedule, and only what was parsed from the file replaces  *)
(* it: reload ignores what serde cannot read.                              *)
TypeOK ==
  /\ now \in Nat /\ up \in BOOLEAN
  /\ tasks \in Schedule /\ file \in Schedule \cup {Nil}
  /\ pc \in [Actors -> Pc] /\ copy \in [Actors -> Schedule \cup {Nil}]
  /\ request \in [Callers -> [kind : Kinds, id : Ids \cup {Nil},
                              task : Task \cup {Nil}, on : BOOLEAN]]
  /\ stamp \in Nat /\ wake \in Nat
  /\ due \subseteq [id : Ids, once : BOOLEAN, serial : Serials]
  /\ started \in [Serials -> Seq(Nat)] /\ made \in [Serials -> Task \cup {Nil}]
  /\ calls \in Serials /\ faults \in 0 .. MaxFaults /\ kills \in 0 .. MaxKills

(* A cron expression with second 0: it fires on whole minutes only.        *)
OnTheMinute(cron) == \A o \in cron : o % Minute = 0

(* How often the task has fired so far.                                    *)
Fired(s) == Cardinality({o \in made[s].cron : o <= now})

(* A reminder, or a cron expression with second 0, is started at most once *)
(* for each time it fires, however often the process is killed: the marks  *)
(* and removals reach the file before the run is started.  A save that     *)
(* fails, or a call that overlaps with the loop and writes back what it    *)
(* had read, costs at most one more run.                                   *)
RunsBounded ==
  \A s \in Serials :
    made[s] # Nil /\ (made[s].once \/ OnTheMinute(made[s].cron))
      => Len(started[s]) <= Fired(s) + faults + calls

(* No task is started twice within one minute of the clock, with the same  *)
(* exceptions: last_run survives a restart.                                *)
OncePerMinute ==
  \A s \in Serials : \A k \in DOMAIN started[s] :
    Cardinality({j \in DOMAIN started[s] :
                   started[s][j] \div Minute = started[s][k] \div Minute})
      <= 1 + faults + calls

(* No task runs more often than it should, by either count (run_loop).     *)
RunsSound == TypeOK /\ RunsBounded /\ OncePerMinute

Undisturbed == calls = 0 /\ faults = 0 /\ kills = 0

(* While nobody edits the schedule, no save fails and the process lives,   *)
(* a reminder, or a cron expression with second 0, is started within a     *)
(* minute of each time it fires, from the first start on: the loop's sleep *)
(* and its delay are shorter than its window, and the mark of an earlier   *)
(* run does not block a later one.                                         *)
DueStarted ==
  Undisturbed /\ made[0] # Nil /\ (made[0].once \/ OnTheMinute(made[0].cron))
    => \A o \in made[0].cron :
         Minute <= o /\ o + Minute <= now
           => \E k \in DOMAIN started[0] : started[0][k] \in o .. o + Minute - 1

-----------------------------------------------------------------------------
(* What the source says and the code does not do.                          *)

(* scheduler.rs, run_loop: a task runs when it is "time to run (within the *)
(* last minute and not run yet)": for each time it fires, once.            *)
NotRunYet ==
  \A s \in Serials : made[s] # Nil => Len(started[s]) <= Fired(s)
=============================================================================
