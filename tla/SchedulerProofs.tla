--------------------------- MODULE SchedulerProofs ---------------------------
(***************************************************************************)
(* Proofs about Scheduler, for any number of tasks, callers, calls, faults *)
(* and kills; what holds of some kinds of task only says so.               *)
(***************************************************************************)
EXTENDS Scheduler, FiniteSetTheorems, TLAPS

-----------------------------------------------------------------------------
(* What a run of a task is, and when it is started once too often.         *)

Runs(s) == {started[s][k] : k \in DOMAIN started[s]}
Told(s) == \E d \in due : d.serial = s
Seen(s) == Runs(s) \cup (IF Told(s) THEN {stamp} ELSE {})
Fires(cron, t) == \E o \in cron : t - Minute < o /\ o <= t

(* Where the loop and the calls stand.                                     *)
LoopInv ==
  /\ \A a \in Actors : copy[a] # Nil <=> pc[a] = "install"
  /\ pc[Loop] # "edit" /\ \A a \in Callers : pc[a] \notin {"mark", "drop", "start"}
  /\ up \/ \A a \in Actors : pc[a] = "idle"
  /\ pc[Loop] \in {"idle", "read", "install", "mark"} => due = {}
  /\ stamp <= now
  /\ \A s \in Serials : \A t \in Runs(s) :
       t <= now /\ (pc[Loop] \in {"mark", "drop", "open", "write", "start"} => t <= stamp)

(* The versions of the schedule: what is in one is a task as it was made.  *)
Same(t, m) == m # Nil /\ t.id = m.id /\ t.cron = m.cron /\ t.once = m.once
Known(v, of) ==
  v # Nil => \A i \in Ids : v[i] # Nil => v[i].id = i /\ Same(v[i], of[v[i].serial])

VersionInv ==
  /\ Known(tasks, made) /\ Known(file, made) /\ \A a \in Actors : Known(copy[a], made)
  /\ \A s \in Serials :
       /\ made[s] # Nil => /\ made[s].serial = s /\ s <= calls
                           /\ made[s].once => \E at \in Nat : made[s].cron = {at}
       /\ made[s] = Nil => started[s] = <<>>
       /\ \A t \in Runs(s) : Fires(made[s].cron, t)
  /\ \A d \in due :
       /\ made[d.serial] # Nil /\ d.id = made[d.serial].id /\ d.once = made[d.serial].once
       /\ Fires(made[d.serial].cron, stamp)

(* The calls: a task that is being added is nowhere yet.                   *)
Lacks(v, s) == v # Nil => \A i \in Ids : v[i] # Nil => v[i].serial # s
Unused(s) ==
  /\ started[s] = <<>> /\ ~Told(s)
  /\ Lacks(tasks, s) /\ Lacks(file, s) /\ \A a \in Actors : Lacks(copy[a], s)
Adding(a) == pc[a] \in {"read", "install", "edit"} /\ request[a].kind = "add"

CallInv ==
  \A a \in Callers :
    /\ pc[a] # "idle" => request[a].id \in Ids
    /\ Adding(a) =>
         LET t == request[a].task
         IN /\ t \in Task /\ t.id = request[a].id /\ made[t.serial] = t /\ Unused(t.serial)
            /\ \A b \in Callers : Adding(b) /\ b # a => request[b].task.serial # t.serial

SchedInv == TypeOK /\ LoopInv /\ VersionInv /\ CallInv

-----------------------------------------------------------------------------
(* Types.                                                                  *)

RequestType == [kind : Kinds, id : Ids \cup {Nil}, task : Task \cup {Nil}, on : BOOLEAN]

(* Minutes have ticks, times are numbers, nothing is a task.               *)
LEMMA Numbers ==
  /\ Minute \in Nat /\ Minute > 0 /\ Period \in Nat /\ Period > 0 /\ Slack \in Nat
  /\ Horizon \in Nat /\ MaxCalls \in Nat /\ MaxFaults \in Nat /\ MaxKills \in Nat
  /\ 0 \in Serials /\ Serials \subseteq Nat /\ Loop \in Actors /\ Callers \subseteq Actors
  /\ Loop \notin Callers /\ Nil \notin Task /\ Nil \notin Schedule
BY SchedulerAssumption DEF Serials, Actors

(* What a call can ask for is a task, a reminder with one time.            *)
LEMMA NewTaskTypes ==
  ASSUME NEW i \in Ids, NEW t \in Nat, NEW n \in Serials, NEW task \in NewTasks(i, t, n)
  PROVE  /\ task \in Task /\ task.id = i /\ task.serial = n /\ task # Nil
         /\ task.once => \E at \in Nat : task.cron = {at}
<1>1. CASE \E cron \in Crons : task = Recurring(i, cron, n)
  <2>1. PICK cron \in Crons : task = Recurring(i, cron, n)
    BY <1>1
  <2>2. cron \in SUBSET Nat /\ 0 \in Nat
    BY SchedulerAssumption
  <2>3. task \in Task
    BY <2>1, <2>2 DEF Recurring, Task
  <2>4. task.id = i /\ task.serial = n /\ task.once = FALSE
    BY <2>1 DEF Recurring
  <2>5. QED
    BY <2>3, <2>4, Numbers
<1>2. CASE \E d \in Delays : task = Reminder(i, t + d, n)
  <2>1. PICK d \in Delays : task = Reminder(i, t + d, n)
    BY <1>2
  <2>2. d \in Nat /\ t + d \in Nat /\ {t + d} \subseteq Nat
    BY SchedulerAssumption
  <2>3. task \in Task
    BY <2>1, <2>2, Numbers DEF Reminder, Task
  <2>4. task.id = i /\ task.serial = n /\ task.cron = {t + d}
    BY <2>1 DEF Reminder
  <2>5. QED
    BY <2>2, <2>3, <2>4, Numbers
<1>3. QED
  BY <1>1, <1>2 DEF NewTasks

(* What a call holds while it is under way.                                *)
LEMMA RequestTypes ==
  ASSUME TypeOK, NEW i \in Ids, NEW r \in Request(i), calls < MaxCalls
  PROVE  /\ r \in RequestType /\ r.id = i /\ calls + 1 \in Serials
         /\ r.kind = "add" => r.task \in NewTasks(i, now, calls + 1)
         /\ r.kind # "add" => r.task = Nil
<1>1. calls + 1 \in Serials /\ now \in Nat
  BY Numbers DEF TypeOK, Serials
<1>2. CASE r \in {[kind |-> "add", id |-> i, task |-> t, on |-> TRUE] :
                    t \in NewTasks(i, now, calls + 1)}
  <2>1. PICK t \in NewTasks(i, now, calls + 1) :
          r = [kind |-> "add", id |-> i, task |-> t, on |-> TRUE]
    BY <1>2
  <2>2. t \in Task
    BY <1>1, NewTaskTypes
  <2>3. r \in RequestType
    BY <2>1, <2>2 DEF RequestType, Kinds
  <2>4. r.id = i /\ r.kind = "add" /\ r.task = t
    BY <2>1
  <2>5. QED
    BY <1>1, <2>3, <2>4
<1>3. CASE r \in {[kind |-> k, id |-> i, task |-> Nil, on |-> b] :
                    k \in {"remove", "toggle", "list"}, b \in BOOLEAN}
  BY <1>1, <1>3 DEF RequestType, Kinds
<1>4. QED
  BY <1>2, <1>3 DEF Request

(* Every step keeps the types.                                             *)
LEMMA TypeStep ==
  ASSUME SchedInv, [Next]_vars
  PROVE  TypeOK'
<1>0. /\ now \in Nat /\ up \in BOOLEAN /\ tasks \in Schedule /\ file \in Schedule \cup {Nil}
      /\ pc \in [Actors -> Pc] /\ copy \in [Actors -> Schedule \cup {Nil}]
      /\ request \in [Callers -> RequestType] /\ stamp \in Nat /\ wake \in Nat
      /\ due \subseteq [id : Ids, once : BOOLEAN, serial : Serials]
      /\ started \in [Serials -> Seq(Nat)] /\ made \in [Serials -> Task \cup {Nil}]
      /\ calls \in Serials /\ faults \in 0 .. MaxFaults /\ kills \in 0 .. MaxKills
  BY DEF SchedInv, TypeOK, RequestType
<1>1. NoRequest \in RequestType /\ Empty \in Schedule
  BY DEF NoRequest, RequestType, Kinds, Empty, Schedule
<1>2. \A a \in Actors, l \in Pc : [pc EXCEPT ![a] = l] \in [Actors -> Pc]
  BY <1>0
<1>3. ASSUME NEW a \in Actors, Resume(a)
      PROVE  pc' \in [Actors -> Pc] /\ request' \in [Callers -> RequestType] /\ stamp' \in Nat
  BY <1>0, <1>1, <1>3 DEF Resume, Return, Goto, Pc, Actors
<1>4. ASSUME NEW a \in Actors, Saved(a)
      PROVE  pc' \in [Actors -> Pc] /\ request' \in [Callers -> RequestType]
  BY <1>0, <1>1, <1>4 DEF Saved, Return, Goto, Pc, Actors
<1>5. ASSUME Sleep
      PROVE  /\ pc' \in [Actors -> Pc] /\ wake' \in Nat /\ stamp' \in Nat
             /\ due' \subseteq [id : Ids, once : BOOLEAN, serial : Serials]
  BY <1>0, <1>5, Numbers DEF Sleep, Goto, Pc
<1>6. ASSUME NEW a \in Callers, Call(a) PROVE TypeOK'
  <2>0. PICK i \in Ids : \E r \in Request(i) :
          /\ request' = [request EXCEPT ![a] = r]
          /\ made' = [made EXCEPT ![calls + 1] = r.task]
    BY <1>6 DEF Call
  <2>1. PICK r \in Request(i) :
          /\ request' = [request EXCEPT ![a] = r]
          /\ made' = [made EXCEPT ![calls + 1] = r.task]
    BY <2>0
  <2>2. r \in RequestType /\ calls + 1 \in Serials
    BY <1>6, RequestTypes DEF SchedInv, Call
  <2>3. r.task \in Task \cup {Nil}
    BY <2>2 DEF RequestType
  <2>4. pc' \in [Actors -> Pc] /\ calls' \in Serials
    BY <1>2, <1>6, <2>2, Numbers DEF Call, Goto, Pc
  <2>5. request' \in [Callers -> RequestType] /\ made' \in [Serials -> Task \cup {Nil}]
    BY <1>0, <2>1, <2>2, <2>3
  <2>6. QED
    BY <1>0, <1>6, <2>4, <2>5 DEF Call, loopVars, TypeOK, RequestType
<1>7. ASSUME NEW a \in Actors, Read(a) PROVE TypeOK'
  <2>1. CASE file = Nil /\ Resume(a) /\ UNCHANGED copy
    BY <1>0, <1>3, <1>7, <2>1 DEF Read, historyVars, TypeOK, RequestType
  <2>2. CASE file # Nil /\ copy' = [copy EXCEPT ![a] = file]
             /\ Goto(a, "install") /\ UNCHANGED <<request, stamp>>
    <3>1. copy' \in [Actors -> Schedule \cup {Nil}] /\ pc' \in [Actors -> Pc]
      BY <1>0, <2>2 DEF Goto, Pc
    <3>2. QED
      BY <1>0, <1>7, <2>2, <3>1 DEF Read, historyVars, TypeOK, RequestType
  <2>3. QED
    BY <1>7, <2>1, <2>2 DEF Read
<1>8. ASSUME NEW a \in Actors, Install(a) PROVE TypeOK'
  <2>1. tasks' \in Schedule
    BY <1>0, <1>8 DEF Install, SchedInv, LoopInv
  <2>2. copy' \in [Actors -> Schedule \cup {Nil}]
    BY <1>0, <1>8 DEF Install
  <2>3. QED
    BY <1>0, <1>3, <1>8, <2>1, <2>2 DEF Install, historyVars, TypeOK, RequestType
<1>9. ASSUME NEW a \in Callers, Edit(a) PROVE TypeOK'
  <2>1. request[a].id \in Ids /\ request[a] \in RequestType
    BY <1>0, <1>9 DEF Edit, SchedInv, CallInv
  <2>2. pc' \in [Actors -> Pc] /\ request' \in [Callers -> RequestType]
    <3>1. a \in Actors /\ "open" \in Pc /\ "idle" \in Pc
      BY Numbers DEF Pc
    <3>2. CASE Goto(a, "open") /\ UNCHANGED request
      BY <1>0, <1>2, <3>1, <3>2 DEF Goto
    <3>3. CASE Return(a)
      BY <1>0, <1>1, <1>2, <3>1, <3>3 DEF Goto, Return
    <3>4. QED
      BY <1>9, <3>2, <3>3 DEF Edit
  <2>3. tasks' \in Schedule
    <3>1. CASE request[a].kind = "add" /\ tasks' = [tasks EXCEPT ![request[a].id] = request[a].task]
      BY <1>0, <2>1, <3>1 DEF RequestType, Schedule
    <3>2. CASE tasks' = [tasks EXCEPT ![request[a].id] = Nil]
      BY <1>0, <2>1, <3>2 DEF Schedule
    <3>3. CASE /\ tasks[request[a].id] # Nil
               /\ tasks' = [tasks EXCEPT ![request[a].id].enabled = request[a].on]
      <4>1. request[a].on \in BOOLEAN /\ tasks[request[a].id] \in Task
        BY <1>0, <2>1, <3>3 DEF RequestType, Schedule
      <4>2. PICK t : t = [tasks[request[a].id] EXCEPT !.enabled = request[a].on]
        OBVIOUS
      <4>3. t \in Task
        BY <4>1, <4>2 DEF Task
      <4>4. tasks' = [tasks EXCEPT ![request[a].id] = t]
        BY <3>3, <4>2
      <4>5. QED
        BY <1>0, <2>1, <4>3, <4>4 DEF Schedule
    <3>4. QED
      BY <1>0, <1>9, <3>1, <3>2, <3>3 DEF Edit
  <2>4. QED
    BY <1>0, <1>9, <2>2, <2>3 DEF Edit, loopVars, historyVars, TypeOK, RequestType
<1>10. ASSUME NEW a \in Actors, Save(a) PROVE TypeOK'
  <2>1. CASE Open(a)
    BY <1>0, <1>2, <2>1 DEF Open, Goto, Pc, loopVars, historyVars, TypeOK, RequestType
  <2>2. CASE Write(a)
    BY <1>0, <1>4, <2>2 DEF Write, loopVars, historyVars, TypeOK, RequestType
  <2>3. CASE SaveFails(a)
    <3>1. faults' \in 0 .. MaxFaults
      BY <1>0, <2>3, Numbers DEF SaveFails
    <3>2. QED
      BY <1>0, <1>4, <2>3, <3>1 DEF SaveFails, loopVars, TypeOK, RequestType
  <2>4. QED
    BY <1>10, <2>1, <2>2, <2>3 DEF Save
<1>11. CASE Mark
  <2>1. tasks' \in Schedule
    <3>1. \A i \in Ripe : [tasks[i] EXCEPT !.last = stamp] \in Task
      BY <1>0 DEF Ripe, Schedule, Task
    <3>2. QED
      BY <1>0, <1>11, <3>1 DEF Mark, Marked, Schedule
  <2>2. CASE Sleep
    BY <1>0, <1>5, <1>11, <2>1, <2>2 DEF Mark, historyVars, TypeOK, RequestType
  <2>3. CASE /\ due' = {[id |-> i, once |-> tasks[i].once, serial |-> tasks[i].serial] : i \in Ripe}
             /\ Goto(Loop, "drop") /\ UNCHANGED <<stamp, wake>>
    <3>1. \A i \in Ripe : i \in Ids /\ tasks[i].once \in BOOLEAN /\ tasks[i].serial \in Serials
      BY <1>0 DEF Ripe, Schedule, Task
    <3>2. due' \subseteq [id : Ids, once : BOOLEAN, serial : Serials]
      BY <2>3, <3>1
    <3>3. pc' \in [Actors -> Pc]
      BY <1>2, <2>3, Numbers DEF Goto, Pc
    <3>4. QED
      BY <1>0, <1>11, <2>1, <2>3, <3>2, <3>3 DEF Mark, historyVars, TypeOK, RequestType
  <2>4. QED
    BY <1>11, <2>2, <2>3 DEF Mark
<1>12. CASE Drop
  <2>1. tasks' \in Schedule
    BY <1>0, <1>12 DEF Drop, Dropped, Schedule
  <2>2. pc' \in [Actors -> Pc]
    BY <1>2, <1>12, Numbers DEF Drop, Goto, Pc
  <2>3. QED
    BY <1>0, <1>12, <2>1, <2>2 DEF Drop, loopVars, historyVars, TypeOK, RequestType
<1>13. CASE Start
  <2>1. started' \in [Serials -> Seq(Nat)]
    BY <1>0, <1>13 DEF Start
  <2>2. QED
    BY <1>0, <1>5, <1>13, <2>1 DEF Start, TypeOK, RequestType
<1>14. CASE Wake
  BY <1>0, <1>2, <1>14, Numbers DEF Wake, Goto, Pc, loopVars, historyVars, TypeOK, RequestType
<1>15. CASE Tick
  BY <1>0, <1>15 DEF Tick, actorVars, loopVars, historyVars, TypeOK, RequestType
<1>16. CASE Kill
  <2>1. kills' \in 0 .. MaxKills
    BY <1>0, <1>16, Numbers DEF Kill
  <2>2. pc' \in [Actors -> Pc] /\ copy' \in [Actors -> Schedule \cup {Nil}]
        /\ request' \in [Callers -> RequestType]
    BY <1>1, <1>16 DEF Kill, Pc
  <2>3. QED
    BY <1>0, <1>1, <1>16, <2>1, <2>2 DEF Kill, TypeOK, RequestType
<1>17. CASE Restart
  <2>1. Loaded(file) \in Schedule
    BY <1>0, <1>1 DEF Loaded
  <2>2. QED
    BY <1>0, <1>2, <1>17, <2>1, Numbers DEF Restart, Goto, Pc, historyVars, TypeOK, RequestType
<1>18. CASE UNCHANGED vars
  BY <1>0, <1>18 DEF vars, actorVars, loopVars, historyVars, TypeOK, RequestType
<1>19. QED
  BY <1>6, <1>7, <1>8, <1>9, <1>10, <1>11, <1>12, <1>13, <1>14, <1>15, <1>16, <1>17, <1>18, Numbers
  DEF Next, CallStep, LoopStep, Reload

-----------------------------------------------------------------------------
(* The loop.                                                               *)

(* What starting what is due adds to the runs.                             *)
LEMMA StartRuns ==
  ASSUME TypeOK, Start, NEW s \in Serials
  PROVE  /\ Runs(s)' = Seen(s) /\ ~Told(s)'
         /\ ~Told(s) => started'[s] = started[s]
         /\ Told(s) => /\ started'[s] = Append(started[s], stamp)
                       /\ Len(started'[s]) = Len(started[s]) + 1
<1>1. /\ started[s] \in Seq(Nat) /\ stamp \in Nat /\ due' = {}
      /\ started'[s] = IF Told(s) THEN Append(started[s], stamp) ELSE started[s]
  BY DEF TypeOK, Start, Sleep, Told
<1>2. CASE ~Told(s)
  BY <1>1, <1>2 DEF Runs, Seen, Told
<1>3. CASE Told(s)
  <2>1. PICK q : q = started[s] /\ q \in Seq(Nat)
    BY <1>1
  <2>2. PICK t : t = stamp /\ t \in Nat
    BY <1>1
  <2>3. PICK r : r = Append(q, t)
    OBVIOUS
  <2>4. /\ Len(q) \in Nat /\ DOMAIN q = 1..Len(q) /\ DOMAIN r = 1..(Len(q) + 1)
        /\ Len(r) = Len(q) + 1 /\ r[Len(q) + 1] = t /\ \A k \in DOMAIN q : r[k] = q[k]
    BY <2>1, <2>2, <2>3
  <2>5. {r[k] : k \in DOMAIN r} = {q[k] : k \in DOMAIN q} \cup {t}
    <3>1. DOMAIN r = DOMAIN q \cup {Len(q) + 1}
      BY <2>4
    <3>2. QED
      BY <2>4, <3>1
  <2>6. started'[s] = r
    BY <1>1, <1>3, <2>1, <2>2, <2>3
  <2>7. Runs(s)' = Seen(s)
    BY <1>3, <2>1, <2>2, <2>5, <2>6 DEF Runs, Seen
  <2>8. QED
    BY <1>1, <1>3, <2>1, <2>2, <2>3, <2>4, <2>6, <2>7 DEF Told
<1>4. QED
  BY <1>2, <1>3

(* Every step of the loop, and of a call, leaves it where it may be.       *)
LEMMA LoopSteps ==
  ASSUME SchedInv, [Next]_vars
  PROVE  LoopInv'
<1>0. /\ pc \in [Actors -> Pc] /\ copy \in [Actors -> Schedule \cup {Nil}]
      /\ now \in Nat /\ stamp \in Nat /\ LoopInv /\ TypeOK
      /\ \A s \in Serials : Runs(s) \subseteq Nat
  BY DEF SchedInv, TypeOK, Runs
<1>1. ASSUME UNCHANGED started PROVE \A s \in Serials : Runs(s)' = Runs(s)
  BY <1>1 DEF Runs
<1>2. ASSUME NEW a \in Callers, Call(a) PROVE LoopInv'
  BY <1>0, <1>1, <1>2, Numbers DEF Call, Goto, LoopInv, loopVars
<1>3. ASSUME NEW a \in Callers, CallStep(a) PROVE LoopInv'
  <2>1. CASE Read(a)
    BY <1>0, <1>1, <2>1, Numbers DEF Read, Resume, Return, Goto, LoopInv, historyVars
  <2>2. CASE Install(a)
    BY <1>0, <1>1, <2>2, Numbers DEF Install, Resume, Return, Goto, LoopInv, historyVars
  <2>3. CASE Edit(a)
    BY <1>0, <1>1, <2>3, Numbers DEF Edit, Return, Goto, LoopInv, historyVars, loopVars
  <2>4. CASE Open(a)
    BY <1>0, <1>1, <2>4, Numbers DEF Open, Goto, LoopInv, historyVars, loopVars
  <2>5. CASE Write(a)
    BY <1>0, <1>1, <2>5, Numbers DEF Write, Saved, Return, Goto, LoopInv, historyVars, loopVars
  <2>6. CASE SaveFails(a)
    BY <1>0, <1>1, <2>6, Numbers DEF SaveFails, Saved, Return, Goto, LoopInv, loopVars
  <2>7. QED
    BY <1>3, <2>1, <2>2, <2>3, <2>4, <2>5, <2>6 DEF CallStep, Reload, Save
<1>4. CASE Read(Loop)
  BY <1>0, <1>1, <1>4, Numbers DEF Read, Resume, Goto, LoopInv, historyVars
<1>5. CASE Install(Loop)
  BY <1>0, <1>1, <1>5, Numbers DEF Install, Resume, Goto, LoopInv, historyVars
<1>6. CASE Mark
  BY <1>0, <1>1, <1>6, Numbers DEF Mark, Sleep, Goto, LoopInv, historyVars
<1>7. CASE Drop
  BY <1>0, <1>1, <1>7, Numbers DEF Drop, Goto, LoopInv, historyVars, loopVars
<1>8. CASE Open(Loop)
  BY <1>0, <1>1, <1>8, Numbers DEF Open, Goto, LoopInv, historyVars, loopVars
<1>9. CASE Write(Loop)
  BY <1>0, <1>1, <1>9, Numbers DEF Write, Saved, Goto, LoopInv, historyVars, loopVars
<1>10. CASE SaveFails(Loop)
  BY <1>0, <1>1, <1>10, Numbers DEF SaveFails, Saved, Goto, LoopInv, loopVars
<1>11. CASE Start
  <2>1. \A s \in Serials : \A t \in Runs(s)' : t <= now
    BY <1>0, <1>11, StartRuns DEF LoopInv, Seen
  <2>2. QED
    BY <1>0, <1>11, <2>1, Numbers DEF Start, Sleep, Goto, LoopInv
<1>12. CASE Wake
  BY <1>0, <1>1, <1>12, Numbers DEF Wake, Goto, LoopInv, historyVars, loopVars
<1>13. CASE Tick
  BY <1>0, <1>1, <1>13, Numbers DEF Tick, LoopInv, actorVars, historyVars, loopVars
<1>14. CASE Kill
  BY <1>0, <1>1, <1>14, Numbers DEF Kill, LoopInv
<1>15. CASE Restart
  BY <1>0, <1>1, <1>15, Numbers DEF Restart, Goto, LoopInv, historyVars
<1>16. CASE UNCHANGED vars
  BY <1>0, <1>1, <1>16 DEF vars, actorVars, loopVars, historyVars, LoopInv
<1>17. QED
  BY <1>2, <1>3, <1>4, <1>5, <1>6, <1>7, <1>8, <1>9, <1>10, <1>11, <1>12, <1>13, <1>14, <1>15, <1>16
  DEF Next, LoopStep, Reload, Save

-----------------------------------------------------------------------------
(* The versions.                                                           *)

(* A version with one entry replaced.                                      *)
LEMMA KnownEntry ==
  ASSUME NEW of, NEW v \in Schedule, Known(v, of), NEW i \in Ids, NEW t,
         t # Nil => t.id = i /\ Same(t, of[t.serial])
  PROVE  Known([v EXCEPT ![i] = t], of)
<1>1. PICK w : w = [v EXCEPT ![i] = t]
  OBVIOUS
<1>2. w[i] = t /\ \A j \in Ids : j # i => w[j] = v[j]
  BY <1>1 DEF Schedule
<1>3. Known(w, of)
  BY <1>2, Numbers DEF Known
<1>4. QED
  BY <1>1, <1>3

(* No version of the schedule, in memory, in the file or in the hands of   *)
(* whoever read it, holds a task other than as it was made.                *)
LEMMA VersionStep ==
  ASSUME SchedInv, [Next]_vars
  PROVE  VersionInv'
<1>0. /\ tasks \in Schedule /\ file \in Schedule \cup {Nil} /\ TypeOK /\ VersionInv
      /\ copy \in [Actors -> Schedule \cup {Nil}] /\ made \in [Serials -> Task \cup {Nil}]
      /\ now \in Nat /\ stamp \in Nat /\ calls \in Serials
      /\ pc \in [Actors -> Pc] /\ request \in [Callers -> RequestType]
      /\ due \subseteq [id : Ids, once : BOOLEAN, serial : Serials]
      /\ started \in [Serials -> Seq(Nat)]
  BY DEF SchedInv, TypeOK, RequestType
<1>1. ASSUME UNCHANGED <<made, started, calls>>,
             Known(tasks', made), Known(file', made), \A a \in Actors : Known(copy'[a], made),
             \A d \in due' :
               /\ made[d.serial] # Nil /\ d.id = made[d.serial].id /\ d.once = made[d.serial].once
               /\ Fires(made[d.serial].cron, stamp')
      PROVE  VersionInv'
  <2>1. \A s \in Serials : Runs(s)' = Runs(s)
    BY <1>1 DEF Runs
  <2>2. QED
    BY <1>0, <1>1, <2>1 DEF VersionInv
<1>2. Known(Nil, made) /\ Known(Empty, made)
  BY DEF Known, Empty
<1>3. ASSUME NEW a \in Actors,
             \/ UNCHANGED stamp
             \/ a = Loop /\ pc[a] \in {"read", "install", "mark"} /\ UNCHANGED due
             \/ due' = {},
             due' \subseteq due
      PROVE  \A d \in due' :
               /\ made[d.serial] # Nil /\ d.id = made[d.serial].id /\ d.once = made[d.serial].once
               /\ Fires(made[d.serial].cron, stamp')
  BY <1>0, <1>3 DEF VersionInv, SchedInv, LoopInv
<1>4. ASSUME NEW a \in Actors, pc[a] \in {"read", "install"}, Resume(a), UNCHANGED due
      PROVE  \A d \in due' :
               /\ made[d.serial] # Nil /\ d.id = made[d.serial].id /\ d.once = made[d.serial].once
               /\ Fires(made[d.serial].cron, stamp')
  <2>1. a = Loop \/ UNCHANGED stamp
    BY <1>4 DEF Resume
  <2>2. QED
    BY <1>3, <1>4, <2>1
<1>5. ASSUME NEW a \in Callers, Call(a) PROVE VersionInv'
  <2>0. PICK i \in Ids : \E r \in Request(i) :
          /\ request' = [request EXCEPT ![a] = r]
          /\ made' = [made EXCEPT ![calls + 1] = r.task]
    BY <1>5 DEF Call
  <2>1. PICK r \in Request(i) : made' = [made EXCEPT ![calls + 1] = r.task]
    BY <2>0
  <2>2. PICK n : n = calls + 1 /\ n \in Serials /\ n \in Nat
    BY <1>0, <1>5, <2>1, RequestTypes, Numbers DEF Call
  <2>3. PICK t : t = r.task /\ (t # Nil => t.serial = n /\ (t.once => \E at \in Nat : t.cron = {at}))
    <3>1. calls < MaxCalls /\ calls + 1 = n
      BY <1>5, <2>2 DEF Call
    <3>2. (r.kind = "add" => r.task \in NewTasks(i, now, n)) /\ (r.kind # "add" => r.task = Nil)
      BY <1>0, <3>1, RequestTypes
    <3>3. \A x \in NewTasks(i, now, n) :
            x.serial = n /\ (x.once => \E at \in Nat : x.cron = {at})
      BY <1>0, <2>2, NewTaskTypes
    <3>4. QED
      BY <3>2, <3>3
  <2>4. made[n] = Nil
    BY <1>0, <2>2, Numbers DEF VersionInv
  <2>5. made' = [made EXCEPT ![n] = t] /\ made'[n] = t
        /\ \A s \in Serials : s # n => made'[s] = made[s]
    BY <1>0, <2>1, <2>2, <2>3
  <2>6. UNCHANGED <<tasks, file, copy, due, stamp, started>> /\ calls' = n
    BY <1>5, <2>2 DEF Call, loopVars
  <2>7. Known(tasks, made') /\ Known(file, made') /\ \A b \in Actors : Known(copy[b], made')
    <3>1. \A v : Known(v, made) => Known(v, made')
      BY <2>4, <2>5 DEF Known, Same
    <3>2. QED
      BY <1>0, <3>1 DEF VersionInv
  <2>8. ASSUME NEW s \in Serials
        PROVE  /\ made'[s] # Nil => /\ made'[s].serial = s /\ s <= n
                                    /\ made'[s].once => \E at \in Nat : made'[s].cron = {at}
               /\ made'[s] = Nil => started[s] = <<>>
               /\ \A x \in Runs(s) : Fires(made'[s].cron, x)
    <3>1. CASE s = n
      <4>1. started[s] = <<>>
        BY <1>0, <2>4, <3>1 DEF VersionInv
      <4>2. Runs(s) = {}
        BY <4>1 DEF Runs
      <4>3. QED
        <5>1. made'[s] = t /\ n <= n
          BY <2>2, <2>5, <3>1
        <5>2. QED
          BY <2>3, <3>1, <4>1, <4>2, <5>1
    <3>2. CASE s # n
      <4>1. made'[s] = made[s]
        BY <2>5, <3>2
      <4>2. /\ made[s] # Nil => /\ made[s].serial = s /\ s <= calls
                                /\ made[s].once => \E at \in Nat : made[s].cron = {at}
            /\ made[s] = Nil => started[s] = <<>>
            /\ \A x \in Runs(s) : Fires(made[s].cron, x)
        BY <1>0 DEF VersionInv
      <4>3. s <= calls => s <= n
        <5>1. s \in Nat /\ calls \in Nat /\ n = calls + 1
          BY <1>0, <2>2, Numbers DEF TypeOK
        <5>2. QED
          BY <5>1
      <4>4. QED
        BY <4>1, <4>2, <4>3
    <3>3. QED
      BY <3>1, <3>2
  <2>9. \A d \in due : made[d.serial] # Nil /\ d.serial # n /\ d.serial \in Serials
    BY <1>0, <2>4 DEF VersionInv
  <2>10. \A s \in Serials : Runs(s)' = Runs(s)
    BY <2>6 DEF Runs
  <2>11. QED
    <3>1. Known(tasks', made') /\ Known(file', made') /\ \A b \in Actors : Known(copy'[b], made')
      BY <2>6, <2>7
    <3>2. \A s \in Serials :
            /\ made'[s] # Nil => /\ made'[s].serial = s /\ s <= calls'
                                 /\ made'[s].once => \E at \in Nat : made'[s].cron = {at}
            /\ made'[s] = Nil => started'[s] = <<>>
            /\ \A x \in Runs(s)' : Fires(made'[s].cron, x)
      BY <2>6, <2>8, <2>10
    <3>3. \A d \in due' :
            /\ made'[d.serial] # Nil /\ d.id = made'[d.serial].id /\ d.once = made'[d.serial].once
            /\ Fires(made'[d.serial].cron, stamp')
      BY <1>0, <2>5, <2>6, <2>9 DEF VersionInv
    <3>4. QED
      BY <3>1, <3>2, <3>3 DEF VersionInv
<1>6. ASSUME NEW a \in Actors, Read(a) PROVE VersionInv'
  <2>1. \A b \in Actors : Known(copy'[b], made)
    BY <1>0, <1>6 DEF Read, VersionInv
  <2>2. (UNCHANGED stamp \/ Resume(a)) /\ UNCHANGED <<tasks, file, due, made, started, calls>>
    BY <1>6 DEF Read, historyVars
  <2>3. QED
    BY <1>0, <1>1, <1>3, <1>4, <1>6, <2>1, <2>2 DEF VersionInv, Read
<1>7. ASSUME NEW a \in Actors, Install(a) PROVE VersionInv'
  <2>1. /\ Known(tasks', made) /\ \A b \in Actors : Known(copy'[b], made)
    BY <1>0, <1>2, <1>7 DEF Install, VersionInv
  <2>2. UNCHANGED <<file, due, made, started, calls>>
    BY <1>7 DEF Install, historyVars
  <2>3. QED
    BY <1>0, <1>1, <1>4, <1>7, <2>1, <2>2 DEF VersionInv, Install
<1>8. ASSUME NEW a \in Callers, Edit(a) PROVE VersionInv'
  <2>1. UNCHANGED <<file, copy, due, stamp, made, started, calls>>
    BY <1>8 DEF Edit, loopVars, historyVars
  <2>2. request[a].id \in Ids /\ Known(tasks, made)
    BY <1>0, <1>8 DEF Edit, SchedInv, CallInv, VersionInv
  <2>3. Known(tasks', made)
    <3>1. CASE request[a].kind = "add" /\ tasks' = [tasks EXCEPT ![request[a].id] = request[a].task]
      <4>1. PICK t : t = request[a].task /\ t \in Task /\ t.id = request[a].id /\ made[t.serial] = t
        BY <1>8, <3>1 DEF Edit, SchedInv, CallInv, Adding
      <4>2. t # Nil /\ Same(t, made[t.serial])
        BY <4>1, Numbers DEF Same
      <4>3. QED
        BY <1>0, <2>2, <3>1, <4>1, <4>2, KnownEntry
    <3>2. CASE tasks' = [tasks EXCEPT ![request[a].id] = Nil]
      BY <1>0, <2>2, <3>2, KnownEntry
    <3>3. CASE /\ tasks[request[a].id] # Nil
               /\ tasks' = [tasks EXCEPT ![request[a].id].enabled = request[a].on]
      <4>1. PICK t : t = [tasks[request[a].id] EXCEPT !.enabled = request[a].on]
        OBVIOUS
      <4>2. tasks[request[a].id] \in Task
        BY <1>0, <2>2, <3>3 DEF Schedule
      <4>3. /\ t.id = tasks[request[a].id].id /\ t.cron = tasks[request[a].id].cron
            /\ t.once = tasks[request[a].id].once /\ t.serial = tasks[request[a].id].serial
        BY <4>1, <4>2 DEF Task
      <4>4. tasks' = [tasks EXCEPT ![request[a].id] = t]
        BY <3>3, <4>1
      <4>5. QED
        <5>1. t.id = request[a].id /\ Same(t, made[t.serial])
          <6>1. tasks # Nil
            BY <1>0, Numbers
          <6>2. PICK u : u = tasks[request[a].id]
            OBVIOUS
          <6>3. u.id = request[a].id /\ Same(u, made[u.serial])
            BY <2>2, <3>3, <6>1, <6>2 DEF Known
          <6>4. t.id = u.id /\ t.cron = u.cron /\ t.once = u.once /\ t.serial = u.serial
            BY <4>3, <6>2
          <6>5. QED
            BY <6>3, <6>4 DEF Same
        <5>2. QED
          BY <1>0, <2>2, <4>4, <5>1, KnownEntry
    <3>4. CASE UNCHANGED tasks
      BY <2>2, <3>4
    <3>5. QED
      BY <1>8, <3>1, <3>2, <3>3, <3>4 DEF Edit
  <2>4. QED
    BY <1>0, <1>1, <2>1, <2>3 DEF VersionInv
<1>9. ASSUME NEW a \in Actors, Save(a) PROVE VersionInv'
  <2>1. /\ UNCHANGED <<tasks, copy, due, stamp, made, started, calls>>
        /\ file' \in {Nil, tasks, file}
    BY <1>9 DEF Save, Open, Write, SaveFails, loopVars, historyVars
  <2>2. QED
    BY <1>0, <1>1, <1>2, <2>1 DEF VersionInv
<1>10. CASE Mark
  <2>1. UNCHANGED <<file, copy, made, started, calls>> /\ tasks' = Marked
    BY <1>10 DEF Mark, historyVars
  <2>2. \A i \in Ripe : /\ i \in Ids /\ tasks[i] \in Task /\ IsDue(tasks[i]) /\ tasks[i].id = i
                        /\ Same(tasks[i], made[tasks[i].serial])
    BY <1>0, Numbers DEF Ripe, VersionInv, Known, Schedule
  <2>3. Known(Marked, made)
    <3>1. ASSUME NEW i \in Ids, Marked[i] # Nil
          PROVE  Marked[i].id = i /\ Same(Marked[i], made[Marked[i].serial])
      <4>1. CASE i \in Ripe
        <5>1. PICK t : t = [tasks[i] EXCEPT !.last = stamp]
          OBVIOUS
        <5>2. /\ t.id = tasks[i].id /\ t.cron = tasks[i].cron /\ t.once = tasks[i].once
              /\ t.serial = tasks[i].serial
          BY <2>2, <4>1, <5>1 DEF Task
        <5>3. Marked[i] = t
          BY <4>1, <5>1 DEF Marked
        <5>4. QED
          BY <2>2, <4>1, <5>2, <5>3 DEF Same
      <4>2. CASE i \notin Ripe
        BY <1>0, <3>1, <4>2, Numbers DEF Marked, VersionInv, Known
      <4>3. QED
        BY <4>1, <4>2
    <3>2. QED
      BY <3>1 DEF Known
  <2>4. ASSUME NEW d \in due'
        PROVE  /\ made[d.serial] # Nil /\ d.id = made[d.serial].id
               /\ d.once = made[d.serial].once /\ Fires(made[d.serial].cron, stamp')
    <3>1. /\ due' = {[id |-> i, once |-> tasks[i].once, serial |-> tasks[i].serial] : i \in Ripe}
          /\ stamp' = stamp
      BY <1>10, <2>4 DEF Mark, Sleep
    <3>2. PICK i \in Ripe : d = [id |-> i, once |-> tasks[i].once, serial |-> tasks[i].serial]
      BY <3>1
    <3>3. d.id = i /\ d.once = tasks[i].once /\ d.serial = tasks[i].serial
      BY <3>2
    <3>4. Fires(tasks[i].cron, stamp)
      BY <2>2 DEF IsDue, Fires
    <3>5. QED
      BY <2>2, <3>1, <3>3, <3>4 DEF Same
  <2>5. QED
    BY <1>0, <1>1, <2>1, <2>3, <2>4 DEF VersionInv
<1>11. CASE Drop
  <2>1. UNCHANGED <<file, copy, due, stamp, made, started, calls>> /\ tasks' = Dropped
    BY <1>11 DEF Drop, loopVars, historyVars
  <2>2. Known(Dropped, made)
    BY <1>0, Numbers DEF VersionInv, Known, Dropped
  <2>3. QED
    BY <1>0, <1>1, <2>1, <2>2 DEF VersionInv
<1>12. CASE Start
  <2>1. UNCHANGED <<tasks, file, copy, made, calls>> /\ due' = {}
    BY <1>12 DEF Start, Sleep
  <2>2. ASSUME NEW s \in Serials
        PROVE  /\ made[s] = Nil => started'[s] = <<>>
               /\ \A x \in Runs(s)' : Fires(made[s].cron, x)
    <3>1. Told(s) => made[s] # Nil /\ Fires(made[s].cron, stamp)
      BY <1>0 DEF Told, VersionInv
    <3>2. QED
      <4>1. Runs(s)' = Seen(s) /\ (~Told(s) => started'[s] = started[s])
        BY <1>0, <1>12, StartRuns
      <4>2. CASE Told(s)
        BY <1>0, <3>1, <4>1, <4>2 DEF VersionInv, Seen
      <4>3. CASE ~Told(s)
        BY <1>0, <4>1, <4>3 DEF VersionInv, Seen
      <4>4. QED
        BY <4>2, <4>3
  <2>3. QED
    BY <1>0, <2>1, <2>2 DEF VersionInv
<1>13. CASE Wake \/ Tick \/ UNCHANGED vars
  <2>1. UNCHANGED <<tasks, file, copy, due, stamp, made, started, calls>>
    BY <1>13 DEF Wake, Tick, vars, actorVars, loopVars, historyVars
  <2>2. QED
    BY <1>0, <1>1, <2>1 DEF VersionInv
<1>14. CASE Kill
  BY <1>0, <1>1, <1>2, <1>14 DEF Kill, VersionInv
<1>15. CASE Restart
  <2>1. Known(Loaded(file), made)
    BY <1>0, <1>2 DEF Loaded, VersionInv
  <2>2. QED
    BY <1>0, <1>1, <1>15, <2>1 DEF Restart, historyVars, VersionInv
<1>16. QED
  BY <1>5, <1>6, <1>7, <1>8, <1>9, <1>10, <1>11, <1>12, <1>13, <1>14, <1>15, Numbers
  DEF Next, CallStep, LoopStep, Reload

-----------------------------------------------------------------------------
(* The calls.                                                              *)

(* A task that is being added is in no version yet, whoever reloads or     *)
(* saves in between.                                                       *)
LEMMA CallSteps ==
  ASSUME SchedInv, [Next]_vars
  PROVE  CallInv'
<1>0. /\ tasks \in Schedule /\ file \in Schedule \cup {Nil} /\ TypeOK /\ VersionInv /\ CallInv
      /\ copy \in [Actors -> Schedule \cup {Nil}] /\ made \in [Serials -> Task \cup {Nil}]
      /\ now \in Nat /\ stamp \in Nat /\ calls \in Serials
      /\ pc \in [Actors -> Pc] /\ request \in [Callers -> RequestType]
      /\ due \subseteq [id : Ids, once : BOOLEAN, serial : Serials]
      /\ started \in [Serials -> Seq(Nat)]
  BY DEF SchedInv, TypeOK, RequestType
<1>1. ASSUME \A b \in Callers : pc'[b] # "idle" => pc[b] # "idle" /\ request'[b] = request[b],
             \A b \in Callers : pc'[b] \in {"read", "install", "edit"} /\ request[b].kind = "add"
                                  => Adding(b) /\ Unused(request[b].task.serial)',
             UNCHANGED made
      PROVE  CallInv'
  <2>1. \A b \in Callers : Adding(b)' => Adding(b) /\ Unused(request[b].task.serial)'
                                         /\ request'[b] = request[b]
    BY <1>1 DEF Adding
  <2>2. QED
    BY <1>0, <1>1, <2>1 DEF CallInv
<1>2. ASSUME NEW s \in Serials, Unused(s), Lacks(tasks', s), Lacks(file', s),
             \A b \in Actors : Lacks(copy'[b], s), started'[s] = started[s], ~Told(s)'
      PROVE  Unused(s)'
  BY <1>2 DEF Unused
<1>3. ASSUME NEW b \in Callers, Adding(b)
      PROVE  Unused(request[b].task.serial) /\ request[b].task.serial \in Serials
  BY <1>0, <1>3 DEF CallInv, Task
<1>4. \A s : Lacks(Nil, s) /\ Lacks(Empty, s)
  BY DEF Lacks, Empty
<1>5. ASSUME NEW a \in Callers, Call(a) PROVE CallInv'
  <2>0. PICK i \in Ids : \E r \in Request(i) :
          /\ request' = [request EXCEPT ![a] = r]
          /\ made' = [made EXCEPT ![calls + 1] = r.task]
    BY <1>5 DEF Call
  <2>1. PICK r \in Request(i) : /\ request' = [request EXCEPT ![a] = r]
                                /\ made' = [made EXCEPT ![calls + 1] = r.task]
    BY <2>0
  <2>2. PICK n : n = calls + 1 /\ n \in Serials /\ n \in Nat /\ made[n] = Nil
    BY <1>0, <1>5, <2>1, RequestTypes, Numbers DEF Call, VersionInv
  <2>3. /\ UNCHANGED <<tasks, file, copy, due, started>> /\ pc[a] = "idle"
        /\ pc' = [pc EXCEPT ![a] = "read"] /\ made' = [made EXCEPT ![n] = r.task]
    BY <1>5, <2>1, <2>2 DEF Call, loopVars, Goto
  <2>4. r.id = i /\ (r.kind = "add" => /\ r.task \in Task /\ r.task.id = i /\ r.task.serial = n)
    BY <1>0, <1>5, <2>2, RequestTypes, NewTaskTypes DEF Call
  <2>5. Unused(n)'
    <3>1. Unused(n)
      <4>1. started[n] = <<>> /\ ~Told(n)
        BY <1>0, <2>2 DEF VersionInv, Told
      <4>2. \A v : Known(v, made) => Lacks(v, n)
        BY <2>2 DEF Known, Lacks, Same
      <4>3. QED
        BY <1>0, <4>1, <4>2 DEF VersionInv, Unused
    <3>2. QED
      BY <2>3, <3>1 DEF Unused, Told
  <2>6. ASSUME NEW b \in Callers, b # a
        PROVE  /\ request'[b] = request[b] /\ pc'[b] = pc[b]
               /\ Adding(b)' = Adding(b)
               /\ Adding(b) => /\ Unused(request[b].task.serial)'
                               /\ request[b].task.serial # n
                               /\ made'[request[b].task.serial] = request[b].task
    <3>1. request'[b] = request[b] /\ pc'[b] = pc[b]
      BY <1>0, <2>1, <2>3, <2>6, Numbers
    <3>2. Adding(b) => made[request[b].task.serial] = request[b].task /\ request[b].task # Nil
                       /\ request[b].task.serial \in Serials
      BY <1>0, Numbers DEF CallInv, Task
    <3>3. Adding(b) => request[b].task.serial # n
      BY <2>2, <3>2
    <3>4. ASSUME Adding(b) PROVE Unused(request[b].task.serial)'
      <4>1. PICK s \in Serials : s = request[b].task.serial /\ Unused(s)
        BY <1>3, <3>4
      <4>2. Unused(s)' /\ s = request'[b].task.serial
        BY <2>3, <3>1, <4>1 DEF Unused, Told
      <4>3. QED
        BY <4>2
    <3>5. QED
      BY <1>0, <2>3, <3>1, <3>2, <3>3, <3>4 DEF Adding
  <2>7. request'[a] = r /\ pc'[a] = "read" /\ made'[n] = r.task
    BY <1>0, <2>1, <2>2, <2>3, Numbers
  <2>8. \A b \in Callers : pc'[b] # "idle" => request'[b].id \in Ids
    BY <1>0, <2>4, <2>6, <2>7 DEF CallInv
  <2>9. ASSUME NEW b \in Callers, Adding(b)'
        PROVE  /\ request'[b].task \in Task /\ request'[b].task.id = request'[b].id
               /\ made'[request'[b].task.serial] = request'[b].task
               /\ Unused(request[b].task.serial)'
               /\ \A c \in Callers : Adding(c)' /\ c # b =>
                    request'[c].task.serial # request'[b].task.serial
    <3>1. CASE b = a
      <4>1. r.kind = "add"
        BY <2>7, <2>9, <3>1 DEF Adding
      <4>2. \A c \in Callers : Adding(c)' /\ c # b => request'[c].task.serial # n
        BY <2>6, <3>1
      <4>3. request'[b].task.serial = n
        BY <2>4, <2>7, <3>1, <4>1
      <4>4. Unused(request[b].task.serial)'
        BY <2>5, <4>3
      <4>5. QED
        BY <2>4, <2>7, <3>1, <4>1, <4>2, <4>3, <4>4
    <3>2. CASE b # a
      <4>1. Adding(b) /\ request'[b] = request[b]
        BY <2>6, <2>9, <3>2
      <4>2. ASSUME NEW c \in Callers, Adding(c)', c # b
            PROVE  request'[c].task.serial # request[b].task.serial
        <5>1. CASE c = a
          <6>1. request'[c].task.serial = n
            BY <2>4, <2>7, <4>2, <5>1 DEF Adding
          <6>2. QED
            BY <2>6, <3>2, <4>1, <6>1
        <5>2. CASE c # a
          BY <1>0, <2>6, <4>1, <4>2, <5>2 DEF CallInv
        <5>3. QED
          BY <5>1, <5>2
      <4>3. /\ request[b].task \in Task /\ request[b].task.id = request[b].id
        BY <1>0, <4>1 DEF CallInv
      <4>4. QED
        BY <2>6, <3>2, <4>1, <4>2, <4>3
    <3>3. QED
      BY <3>1, <3>2
  <2>10. QED
    BY <2>8, <2>9 DEF CallInv
<1>6. ASSUME NEW a \in Actors, Read(a) PROVE CallInv'
  <2>1. /\ UNCHANGED <<tasks, file, due, started, made>> /\ pc[a] = "read"
        /\ \A b \in Actors : copy'[b] \in {copy[b], file}
        /\ \A b \in Callers : pc'[b] # "idle" => pc[b] # "idle" /\ request'[b] = request[b]
        /\ \A b \in Callers : pc'[b] \in {"read", "install", "edit"} =>
                                pc[b] \in {"read", "install", "edit"}
    BY <1>0, <1>6, Numbers DEF Read, Resume, Return, Goto, historyVars
  <2>2. \A s \in Serials : Unused(s) => Unused(s)'
    BY <1>2, <2>1 DEF Unused, Told
  <2>3. QED
    BY <1>1, <1>3, <2>1, <2>2 DEF Adding
<1>7. ASSUME NEW a \in Actors, Install(a) PROVE CallInv'
  <2>1. /\ UNCHANGED <<file, due, started, made>> /\ pc[a] = "install" /\ tasks' = copy[a]
        /\ \A b \in Actors : copy'[b] \in {copy[b], Nil}
        /\ \A b \in Callers : pc'[b] # "idle" => pc[b] # "idle" /\ request'[b] = request[b]
        /\ \A b \in Callers : pc'[b] \in {"read", "install", "edit"} =>
                                pc[b] \in {"read", "install", "edit"}
    BY <1>0, <1>7, Numbers DEF Install, Resume, Return, Goto, historyVars
  <2>2. \A s \in Serials : Unused(s) => Unused(s)'
    BY <1>2, <1>4, <2>1 DEF Unused, Told
  <2>3. QED
    BY <1>1, <1>3, <2>1, <2>2 DEF Adding
<1>8. ASSUME NEW a \in Callers, Edit(a) PROVE CallInv'
  <2>1. /\ UNCHANGED <<file, copy, due, started, made>> /\ pc[a] = "edit"
        /\ pc'[a] \in {"open", "idle"}
        /\ \A b \in Callers : pc'[b] # "idle" => pc[b] # "idle" /\ request'[b] = request[b]
        /\ \A b \in Callers : b # a => pc'[b] = pc[b]
    BY <1>0, <1>8, Numbers DEF Edit, Return, Goto, loopVars, historyVars
  <2>2. request[a].id \in Ids
    BY <1>0, <2>1 DEF CallInv
  <2>3. ASSUME NEW s \in Serials, Unused(s), request[a].kind = "add" => request[a].task.serial # s
        PROVE  Unused(s)'
    <3>1. Lacks(tasks, s) /\ tasks # Nil
      BY <1>0, <2>3, Numbers DEF Unused
    <3>2. ASSUME NEW t, t # Nil => t.serial # s, tasks' = [tasks EXCEPT ![request[a].id] = t]
          PROVE  Lacks(tasks', s)
      BY <1>0, <2>2, <3>1, <3>2 DEF Lacks, Schedule
    <3>3. Lacks(tasks', s)
      <4>1. CASE /\ tasks[request[a].id] # Nil
                 /\ tasks' = [tasks EXCEPT ![request[a].id].enabled = request[a].on]
        <5>1. PICK t : t = [tasks[request[a].id] EXCEPT !.enabled = request[a].on]
          OBVIOUS
        <5>2. t.serial = tasks[request[a].id].serial
          BY <1>0, <2>2, <4>1, <5>1 DEF Schedule, Task
        <5>3. t.serial # s
          BY <2>2, <3>1, <4>1, <5>2 DEF Lacks
        <5>4. QED
          BY <3>2, <4>1, <5>1, <5>3
      <4>2. CASE UNCHANGED tasks
        BY <3>1, <4>2
      <4>3. QED
        BY <1>8, <2>3, <3>2, <4>1, <4>2 DEF Edit
    <3>4. QED
      BY <1>2, <2>1, <2>3, <3>3 DEF Unused, Told
  <2>4. ASSUME NEW b \in Callers, pc'[b] \in {"read", "install", "edit"}, request[b].kind = "add"
        PROVE  Adding(b) /\ Unused(request[b].task.serial)'
    <3>1. b # a /\ pc'[b] = pc[b]
      BY <2>1, <2>4
    <3>2. Adding(b)
      BY <2>4, <3>1 DEF Adding
    <3>3. request[a].kind = "add" => Adding(a)
      BY <2>1 DEF Adding
    <3>4. request[a].kind = "add" => request[a].task.serial # request[b].task.serial
      BY <1>0, <3>1, <3>2, <3>3 DEF CallInv
    <3>5. PICK s \in Serials : s = request[b].task.serial /\ Unused(s)
      BY <1>3, <3>2
    <3>6. Unused(s)' /\ s = request'[b].task.serial
      BY <2>1, <2>3, <2>4, <3>4, <3>5
    <3>7. QED
      BY <3>2, <3>6
  <2>5. QED
    BY <1>1, <2>1, <2>4
<1>9. ASSUME NEW a \in Actors, Save(a) PROVE CallInv'
  <2>1. /\ UNCHANGED <<tasks, copy, due, started, made>> /\ file' \in {Nil, tasks, file}
        /\ \A b \in Callers : pc'[b] # "idle" => pc[b] # "idle" /\ request'[b] = request[b]
        /\ \A b \in Callers : pc'[b] \in {"read", "install", "edit"} =>
                                pc[b] \in {"read", "install", "edit"}
    BY <1>0, <1>9, Numbers
    DEF Save, Open, Write, SaveFails, Saved, Return, Goto, loopVars, historyVars
  <2>2. \A s \in Serials : Unused(s) => Unused(s)'
    BY <1>2, <1>4, <2>1 DEF Unused, Told
  <2>3. QED
    BY <1>1, <1>3, <2>1, <2>2 DEF Adding
<1>10. ASSUME \A s \in Serials : Unused(s) => Unused(s)', UNCHANGED <<request, made>>,
              \A b \in Callers : pc'[b] = pc[b]
       PROVE  CallInv'
  BY <1>1, <1>3, <1>10 DEF Adding
<1>11. CASE Mark
  <2>1. /\ UNCHANGED <<file, copy, started, made, request>> /\ tasks' = Marked
        /\ \A b \in Callers : pc'[b] = pc[b]
    BY <1>0, <1>11, Numbers DEF Mark, Sleep, Goto, historyVars
  <2>2. ASSUME NEW s \in Serials, Unused(s)
        PROVE  Unused(s)'
    <3>1. \A i \in Ids : tasks[i] # Nil => tasks[i].serial # s
      BY <1>0, <2>2, Numbers DEF Unused, Lacks
    <3>2. ~Told(s)'
      BY <1>11, <2>2, <3>1 DEF Mark, Sleep, Ripe, Told
    <3>3. Lacks(Marked, s)
      <4>1. ASSUME NEW i \in Ids, Marked[i] # Nil PROVE Marked[i].serial # s
        <5>1. CASE i \in Ripe
          BY <1>0, <3>1, <5>1 DEF Marked, Ripe, Schedule, Task
        <5>2. CASE i \notin Ripe
          BY <3>1, <4>1, <5>2 DEF Marked
        <5>3. QED
          BY <5>1, <5>2
      <4>2. QED
        BY <4>1 DEF Lacks
    <3>4. QED
      BY <1>2, <2>1, <2>2, <3>2, <3>3 DEF Unused
  <2>3. QED
    BY <1>10, <2>1, <2>2
<1>12. CASE Drop
  <2>1. /\ UNCHANGED <<file, copy, due, started, made, request>> /\ tasks' = Dropped
        /\ \A b \in Callers : pc'[b] = pc[b]
    BY <1>0, <1>12, Numbers DEF Drop, Goto, loopVars, historyVars
  <2>2. \A s : Lacks(tasks, s) => Lacks(Dropped, s)
    BY <1>0, Numbers DEF Lacks, Dropped
  <2>3. \A s \in Serials : Unused(s) => Unused(s)'
    BY <1>2, <2>1, <2>2 DEF Unused, Told
  <2>4. QED
    BY <1>10, <2>1, <2>3
<1>13. CASE Start
  <2>1. /\ UNCHANGED <<tasks, file, copy, made, request>> /\ due' = {}
        /\ \A b \in Callers : pc'[b] = pc[b]
    BY <1>0, <1>13, Numbers DEF Start, Sleep, Goto
  <2>2. \A s \in Serials : Unused(s) => Unused(s)'
    <3>1. \A s \in Serials : Unused(s) => started'[s] = started[s] /\ ~Told(s)'
      BY <1>0, <1>13, StartRuns DEF Unused
    <3>2. QED
      BY <1>2, <2>1, <3>1 DEF Unused
  <2>3. QED
    BY <1>10, <2>1, <2>2
<1>14. CASE Wake \/ Tick \/ UNCHANGED vars
  <2>1. /\ UNCHANGED <<tasks, file, copy, due, started, made, request>>
        /\ \A b \in Callers : pc'[b] = pc[b]
    BY <1>0, <1>14, Numbers DEF Wake, Tick, Goto, vars, actorVars, loopVars, historyVars
  <2>2. \A s \in Serials : Unused(s) => Unused(s)'
    BY <1>2, <2>1 DEF Unused, Told
  <2>3. QED
    BY <1>10, <2>1, <2>2
<1>15. CASE Kill
  <2>1. UNCHANGED made /\ \A b \in Callers : pc'[b] = "idle"
    BY <1>15, Numbers DEF Kill
  <2>2. QED
    BY <1>1, <2>1
<1>16. CASE Restart
  <2>1. /\ UNCHANGED <<file, copy, due, started, made, request>> /\ tasks' = Loaded(file)
        /\ \A b \in Callers : pc'[b] = pc[b]
    BY <1>0, <1>16, Numbers DEF Restart, Goto, historyVars
  <2>2. \A s \in Serials : Unused(s) => Unused(s)'
    BY <1>2, <1>4, <2>1 DEF Unused, Told, Loaded
  <2>3. QED
    BY <1>10, <2>1, <2>2
<1>17. QED
  BY <1>5, <1>6, <1>7, <1>8, <1>9, <1>11, <1>12, <1>13, <1>14, <1>15, <1>16, Numbers
  DEF Next, CallStep, LoopStep, Reload

-----------------------------------------------------------------------------
(* The counts.  A run is one too many if another was started in the same   *)
(* slot: in the same minute, or at all if the task is a reminder.  What is *)
(* due may be such a run (Again), and a version that does not know of a    *)
(* run may lead to one (Lost); while the loop saves, the file need not     *)
(* know yet.  A call that has not installed what it read may bring such a  *)
(* version back (Armed).                                                   *)

Slot(s, t) == IF made[s].once THEN 0 ELSE t \div Minute
Slots(s) == {Slot(s, t) : t \in Runs(s)}

Stale(v, s, runs) ==
  /\ v # Nil
  /\ \E i \in Ids : /\ v[i] # Nil /\ v[i].serial = s
                    /\ \E t \in runs : v[i].once \/ v[i].last \div Minute < t \div Minute

Saving == pc[Loop] \in {"drop", "open", "write"}
Dropping(s) == pc[Loop] = "drop" /\ made[s].once /\ Told(s)
Again(s) == Told(s) /\ Slot(s, stamp) \in Slots(s)
Lost(s) ==
  IF Saving
    THEN \/ Stale(tasks, s, Seen(s)) /\ ~Dropping(s)
         \/ Stale(file, s, Runs(s)) /\ ~Again(s)
    ELSE \/ Stale(tasks, s, Seen(s)) \/ Stale(file, s, Seen(s))
         \/ Stale(copy[Loop], s, Seen(s))
Owed(s) == (IF Again(s) THEN 1 ELSE 0) + (IF Lost(s) THEN 1 ELSE 0)
Armed == {a \in Callers : pc[a] \in {"read", "install"}}

CountInv ==
  /\ IsFiniteSet(Armed)
  /\ \A s \in Serials :
       /\ IsFiniteSet(Slots(s))
       /\ Len(started[s]) + Owed(s) + Cardinality(Armed)
            <= Cardinality(Slots(s)) + faults + calls

(* Minutes do not run backwards.                                           *)
LEMMA Minutes ==
  /\ \A t \in Nat : t \div Minute \in Nat
  /\ \A t, u \in Nat : t <= u => t \div Minute <= u \div Minute
<1>1. \A t \in Nat : t \div Minute \in Nat
  BY Numbers
<1>2. ASSUME NEW t \in Nat, NEW u \in Nat, t <= u PROVE t \div Minute <= u \div Minute
  <2>1. PICK m \in Nat : m = Minute /\ m > 0
    BY Numbers
  <2>2. \A x, y, z \in Nat : x <= y => x * z <= y * z
    OBVIOUS
  <2>3. PICK p \in Nat, q \in Nat : p = t \div m /\ q = u \div m
    BY <2>1
  <2>4. m * p <= t /\ u < m * q + m
    BY <2>1, <2>3
  <2>5. CASE p > q
    <3>1. q + 1 <= p
      BY <2>5
    <3>2. m * (q + 1) <= m * p
      BY <2>1, <2>2, <2>3, <3>1
    <3>3. m * (q + 1) = m * q + m
      BY <2>1, <2>3
    <3>4. QED
      BY <1>2, <2>1, <2>3, <2>4, <3>2, <3>3
  <2>6. QED
    BY <2>1, <2>3, <2>5
<1>3. QED
  BY <1>1, <1>2

(* What is owed is a small number.                                         *)
LEMMA OwedNumbers ==
  ASSUME NEW s
  PROVE  /\ Owed(s) \in Nat /\ Owed(s)' \in Nat
         /\ (Again(s)' => Again(s)) /\ (Lost(s)' => Lost(s)) => Owed(s)' <= Owed(s)
         /\ (Again(s)' => Again(s)) => Owed(s)' <= Owed(s) + 1
         /\ ~Again(s)' /\ ~Lost(s)' => Owed(s)' <= Owed(s)
         /\ (~Again(s)' \/ ~Lost(s)') /\ (Again(s) \/ Lost(s)) => Owed(s)' <= Owed(s)
BY DEF Owed

(* A step that starts nothing, and owes no more than it may.               *)
LEMMA CountKept ==
  ASSUME TypeOK, TypeOK', CountInv, UNCHANGED <<started, made>>, IsFiniteSet(Armed)',
         \A s \in Serials : Owed(s)' + Cardinality(Armed)' + faults + calls
                              <= Owed(s) + Cardinality(Armed) + faults' + calls'
  PROVE  CountInv'
<1>1. \A s \in Serials : Slots(s)' = Slots(s)
  BY DEF Slots, Slot, Runs
<1>2. Cardinality(Armed) \in Nat /\ Cardinality(Armed)' \in Nat
  BY FS_CardinalityType DEF CountInv
<1>3. /\ calls \in Nat /\ faults \in Nat /\ calls' \in Nat /\ faults' \in Nat
      /\ \A s \in Serials : Len(started[s]) \in Nat
  BY Numbers DEF TypeOK
<1>4. ASSUME NEW s \in Serials
      PROVE  /\ IsFiniteSet(Slots(s))'
             /\ (Len(started[s]) + Owed(s) + Cardinality(Armed))'
                  <= (Cardinality(Slots(s)) + faults + calls)'
  <2>1. IsFiniteSet(Slots(s)) /\ Cardinality(Slots(s)) \in Nat
        /\ Len(started[s]) + Owed(s) + Cardinality(Armed) <= Cardinality(Slots(s)) + faults + calls
        /\ Owed(s)' + Cardinality(Armed)' + faults + calls
             <= Owed(s) + Cardinality(Armed) + faults' + calls'
    BY FS_CardinalityType DEF CountInv
  <2>2. Owed(s) \in Nat /\ Owed(s)' \in Nat
    BY OwedNumbers
  <2>3. (Len(started[s]))' = Len(started[s]) /\ (Cardinality(Slots(s)))' = Cardinality(Slots(s))
    BY <1>1
  <2>4. Len(started[s]) + Owed(s)' + Cardinality(Armed)' <= Cardinality(Slots(s)) + faults' + calls'
    <3>1. PICK l \in Nat, n \in Nat : l = Len(started[s]) /\ n = Cardinality(Slots(s))
      BY <1>3, <2>1
    <3>2. PICK o \in Nat, p \in Nat : o = Owed(s) /\ p = Owed(s)'
      BY <2>2
    <3>3. PICK a \in Nat, b \in Nat : a = Cardinality(Armed) /\ b = Cardinality(Armed)'
      BY <1>2
    <3>4. PICK f \in Nat, g \in Nat, c \in Nat, d \in Nat :
            f = faults /\ g = faults' /\ c = calls /\ d = calls'
      BY <1>3
    <3>5. l + o + a <= n + f + c /\ p + b + f + c <= o + a + g + d
      BY <2>1, <3>1, <3>2, <3>3, <3>4
    <3>6. l + p + b <= n + g + d
      BY <3>5
    <3>7. QED
      BY <3>1, <3>2, <3>3, <3>4, <3>6
  <2>5. QED
    BY <1>1, <2>1, <2>3, <2>4
<1>5. QED
  BY <1>4 DEF CountInv

-----------------------------------------------------------------------------
(* How the steps change what is owed.                                      *)

(* Which calls are armed after a step.                                     *)
LEMMA ArmedSteps ==
  ASSUME IsFiniteSet(Armed), NEW a \in Callers
  PROVE  /\ Cardinality(Armed) \in Nat
         /\ (Armed' = Armed \/ Armed' = Armed \ {a}) =>
              IsFiniteSet(Armed)' /\ Cardinality(Armed)' \in Nat
              /\ Cardinality(Armed)' <= Cardinality(Armed)
         /\ Armed' = Armed \ {a} /\ a \in Armed => Cardinality(Armed)' + 1 <= Cardinality(Armed)
         /\ Armed' = Armed \cup {a} =>
              IsFiniteSet(Armed)' /\ Cardinality(Armed)' \in Nat
              /\ Cardinality(Armed)' <= Cardinality(Armed) + 1
<1>1. Cardinality(Armed) \in Nat
  BY FS_CardinalityType
<1>2. /\ IsFiniteSet(Armed \ {a}) /\ IsFiniteSet(Armed \cup {a})
      /\ Cardinality(Armed \ {a}) = IF a \in Armed THEN Cardinality(Armed) - 1 ELSE Cardinality(Armed)
      /\ Cardinality(Armed \cup {a}) = IF a \in Armed THEN Cardinality(Armed) ELSE Cardinality(Armed) + 1
  BY FS_RemoveElement, FS_AddElement
<1>3. Cardinality(Armed \ {a}) \in Nat /\ Cardinality(Armed \cup {a}) \in Nat
  BY <1>2, FS_CardinalityType
<1>4. ASSUME Armed' = Armed
      PROVE  /\ IsFiniteSet(Armed)' /\ Cardinality(Armed)' \in Nat
             /\ Cardinality(Armed)' <= Cardinality(Armed)
  BY <1>1, <1>4
<1>5. ASSUME Armed' = Armed \ {a}
      PROVE  /\ IsFiniteSet(Armed)' /\ Cardinality(Armed)' \in Nat
             /\ Cardinality(Armed)' <= Cardinality(Armed)
             /\ a \in Armed => Cardinality(Armed)' + 1 <= Cardinality(Armed)
  BY <1>1, <1>2, <1>3, <1>5
<1>6. ASSUME Armed' = Armed \cup {a}
      PROVE  /\ IsFiniteSet(Armed)' /\ Cardinality(Armed)' \in Nat
             /\ Cardinality(Armed)' <= Cardinality(Armed) + 1
  BY <1>1, <1>2, <1>3, <1>6
<1>7. QED
  BY <1>1, <1>4, <1>5, <1>6

(* A step that changes neither the runs nor what is due changes what is    *)
(* owed only by the versions.                                              *)
LEMMA SameRuns ==
  ASSUME UNCHANGED <<started, made, due>>, UNCHANGED stamp \/ due = {}, NEW s
  PROVE  /\ Runs(s)' = Runs(s) /\ Told(s)' = Told(s) /\ Seen(s)' = Seen(s)
         /\ Again(s)' = Again(s) /\ (due = {} => ~Told(s) /\ ~Again(s) /\ Seen(s) = Runs(s))
<1>1. Runs(s)' = Runs(s) /\ Told(s)' = Told(s) /\ (due = {} => ~Told(s))
  BY DEF Runs, Told
<1>2. Slots(s)' = Slots(s) /\ (UNCHANGED stamp => Slot(s, stamp)' = Slot(s, stamp))
  BY <1>1 DEF Slots, Slot
<1>3. Seen(s)' = Seen(s) /\ (due = {} => Seen(s) = Runs(s))
  BY <1>1 DEF Seen
<1>4. Again(s)' = Again(s)
  BY <1>1, <1>2 DEF Again
<1>5. QED
  BY <1>1, <1>3, <1>4 DEF Again

(* A call: only the version it installs may bring an old state back.       *)
LEMMA CallerOwed ==
  ASSUME SchedInv, NEW a \in Callers, CallStep(a), NEW s \in Serials
  PROVE  /\ Again(s)' => Again(s)
         /\ ~Install(a) => (Lost(s)' => Lost(s))
<1>0. /\ pc \in [Actors -> Pc] /\ request \in [Callers -> RequestType] /\ tasks \in Schedule
      /\ copy \in [Actors -> Schedule \cup {Nil}] /\ a # Loop /\ a \in Actors
  BY Numbers DEF SchedInv, TypeOK, RequestType
<1>1. UNCHANGED <<started, made, due, stamp>>
  BY <1>0 DEF CallStep, Reload, Save, Read, Install, Edit, Open, Write, SaveFails, Resume,
              loopVars, historyVars
<1>2. /\ Runs(s)' = Runs(s) /\ Told(s)' = Told(s) /\ Seen(s)' = Seen(s) /\ Again(s)' = Again(s)
  BY <1>1, SameRuns
<1>3. pc'[Loop] = pc[Loop] /\ (~Install(a) => copy'[Loop] = copy[Loop])
  BY <1>0, Numbers DEF CallStep, Reload, Save, Read, Install, Edit, Open, Write, SaveFails, Resume,
              Saved, Return, Goto, loopVars, historyVars
<1>4. Saving' = Saving /\ Dropping(s)' = Dropping(s)
  BY <1>1, <1>2, <1>3 DEF Saving, Dropping
<1>5. ASSUME copy'[Loop] = copy[Loop],
             Stale(tasks', s, Seen(s)) => Stale(tasks, s, Seen(s)),
             Stale(file', s, Runs(s)) => Stale(file, s, Runs(s)),
             Stale(file', s, Seen(s)) => Stale(file, s, Seen(s))
      PROVE  Lost(s)' => Lost(s)
  BY <1>2, <1>4, <1>5 DEF Lost
<1>6. CASE Read(a)
  BY <1>2, <1>3, <1>5, <1>6 DEF Read
<1>7. CASE Edit(a)
  <2>1. UNCHANGED <<file, copy>> /\ request[a].id \in Ids /\ request[a].kind \in Kinds
    BY <1>0, <1>7 DEF Edit, SchedInv, CallInv, RequestType
  <2>2. ASSUME NEW t, tasks' = [tasks EXCEPT ![request[a].id] = t],
               t # Nil => \/ t.serial # s \/ Seen(s) = {}
                          \/ /\ tasks[request[a].id] # Nil
                             /\ t.serial = tasks[request[a].id].serial
                             /\ t.once = tasks[request[a].id].once
                             /\ t.last = tasks[request[a].id].last
        PROVE  Stale(tasks', s, Seen(s)) => Stale(tasks, s, Seen(s))
    <3>1. tasks'[request[a].id] = t
          /\ \A i \in Ids : i # request[a].id => tasks'[i] = tasks[i]
      BY <1>0, <2>1, <2>2 DEF Schedule
    <3>2. tasks # Nil
      BY <1>0, Numbers
    <3>3. QED
      BY <2>1, <2>2, <3>1, <3>2 DEF Stale
  <2>3. CASE request[a].kind = "add"
    <3>1. request[a].task.serial = s => Seen(s) = {}
      BY <1>7, <2>3 DEF Edit, SchedInv, CallInv, Adding, Unused, Seen, Runs
    <3>2. tasks' = [tasks EXCEPT ![request[a].id] = request[a].task]
      BY <1>7, <2>3 DEF Edit
    <3>3. QED
      BY <1>2, <1>3, <1>5, <2>1, <2>2, <3>1, <3>2
  <2>4. CASE tasks' = [tasks EXCEPT ![request[a].id] = Nil]
    BY <1>2, <1>3, <1>5, <2>1, <2>2, <2>4
  <2>5. CASE /\ tasks[request[a].id] # Nil
             /\ tasks' = [tasks EXCEPT ![request[a].id].enabled = request[a].on]
    <3>1. PICK t : t = [tasks[request[a].id] EXCEPT !.enabled = request[a].on]
      OBVIOUS
    <3>2. tasks[request[a].id] \in Task
      BY <1>0, <2>1, <2>5 DEF Schedule
    <3>3. /\ t.serial = tasks[request[a].id].serial /\ t.once = tasks[request[a].id].once
          /\ t.last = tasks[request[a].id].last
      BY <3>1, <3>2 DEF Task
    <3>4. tasks' = [tasks EXCEPT ![request[a].id] = t]
      BY <2>5, <3>1
    <3>5. QED
      BY <1>2, <1>3, <1>5, <2>1, <2>2, <2>5, <3>3, <3>4
  <2>6. CASE UNCHANGED tasks
    BY <1>2, <1>3, <1>5, <2>1, <2>6
  <2>7. QED
    BY <1>7, <2>3, <2>4, <2>5, <2>6 DEF Edit
<1>8. CASE Open(a)
  <2>1. ~Stale(Nil, s, Runs(s)) /\ ~Stale(Nil, s, Seen(s))
    BY DEF Stale
  <2>2. QED
    BY <1>2, <1>3, <1>5, <1>8, <2>1 DEF Open
<1>9. CASE Write(a)
  <2>1. UNCHANGED <<tasks, copy>> /\ file' = tasks
    BY <1>9 DEF Write
  <2>2. Stale(tasks, s, Runs(s)) => Stale(tasks, s, Seen(s))
    BY DEF Stale, Seen
  <2>3. CASE ~Saving
    BY <1>2, <1>4, <2>1, <2>3 DEF Lost
  <2>4. CASE Saving
    <3>1. Stale(tasks, s, Runs(s)) /\ Dropping(s) => Again(s)
      BY DEF Stale, Dropping, Again, Slots, Slot
    <3>2. QED
      BY <1>2, <1>4, <2>1, <2>2, <2>4, <3>1 DEF Lost
  <2>5. QED
    BY <2>3, <2>4
<1>10. CASE SaveFails(a)
  BY <1>2, <1>3, <1>5, <1>10 DEF SaveFails
<1>11. QED
  BY <1>2, <1>6, <1>7, <1>8, <1>9, <1>10 DEF CallStep, Reload, Save

(* The loop, but for its mark and its start.                               *)
LEMMA LoopOwed ==
  ASSUME SchedInv, NEW s \in Serials,
         \/ Wake \/ Tick \/ Reload(Loop) \/ Drop \/ Open(Loop) \/ Write(Loop) \/ Restart
  PROVE  (Again(s)' => Again(s)) /\ (Lost(s)' => Lost(s))
<1>0. /\ pc \in [Actors -> Pc] /\ tasks \in Schedule /\ copy \in [Actors -> Schedule \cup {Nil}]
      /\ \A a \in Actors : copy[a] # Nil <=> pc[a] = "install"
      /\ pc[Loop] \in {"idle", "read", "install", "mark"} => due = {}
      /\ up \/ pc[Loop] = "idle"
  BY Numbers DEF SchedInv, TypeOK, LoopInv
<1>1. UNCHANGED <<started, made, due>> /\ (UNCHANGED stamp \/ due = {})
  BY <1>0 DEF Wake, Tick, Reload, Read, Install, Resume, Drop, Open, Write, Saved, Restart,
              loopVars, historyVars
<1>2. /\ Runs(s)' = Runs(s) /\ Told(s)' = Told(s) /\ Seen(s)' = Seen(s) /\ Again(s)' = Again(s)
      /\ due = {} => ~Told(s) /\ ~Again(s) /\ Seen(s) = Runs(s)
  BY <1>1, SameRuns
<1>3. ~Stale(Nil, s, Runs(s)) /\ ~Stale(Nil, s, Seen(s)) /\ ~Stale(Empty, s, Seen(s))
  BY DEF Stale, Empty
<1>4. CASE Wake
  BY <1>0, <1>2, <1>4, Numbers DEF Wake, Goto, loopVars, historyVars, Lost, Saving
<1>5. CASE Tick
  BY <1>2, <1>5 DEF Tick, actorVars, loopVars, historyVars, Lost, Saving, Dropping
<1>6. CASE Read(Loop)
  <2>1. CASE Resume(Loop) /\ UNCHANGED copy
    BY <1>0, <1>2, <1>6, <2>1, Numbers DEF Read, Resume, Goto, historyVars, Lost, Saving
  <2>2. CASE copy' = [copy EXCEPT ![Loop] = file] /\ Goto(Loop, "install")
    BY <1>0, <1>2, <1>6, <2>2, Numbers DEF Read, Goto, historyVars, Lost, Saving
  <2>3. QED
    BY <1>6, <2>1, <2>2 DEF Read
<1>7. CASE Install(Loop)
  BY <1>0, <1>2, <1>3, <1>7, Numbers DEF Install, Resume, Goto, historyVars, Lost, Saving
<1>8. CASE Drop
  <2>1. /\ pc[Loop] = "drop" /\ pc'[Loop] = "open" /\ tasks' = Dropped /\ file' = file
    BY <1>0, <1>8, Numbers DEF Drop, Goto
  <2>2. Stale(Dropped, s, Seen(s)) => Stale(tasks, s, Seen(s)) /\ ~Dropping(s)
    <3>1. ASSUME Stale(Dropped, s, Seen(s)) PROVE Stale(tasks, s, Seen(s)) /\ ~Dropping(s)
      <4>1. PICK i \in Ids : /\ Dropped[i] # Nil /\ Dropped[i].serial = s
                             /\ \E t \in Seen(s) : \/ Dropped[i].once
                                                   \/ Dropped[i].last \div Minute < t \div Minute
        BY <3>1 DEF Stale
      <4>2. Dropped[i] = tasks[i] /\ ~\E d \in due : d.id = i /\ d.once
        BY <4>1 DEF Dropped
      <4>3. tasks # Nil
        BY <1>0, Numbers
      <4>4. tasks[i].id = i /\ Same(tasks[i], made[s])
        BY <4>1, <4>2, <4>3 DEF SchedInv, VersionInv, Known
      <4>5. \A d \in due : d.serial = s => d.id = made[s].id /\ d.once = made[s].once
        BY DEF SchedInv, VersionInv
      <4>6. ~(made[s].once /\ Told(s))
        BY <4>2, <4>4, <4>5 DEF Told, Same
      <4>7. Stale(tasks, s, Seen(s))
        BY <4>1, <4>2, <4>3 DEF Stale
      <4>8. QED
        BY <4>6, <4>7 DEF Dropping
    <3>2. QED
      BY <3>1
  <2>3. QED
    BY <1>2, <2>1, <2>2 DEF Lost, Saving
<1>9. CASE Open(Loop)
  BY <1>0, <1>2, <1>3, <1>9, Numbers DEF Open, Goto, loopVars, historyVars, Lost, Saving, Dropping
<1>10. CASE Write(Loop)
  <2>1. /\ pc[Loop] = "write" /\ pc'[Loop] = "start" /\ file' = tasks /\ tasks' = tasks
        /\ copy'[Loop] = Nil
    BY <1>0, <1>10, Numbers DEF Write, Saved, Goto
  <2>2. QED
    BY <1>2, <1>3, <2>1 DEF Lost, Saving, Dropping
<1>11. CASE Restart
  <2>1. /\ pc[Loop] = "idle" /\ pc'[Loop] = "read" /\ tasks' = Loaded(file) /\ file' = file
        /\ copy' = copy
    BY <1>0, <1>11, Numbers DEF Restart, Goto
  <2>2. Stale(Loaded(file), s, Seen(s)) => Stale(file, s, Seen(s))
    BY <1>3 DEF Loaded
  <2>3. QED
    BY <1>2, <2>1, <2>2 DEF Lost, Saving
<1>12. QED
  BY <1>4, <1>5, <1>6, <1>7, <1>8, <1>9, <1>10, <1>11 DEF Reload

(* A save of the loop that fails leaves a file that may not know of what   *)
(* it starts.                                                              *)
LEMMA FailOwed ==
  ASSUME SchedInv, NEW s \in Serials, SaveFails(Loop)
  PROVE  Again(s)' = Again(s)
<1>1. UNCHANGED <<started, made, due, stamp>>
  BY DEF SaveFails, loopVars
<1>2. QED
  BY <1>1, SameRuns

(* The mark: what is due was not known to have run in its slot.            *)
LEMMA MarkOwed ==
  ASSUME SchedInv, NEW s \in Serials, Mark
  PROVE  Owed(s)' <= Owed(s)
<1>0. /\ pc \in [Actors -> Pc] /\ tasks \in Schedule /\ stamp \in Nat /\ Runs(s) \subseteq Nat
      /\ tasks # Nil /\ pc[Loop] = "mark" /\ due = {} /\ \A t \in Runs(s) : t <= stamp
      /\ UNCHANGED <<started, made, file, copy>> /\ tasks' = Marked
  BY Numbers DEF SchedInv, TypeOK, LoopInv, Mark, Runs, historyVars
<1>1. ~Told(s) /\ Seen(s) = Runs(s) /\ Runs(s)' = Runs(s) /\ Slots(s)' = Slots(s) /\ ~Again(s)
  BY <1>0 DEF Told, Seen, Runs, Slots, Slot, Again
<1>2. Lost(s) = (\/ Stale(tasks, s, Runs(s)) \/ Stale(file, s, Runs(s))
                 \/ Stale(copy[Loop], s, Runs(s)))
  BY <1>0, <1>1 DEF Lost, Saving
<1>3. CASE Ripe = {} /\ Sleep
  <2>1. Marked = tasks
    BY <1>0, <1>3 DEF Marked, Schedule
  <2>2. pc'[Loop] = "idle" /\ due' = {}
    BY <1>0, <1>3, Numbers DEF Sleep, Goto
  <2>3. ~Told(s)' /\ ~Again(s)'
    BY <2>2 DEF Told, Again
  <2>4. Seen(s)' = Runs(s)
    BY <1>1, <2>3 DEF Seen
  <2>5. Lost(s)' = Lost(s)
    BY <1>0, <1>2, <2>1, <2>2, <2>4 DEF Lost, Saving
  <2>6. QED
    BY <2>3, <2>5, OwedNumbers
<1>4. CASE /\ due' = {[id |-> i, once |-> tasks[i].once, serial |-> tasks[i].serial] : i \in Ripe}
           /\ Goto(Loop, "drop") /\ UNCHANGED stamp
  <2>1. pc'[Loop] = "drop"
    BY <1>0, <1>4, Numbers DEF Goto
  <2>2. Told(s)' <=> \E i \in Ripe : tasks[i].serial = s
    <3>1. \A i : [id |-> i, once |-> tasks[i].once, serial |-> tasks[i].serial].serial = tasks[i].serial
      OBVIOUS
    <3>2. Told(s)' <=> \E d \in due' : d.serial = s
      BY DEF Told
    <3>3. QED
      BY <1>4, <3>1, <3>2
  <2>3. Lost(s)' = (\/ Stale(Marked, s, Seen(s)') /\ ~(made[s].once /\ Told(s)')
                    \/ Stale(file, s, Runs(s)) /\ ~Again(s)')
    BY <1>0, <1>1, <2>1 DEF Lost, Saving, Dropping
  <2>4. CASE ~Told(s)'
    <3>1. ~Again(s)'
      BY <2>4 DEF Again
    <3>2. Seen(s)' = Runs(s)
      BY <1>1, <2>4 DEF Seen
    <3>3. Stale(Marked, s, Runs(s)) => Stale(tasks, s, Runs(s))
      <4>1. ASSUME NEW i \in Ids, Marked[i] # Nil, Marked[i].serial = s PROVE Marked[i] = tasks[i]
        <5>1. CASE i \in Ripe
          <6>1. Marked[i].serial = tasks[i].serial
            BY <1>0, <5>1 DEF Marked, Ripe, Schedule, Task
          <6>2. QED
            BY <2>2, <2>4, <4>1, <5>1, <6>1
        <5>2. CASE i \notin Ripe
          BY <5>2 DEF Marked
        <5>3. QED
          BY <5>1, <5>2
      <4>2. QED
        BY <1>0, <4>1 DEF Stale
    <3>4. Lost(s)' => Lost(s)
      BY <1>2, <2>3, <3>2, <3>3
    <3>5. QED
      BY <3>1, <3>4, OwedNumbers
  <2>5. CASE Told(s)'
    <3>1. PICK i \in Ripe : tasks[i].serial = s
      BY <2>2, <2>5
    <3>2. /\ i \in Ids /\ tasks[i] \in Task /\ tasks[i] # Nil /\ IsDue(tasks[i])
          /\ tasks[i].id = i /\ Same(tasks[i], made[s])
      BY <1>0, <3>1 DEF Ripe, Schedule, SchedInv, VersionInv, Known
    <3>3. Seen(s)' = Runs(s) \cup {stamp}
      BY <1>1, <1>4, <2>5 DEF Seen
    <3>4. ~(Stale(Marked, s, Seen(s)') /\ ~made[s].once)
      <4>1. ASSUME ~made[s].once, NEW j \in Ids, Marked[j] # Nil, Marked[j].serial = s,
                   NEW t \in Runs(s) \cup {stamp}
            PROVE  ~Marked[j].once /\ ~(Marked[j].last \div Minute < t \div Minute)
        <5>1. tasks[j] # Nil /\ tasks[j].serial = s
          BY <1>0, <4>1 DEF Marked, Ripe, Schedule, Task
        <5>2. tasks[j].id = j /\ Same(tasks[j], made[s])
          BY <1>0, <5>1 DEF SchedInv, VersionInv, Known
        <5>3. j = i
          BY <3>2, <5>2 DEF Same
        <5>4. Marked[j].last = stamp /\ Marked[j].once = made[s].once
          BY <3>1, <3>2, <5>3 DEF Marked, Task, Same
        <5>5. t \in Nat /\ t <= stamp
          BY <1>0
        <5>6. t \div Minute <= stamp \div Minute /\ t \div Minute \in Nat /\ stamp \div Minute \in Nat
          BY <1>0, <5>5, Minutes
        <5>7. QED
          BY <4>1, <5>4, <5>6
      <4>2. QED
        BY <3>3, <4>1 DEF Stale
    <3>5. Lost(s)' = (Stale(file, s, Runs(s)) /\ ~Again(s)')
      BY <2>3, <2>5, <3>4
    <3>6. Again(s)' => Stale(tasks, s, Runs(s))
      <4>1. ASSUME Again(s)' PROVE Stale(tasks, s, Runs(s))
        <5>1. Slot(s, stamp)' = Slot(s, stamp)
          BY <1>0, <1>4 DEF Slot
        <5>2. PICK t \in Runs(s) : Slot(s, t) = Slot(s, stamp)
          BY <1>1, <4>1, <5>1 DEF Again, Slots
        <5>3. tasks[i].once = made[s].once
          BY <3>2 DEF Same
        <5>4. ~made[s].once => tasks[i].last \div Minute < t \div Minute
          <6>1. stamp \div Minute > tasks[i].last \div Minute
            BY <3>2 DEF IsDue
          <6>2. ~made[s].once => t \div Minute = stamp \div Minute
            BY <5>2 DEF Slot
          <6>3. stamp \div Minute \in Nat /\ tasks[i].last \div Minute \in Nat
            BY <1>0, <3>2, Minutes DEF Task
          <6>4. QED
            BY <6>1, <6>2, <6>3
        <5>5. QED
          BY <1>0, <3>1, <3>2, <5>2, <5>3, <5>4 DEF Stale
      <4>2. QED
        BY <4>1
    <3>7. CASE Again(s)'
      BY <1>2, <3>5, <3>6, <3>7, OwedNumbers
    <3>8. CASE ~Again(s)'
      BY <1>2, <3>5, <3>8, OwedNumbers
    <3>9. QED
      BY <3>7, <3>8
  <2>6. QED
    BY <2>4, <2>5
<1>5. QED
  BY <1>3, <1>4 DEF Mark

(* The start: a run is counted when it is started.                         *)
LEMMA StartCounts ==
  ASSUME SchedInv, CountInv, Start
  PROVE  CountInv'
<1>0. /\ pc \in [Actors -> Pc] /\ copy[Loop] = Nil /\ pc[Loop] = "start" /\ pc'[Loop] = "idle"
      /\ UNCHANGED <<tasks, file, copy, made, calls, faults>> /\ TypeOK
      /\ \A a \in Callers : pc'[a] = pc[a]
  BY Numbers DEF SchedInv, TypeOK, LoopInv, Start, Sleep, Goto
<1>1. Armed' = Armed
  BY <1>0 DEF Armed
<1>2. ASSUME NEW s \in Serials
      PROVE  /\ IsFiniteSet(Slots(s))'
             /\ (Len(started[s]) + Owed(s) + Cardinality(Armed))'
                  <= (Cardinality(Slots(s)) + faults + calls)'
  <2>1. /\ Runs(s)' = Seen(s) /\ ~Told(s)' /\ ~Again(s)'
        /\ ~Told(s) => started'[s] = started[s]
        /\ Told(s) => Len(started'[s]) = Len(started[s]) + 1
    BY <1>0, StartRuns DEF Again
  <2>2. Seen(s)' = Seen(s)
    BY <2>1 DEF Seen
  <2>3. Lost(s)' = Lost(s)
    BY <1>0, <2>2 DEF Lost, Saving
  <2>4. /\ IsFiniteSet(Slots(s)) /\ Cardinality(Slots(s)) \in Nat /\ Cardinality(Armed) \in Nat
        /\ Len(started[s]) + Owed(s) + Cardinality(Armed) <= Cardinality(Slots(s)) + faults + calls
        /\ Len(started[s]) \in Nat /\ calls \in Nat /\ faults \in Nat
    BY <1>0, Numbers, FS_CardinalityType DEF CountInv, TypeOK
  <2>5. Slots(s)' = {Slot(s, t) : t \in Seen(s)}
    BY <1>0, <2>1 DEF Slots, Slot
  <2>6. PICK l \in Nat, n \in Nat, a \in Nat, c \in Nat, f \in Nat :
          /\ l = Len(started[s]) /\ n = Cardinality(Slots(s)) /\ a = Cardinality(Armed)
          /\ c = calls /\ f = faults
    BY <2>4
  <2>7. CASE ~Told(s)
    <3>1. Slots(s)' = Slots(s)
      BY <2>5, <2>7 DEF Slots, Seen
    <3>2. Owed(s)' <= Owed(s) /\ Owed(s) \in Nat /\ Owed(s)' \in Nat
      BY <2>1, <2>3, OwedNumbers
    <3>3. PICK o \in Nat, p \in Nat : o = Owed(s) /\ p = Owed(s)' /\ p <= o
      BY <3>2
    <3>4. l + o + a <= n + f + c
      BY <2>4, <2>6, <3>3
    <3>5. l + p + a <= n + f + c
      BY <3>3, <3>4
    <3>6. QED
      BY <1>0, <1>1, <2>1, <2>4, <2>6, <2>7, <3>1, <3>3, <3>5
  <2>8. CASE Told(s)
    <3>1. Slots(s)' = Slots(s) \cup {Slot(s, stamp)}
      BY <2>5, <2>8 DEF Slots, Seen
    <3>2. /\ IsFiniteSet(Slots(s)')
          /\ Cardinality(Slots(s)') = IF Slot(s, stamp) \in Slots(s) THEN n ELSE n + 1
      BY <2>4, <2>6, <3>1, FS_AddElement
    <3>3. CASE Again(s)
      <4>1. Cardinality(Slots(s)') = n
        BY <3>2, <3>3 DEF Again
      <4>2. PICK o \in Nat, p \in Nat : o = Owed(s) /\ p = Owed(s)' /\ p + 1 <= o
        BY <2>1, <2>3, <3>3 DEF Owed
      <4>3. l + o + a <= n + f + c
        BY <2>4, <2>6, <4>2
      <4>4. l + 1 + p + a <= n + f + c
        BY <4>2, <4>3
      <4>5. QED
        BY <1>0, <1>1, <2>1, <2>6, <2>8, <3>2, <4>1, <4>2, <4>4
    <3>4. CASE ~Again(s)
      <4>1. Cardinality(Slots(s)') = n + 1
        BY <2>8, <3>2, <3>4 DEF Again
      <4>2. PICK o \in Nat, p \in Nat : o = Owed(s) /\ p = Owed(s)' /\ p <= o
        BY <2>1, <2>3, OwedNumbers
      <4>3. l + o + a <= n + f + c
        BY <2>4, <2>6, <4>2
      <4>4. l + 1 + p + a <= n + 1 + f + c
        BY <4>2, <4>3
      <4>5. QED
        BY <1>0, <1>1, <2>1, <2>6, <2>8, <3>2, <4>1, <4>2, <4>4
    <3>5. QED
      BY <3>3, <3>4
  <2>9. QED
    BY <2>7, <2>8
<1>3. QED
  BY <1>1, <1>2 DEF CountInv

(* Every step keeps the counts.                                            *)
LEMMA CountStep ==
  ASSUME SchedInv, CountInv, TypeOK', [Next]_vars
  PROVE  CountInv'
<1>0. /\ pc \in [Actors -> Pc] /\ TypeOK /\ IsFiniteSet(Armed) /\ calls \in Nat /\ faults \in Nat
      /\ \A s : Owed(s) \in Nat /\ Owed(s)' \in Nat /\ Cardinality(Armed) \in Nat
  <2>1. TypeOK /\ IsFiniteSet(Armed)
    BY DEF SchedInv, CountInv
  <2>2. pc \in [Actors -> Pc] /\ calls \in Nat /\ faults \in Nat
    BY <2>1, Numbers DEF TypeOK
  <2>3. QED
    BY <2>1, <2>2, OwedNumbers, FS_CardinalityType
<1>1. ASSUME UNCHANGED <<started, made, calls, faults>>, \A s \in Serials : Owed(s)' <= Owed(s),
             Armed' = Armed
      PROVE  CountInv'
  BY <1>0, <1>1, CountKept
<1>2. ASSUME NEW a \in Callers, Call(a) PROVE CountInv'
  <2>0. PICK i \in Ids : \E r \in Request(i) :
          /\ request' = [request EXCEPT ![a] = r]
          /\ made' = [made EXCEPT ![calls + 1] = r.task]
    BY <1>2 DEF Call
  <2>1. PICK r \in Request(i) : made' = [made EXCEPT ![calls + 1] = r.task]
    BY <2>0
  <2>2. PICK n : n = calls + 1 /\ n \in Serials /\ made[n] = Nil
    BY <1>0, <1>2, RequestTypes, Numbers DEF Call, SchedInv, VersionInv
  <2>3. /\ UNCHANGED <<tasks, file, copy, due, stamp, started, faults>> /\ calls' = n
        /\ made' = [made EXCEPT ![n] = r.task] /\ pc' = [pc EXCEPT ![a] = "read"]
        /\ pc[a] = "idle"
    BY <1>2, <2>1, <2>2 DEF Call, loopVars, Goto
  <2>4. Armed' = Armed \cup {a}
    BY <1>0, <2>3, Numbers DEF Armed
  <2>5. /\ IsFiniteSet(Armed)' /\ Cardinality(Armed)' \in Nat
        /\ Cardinality(Armed)' <= Cardinality(Armed) + 1
    BY <1>0, <2>4, ArmedSteps
  <2>6. ASSUME NEW s \in Serials
        PROVE  Runs(s)' = Runs(s) /\ Slots(s)' = Slots(s) /\ Owed(s)' = Owed(s)
    <3>1. Runs(s)' = Runs(s) /\ Told(s)' = Told(s) /\ Seen(s)' = Seen(s)
      BY <2>3 DEF Runs, Told, Seen
    <3>2. pc'[Loop] = pc[Loop]
      BY <1>0, <2>3, Numbers
    <3>3. CASE s # n
      <4>1. made'[s] = made[s]
        BY <1>0, <2>3, <3>3 DEF TypeOK
      <4>2. Slots(s)' = Slots(s) /\ Again(s)' = Again(s)
        BY <2>3, <3>1, <4>1 DEF Slots, Slot, Again
      <4>3. Lost(s)' = Lost(s)
        BY <2>3, <3>1, <3>2, <4>1, <4>2 DEF Lost, Saving, Dropping
      <4>4. QED
        BY <3>1, <4>2, <4>3 DEF Owed
    <3>4. CASE s = n
      <4>1. Runs(s) = {} /\ ~Told(s)
        BY <2>2, <3>4 DEF SchedInv, VersionInv, Runs, Told
      <4>2. Slots(s)' = {} /\ Slots(s) = {} /\ Seen(s) = {} /\ Seen(s)' = {}
            /\ ~Again(s) /\ ~Again(s)'
        BY <3>1, <4>1 DEF Slots, Again, Seen
      <4>3. ~Lost(s) /\ ~Lost(s)'
        BY <3>1, <4>1, <4>2 DEF Lost, Stale
      <4>4. QED
        BY <3>1, <4>2, <4>3 DEF Owed
    <3>5. QED
      BY <3>3, <3>4
  <2>7. ASSUME NEW s \in Serials
        PROVE  /\ IsFiniteSet(Slots(s))'
               /\ (Len(started[s]) + Owed(s) + Cardinality(Armed))'
                    <= (Cardinality(Slots(s)) + faults + calls)'
    <3>1. /\ IsFiniteSet(Slots(s)) /\ Cardinality(Slots(s)) \in Nat /\ Len(started[s]) \in Nat
          /\ Len(started[s]) + Owed(s) + Cardinality(Armed) <= Cardinality(Slots(s)) + faults + calls
      BY <1>0, FS_CardinalityType DEF CountInv, TypeOK
    <3>2. Owed(s)' = Owed(s) /\ Slots(s)' = Slots(s) /\ started' = started /\ faults' = faults
          /\ calls' = calls + 1
      BY <2>2, <2>3, <2>6
    <3>3. PICK l \in Nat, o \in Nat, k \in Nat, b \in Nat :
            /\ l = Len(started[s]) /\ o = Owed(s) /\ k = Cardinality(Slots(s))
            /\ b = Cardinality(Armed)'
      BY <1>0, <2>5, <3>1
    <3>4. PICK a1 \in Nat, f \in Nat, c \in Nat :
            a1 = Cardinality(Armed) /\ f = faults /\ c = calls
      BY <1>0
    <3>5. l + o + a1 <= k + f + c /\ b <= a1 + 1
      BY <2>5, <3>1, <3>3, <3>4
    <3>6. l + o + b <= k + f + (c + 1)
      BY <3>5
    <3>7. QED
      BY <3>1, <3>2, <3>3, <3>4, <3>6
  <2>8. QED
    BY <2>5, <2>7 DEF CountInv
<1>3. ASSUME NEW a \in Callers, CallStep(a) PROVE CountInv'
  <2>0. a \in Actors /\ a # Loop
    BY Numbers
  <2>1. UNCHANGED <<started, made, calls>> /\ faults' \in Nat /\ faults <= faults'
    BY <1>0, <1>3
    DEF CallStep, Reload, Save, Read, Install, Edit, Open, Write, SaveFails, loopVars, historyVars
  <2>2. \A s \in Serials : Again(s)' => Again(s)
    BY <1>3, CallerOwed
  <2>3. CASE Install(a)
    <3>1. Armed' = Armed \ {a} /\ a \in Armed
      BY <1>0, <2>0, <2>3, Numbers DEF Install, Resume, Return, Goto, Armed
    <3>2. IsFiniteSet(Armed)' /\ Cardinality(Armed)' \in Nat
          /\ Cardinality(Armed)' + 1 <= Cardinality(Armed)
      BY <1>0, <3>1, ArmedSteps
    <3>3. \A s \in Serials : Owed(s)' <= Owed(s) + 1
      BY <2>2, OwedNumbers
    <3>4. UNCHANGED faults
      BY <2>3 DEF Install, historyVars
    <3>5. QED
      BY <1>0, <2>1, <3>2, <3>3, <3>4, CountKept
  <2>4. CASE ~Install(a)
    <3>1. Armed' = Armed \/ Armed' = Armed \ {a}
      BY <1>0, <1>3, <2>0, <2>4, Numbers
      DEF CallStep, Reload, Save, Read, Edit, Open, Write, SaveFails, Resume, Saved, Return, Goto, Armed
    <3>2. IsFiniteSet(Armed)' /\ Cardinality(Armed)' \in Nat
          /\ Cardinality(Armed)' <= Cardinality(Armed)
      BY <1>0, <3>1, ArmedSteps
    <3>3. \A s \in Serials : Owed(s)' <= Owed(s)
      BY <1>3, <2>2, <2>4, CallerOwed, OwedNumbers
    <3>4. QED
      BY <1>0, <2>1, <3>2, <3>3, CountKept
  <2>5. QED
    BY <2>3, <2>4
<1>4. ASSUME \/ Wake \/ Tick \/ Reload(Loop) \/ Drop \/ Open(Loop) \/ Write(Loop) \/ Restart
      PROVE  CountInv'
  <2>1. UNCHANGED <<started, made, calls, faults>> /\ \A b \in Callers : pc'[b] = pc[b]
    BY <1>0, <1>4, Numbers
    DEF Wake, Tick, Reload, Read, Install, Resume, Drop, Open, Write, Saved, Restart, Goto,
        actorVars, loopVars, historyVars
  <2>2. \A s \in Serials : Owed(s)' <= Owed(s)
    BY <1>4, LoopOwed, OwedNumbers
  <2>3. QED
    BY <1>1, <2>1, <2>2 DEF Armed
<1>5. CASE SaveFails(Loop)
  <2>1. /\ UNCHANGED <<started, made, calls>> /\ faults' = faults + 1
        /\ \A b \in Callers : pc'[b] = pc[b]
    BY <1>0, <1>5, Numbers DEF SaveFails, Saved, Goto, loopVars
  <2>2. Armed' = Armed
    BY <2>1 DEF Armed
  <2>3. \A s \in Serials : Owed(s)' <= Owed(s) + 1
    BY <1>5, FailOwed, OwedNumbers
  <2>4. QED
    BY <1>0, <2>1, <2>2, <2>3, CountKept
<1>6. CASE Mark
  <2>1. UNCHANGED <<started, made, calls, faults>> /\ \A b \in Callers : pc'[b] = pc[b]
    BY <1>0, <1>6, Numbers DEF Mark, Sleep, Goto, historyVars
  <2>2. QED
    BY <1>1, <1>6, <2>1, MarkOwed DEF Armed
<1>7. CASE Start
  BY <1>7, StartCounts
<1>8. CASE Kill
  <2>1. /\ UNCHANGED <<started, made, calls, faults, file>> /\ tasks' = Empty /\ due' = {}
        /\ pc'[Loop] = "idle" /\ copy'[Loop] = Nil /\ \A b \in Callers : pc'[b] = "idle"
    BY <1>8, Numbers DEF Kill
  <2>2. Armed' = {}
    BY <2>1 DEF Armed
  <2>3. IsFiniteSet(Armed)' /\ Cardinality(Armed)' = 0
    BY <2>2, FS_EmptySet
  <2>4. ASSUME NEW s \in Serials PROVE Owed(s)' <= Owed(s)
    <3>1. Runs(s)' = Runs(s) /\ ~Told(s)' /\ ~Again(s)'
      BY <2>1 DEF Runs, Told, Again
    <3>2. Seen(s)' = Runs(s)
      BY <3>1 DEF Seen
    <3>3. Lost(s)' = Stale(file, s, Runs(s))
      BY <2>1, <3>2 DEF Lost, Saving, Stale, Empty
    <3>4. Stale(file, s, Runs(s)) => Stale(file, s, Seen(s))
      BY DEF Stale, Seen
    <3>5. Lost(s)' => Lost(s) \/ Again(s)
      BY <3>3, <3>4 DEF Lost
    <3>6. QED
      BY <3>1, <3>5, OwedNumbers
  <2>5. QED
    BY <1>0, <2>1, <2>3, <2>4, CountKept
<1>9. CASE UNCHANGED vars
  <2>1. UNCHANGED <<started, made, calls, faults, tasks, file, copy, pc, due, stamp>>
    BY <1>9 DEF vars, actorVars, loopVars, historyVars
  <2>2. Armed' = Armed
    BY <2>1 DEF Armed
  <2>3. \A s : /\ Runs(s)' = Runs(s) /\ Told(s)' = Told(s) /\ Seen(s)' = Seen(s)
               /\ Again(s)' = Again(s)
    BY <2>1, SameRuns
  <2>4. \A s : Lost(s)' = Lost(s)
    BY <2>1, <2>3 DEF Lost, Saving, Dropping
  <2>5. QED
    BY <1>1, <2>1, <2>2, <2>3, <2>4, OwedNumbers
<1>10. QED
  BY <1>2, <1>3, <1>4, <1>5, <1>6, <1>7, <1>8, <1>9 DEF Next, LoopStep, Save

-----------------------------------------------------------------------------
(* The first state.                                                        *)

(* The first file may hold one task.                                       *)
LEMMA InitInv ==
  ASSUME Init
  PROVE  SchedInv /\ CountInv
<1>0. /\ now = Minute /\ up = TRUE /\ file \in FirstFiles /\ tasks = Loaded(file)
      /\ pc = [a \in Actors |-> IF a = Loop THEN "read" ELSE "idle"]
      /\ copy = [a \in Actors |-> Nil] /\ request = [a \in Callers |-> NoRequest]
      /\ stamp = 0 /\ due = {} /\ wake = Minute /\ started = [s \in Serials |-> <<>>]
      /\ calls = 0 /\ faults = 0 /\ kills = 0
  BY DEF Init
<1>1. \A s \in Serials : s # 0 => made[s] = Nil
  BY DEF Init
<1>2. \/ file = Nil
      \/ \E j \in Ids : \E t \in NewTasks(j, Minute, 0) : file = [Empty EXCEPT ![j] = t]
  BY <1>0 DEF FirstFiles
<1>3. /\ tasks \in Schedule /\ file \in Schedule \cup {Nil}
      /\ made \in [Serials -> Task \cup {Nil}]
      /\ Known(tasks, made) /\ Known(file, made)
      /\ made[0] # Nil => made[0].serial = 0 /\ (made[0].once => \E at \in Nat : made[0].cron = {at})
  <2>1. CASE file = Nil
    <3>1. tasks = Empty /\ Empty \in Schedule /\ \A i \in Ids : tasks[i] = Nil
      BY <1>0, <2>1 DEF Loaded, Empty, Schedule
    <3>2. made = [s \in Serials |-> Nil]
      BY <3>1 DEF Init
    <3>3. QED
      BY <2>1, <3>1, <3>2, Numbers DEF Known
  <2>2. CASE \E j \in Ids : \E t \in NewTasks(j, Minute, 0) : file = [Empty EXCEPT ![j] = t]
    <3>1. PICK j \in Ids : \E t \in NewTasks(j, Minute, 0) : file = [Empty EXCEPT ![j] = t]
      BY <2>2
    <3>2. PICK t \in NewTasks(j, Minute, 0) : file = [Empty EXCEPT ![j] = t]
      BY <3>1
    <3>3. /\ t \in Task /\ t.id = j /\ t.serial = 0 /\ t # Nil
          /\ t.once => \E at \in Nat : t.cron = {at}
      BY NewTaskTypes, Numbers
    <3>4. file \in Schedule /\ file[j] = t /\ \A i \in Ids : i # j => file[i] = Nil
      BY <3>2, <3>3 DEF Empty, Schedule
    <3>5. tasks = file
      BY <1>0, <3>4, Numbers DEF Loaded
    <3>6. (\E i \in Ids : tasks[i] # Nil) /\ (CHOOSE i \in Ids : tasks[i] # Nil) = j
      BY <3>3, <3>4, <3>5
    <3>7. made = [s \in Serials |-> IF s = 0 THEN t ELSE Nil]
      <4>1. made = [s \in Serials |->
                      IF s = 0 /\ \E i \in Ids : tasks[i] # Nil
                      THEN tasks[CHOOSE i \in Ids : tasks[i] # Nil] ELSE Nil]
        BY DEF Init
      <4>2. QED
        BY <3>4, <3>5, <3>6, <4>1
    <3>8. made[0] = t /\ made \in [Serials -> Task \cup {Nil}]
      BY <3>3, <3>7, Numbers
    <3>9. Known(file, made)
      BY <3>3, <3>4, <3>8 DEF Known, Same
    <3>10. QED
      BY <3>3, <3>4, <3>5, <3>8, <3>9
  <2>3. QED
    BY <1>2, <2>1, <2>2
<1>4. \A s : Told(s) = FALSE
  BY <1>0 DEF Told
<1>5. \A s \in Serials : Runs(s) = {} /\ Seen(s) = {} /\ Slots(s) = {} /\ Owed(s) = 0
  BY <1>0, <1>4 DEF Runs, Seen, Slots, Owed, Again, Lost, Stale
<1>6. TypeOK
  <2>1. NoRequest \in RequestType
    BY DEF NoRequest, RequestType, Kinds
  <2>2. QED
    BY <1>0, <1>3, <2>1, Numbers DEF TypeOK, Pc, RequestType
<1>7. LoopInv
  BY <1>0, <1>5, Numbers DEF LoopInv
<1>8. VersionInv
  <2>1. \A a \in Actors : Known(copy[a], made)
    BY <1>0 DEF Known
  <2>2. QED
    BY <1>0, <1>1, <1>3, <1>5, <2>1, Numbers DEF VersionInv
<1>9. CallInv
  BY <1>0, Numbers DEF CallInv, Adding
<1>10. CountInv
  <2>1. Armed = {}
    BY <1>0, Numbers DEF Armed
  <2>2. IsFiniteSet({}) /\ Cardinality({}) = 0
    BY FS_EmptySet
  <2>3. ASSUME NEW s \in Serials
        PROVE  /\ IsFiniteSet(Slots(s))
               /\ Len(started[s]) + Owed(s) + Cardinality(Armed)
                    <= Cardinality(Slots(s)) + faults + calls
    <3>1. Slots(s) = {} /\ Owed(s) = 0
      BY <1>5
    <3>2. Len(started[s]) = 0
      BY <1>0
    <3>3. 0 + 0 + 0 <= 0 + 0 + 0
      OBVIOUS
    <3>4. QED
      BY <1>0, <2>1, <2>2, <3>1, <3>2, <3>3
  <2>4. QED
    BY <2>1, <2>2, <2>3 DEF CountInv
<1>11. QED
  BY <1>6, <1>7, <1>8, <1>9, <1>10 DEF SchedInv

(* Where the loop and the calls stand, what the versions hold, and how     *)
(* often what was started.                                                 *)
THEOREM SchedInvariant == Spec => [](SchedInv /\ CountInv)
<1>1. Init => SchedInv /\ CountInv
  BY InitInv
<1>2. SchedInv /\ CountInv /\ [Next]_vars => (SchedInv /\ CountInv)'
  <2> SUFFICES ASSUME SchedInv, CountInv, [Next]_vars PROVE SchedInv' /\ CountInv'
    OBVIOUS
  <2>1. SchedInv'
    BY TypeStep, LoopSteps, VersionStep, CallSteps DEF SchedInv
  <2>2. CountInv'
    BY TypeStep, CountStep
  <2>3. QED
    BY <2>1, <2>2
<1>3. QED
  BY <1>1, <1>2, PTL DEF Spec

-----------------------------------------------------------------------------
(* No task runs more often than it should.                                 *)

(* What is reached from a finite set by a function is no larger.           *)
LEMMA Reached ==
  ASSUME NEW S, IsFiniteSet(S), NEW f, DOMAIN f = S, NEW T, \A y \in T : \E x \in S : f[x] = y
  PROVE  IsFiniteSet(T) /\ Cardinality(T) <= Cardinality(S) /\ Cardinality(T) \in Nat
<1>1. PICK R : R = {f[x] : x \in S}
  OBVIOUS
<1>2. PICK g : g = [x \in S |-> f[x]]
  OBVIOUS
<1>3. g \in Surjection(S, R)
  BY <1>1, <1>2 DEF Surjection
<1>4. IsFiniteSet(R) /\ Cardinality(R) <= Cardinality(S)
  BY <1>3, FS_Surjection
<1>5. T \in SUBSET R
  BY <1>1
<1>6. IsFiniteSet(T) /\ Cardinality(T) <= Cardinality(R)
  BY <1>4, <1>5, FS_Subset
<1>7. Cardinality(T) \in Nat /\ Cardinality(R) \in Nat /\ Cardinality(S) \in Nat
  BY <1>4, <1>6, FS_CardinalityType
<1>8. QED
  BY <1>4, <1>6, <1>7

(* A time that is a whole minute is that minute of whatever it starts.     *)
LEMMA MinuteOf ==
  ASSUME NEW t \in Nat, NEW o \in Nat, t - Minute < o, o <= t, o % Minute = 0
  PROVE  o = Minute * (t \div Minute) /\ t \div Minute = o \div Minute
<1>1. PICK m \in Nat : m = Minute /\ m > 0
  BY Numbers
<1>2. \A x, y, z \in Nat : x <= y => x * z <= y * z
  OBVIOUS
<1>3. PICK p \in Nat, q \in Nat : p = t \div m /\ q = o \div m
  BY <1>1
<1>4. o = m * q /\ m * p <= t /\ t < m * p + m
  BY <1>1, <1>3
<1>5. q <= p
  BY <1>1, <1>3, Minutes
<1>6. CASE q + 1 <= p
  <2>1. m * (q + 1) <= m * p /\ m * (q + 1) = m * q + m
    BY <1>1, <1>2, <1>3, <1>6
  <2>2. QED
    BY <1>1, <1>3, <1>4, <2>1
<1>7. QED
  BY <1>1, <1>3, <1>4, <1>5, <1>6

(* No more slots than times at which the task has fired.                   *)
LEMMA SlotsFired ==
  ASSUME SchedInv, NEW s \in Serials, made[s] # Nil,
         made[s].once \/ OnTheMinute(made[s].cron)
  PROVE  /\ Cardinality(Slots(s)) <= Fired(s) /\ Fired(s) \in Nat
         /\ made[s].once => Cardinality(Slots(s)) <= 1
<1> DEFINE F == {o \in made[s].cron : o <= now}
<1>1. /\ now \in Nat /\ made[s] \in Task /\ Runs(s) \subseteq Nat
      /\ \A t \in Runs(s) : t <= now /\ Fires(made[s].cron, t)
      /\ made[s].once => \E at \in Nat : made[s].cron = {at}
  <2>1. now \in Nat /\ made[s] \in Task
    BY DEF SchedInv, TypeOK
  <2>2. Runs(s) \subseteq Nat
    BY DEF SchedInv, TypeOK, Runs
  <2>3. \A t \in Runs(s) : t <= now /\ Fires(made[s].cron, t)
    BY DEF SchedInv, LoopInv, VersionInv
  <2>4. made[s].once => \E at \in Nat : made[s].cron = {at}
    BY DEF SchedInv, VersionInv
  <2>5. QED
    BY <2>1, <2>2, <2>3, <2>4
<1>2. made[s].cron \subseteq Nat
  BY <1>1 DEF Task
<1>3. IsFiniteSet(F) /\ Cardinality(F) \in Nat
  <2>1. IsFiniteSet(0..now)
    BY <1>1, FS_Interval
  <2>2. F \in SUBSET (0..now)
    BY <1>1, <1>2
  <2>3. QED
    BY <2>1, <2>2, FS_Subset, FS_CardinalityType
<1>4. \A t \in Runs(s) : \E o \in F : t - Minute < o /\ o <= t
  BY <1>1, <1>2 DEF Fires
<1>5. CASE made[s].once
  <2>1. Slots(s) \subseteq {0}
    BY <1>5 DEF Slots, Slot
  <2>2. Cardinality(Slots(s)) <= 1
    <3>1. IsFiniteSet({0}) /\ Cardinality({0}) = 1
      BY FS_Singleton
    <3>2. Slots(s) \in SUBSET {0}
      BY <2>1
    <3>3. QED
      BY <3>1, <3>2, FS_Subset
  <2>3. CASE Runs(s) = {}
    <3>1. Slots(s) = {}
      BY <2>3 DEF Slots
    <3>2. QED
      BY <1>3, <2>2, <3>1, FS_EmptySet DEF Fired
  <2>4. CASE Runs(s) # {}
    <3>1. F # {}
      BY <1>4, <2>4
    <3>2. Cardinality(F) # 0
      BY <1>3, <3>1, FS_EmptySet
    <3>3. Cardinality(Slots(s)) \in Nat
      BY <2>1, FS_Singleton, FS_Subset, FS_CardinalityType
    <3>4. QED
      BY <1>3, <2>2, <3>2, <3>3 DEF Fired
  <2>5. QED
    BY <2>3, <2>4
<1>6. CASE ~made[s].once /\ OnTheMinute(made[s].cron)
  <2> DEFINE f == [o \in F |-> o \div Minute]
  <2>1. \A y \in Slots(s) : \E o \in F : f[o] = y
    <3>1. ASSUME NEW y \in Slots(s) PROVE \E o \in F : f[o] = y
      <4>1. PICK t \in Runs(s) : y = t \div Minute
        BY <1>6 DEF Slots, Slot
      <4>2. PICK o \in F : t - Minute < o /\ o <= t
        BY <1>4
      <4>3. o % Minute = 0 /\ o \in Nat /\ t \in Nat
        BY <1>1, <1>2, <1>6 DEF OnTheMinute
      <4>4. t \div Minute = o \div Minute
        BY <4>2, <4>3, MinuteOf
      <4>5. QED
        BY <4>1, <4>4
    <3>2. QED
      BY <3>1
  <2>2. Cardinality(Slots(s)) <= Cardinality(F)
    <3>1. DOMAIN f = F
      OBVIOUS
    <3> HIDE DEF f, F
    <3>2. QED
      BY <1>3, <2>1, <3>1, Reached
  <2>3. QED
    BY <1>3, <1>6, <2>2 DEF Fired
<1>7. QED
  BY <1>5, <1>6


(* A recurring task's runs within one minute are those by which the starts *)
(* outnumber the minutes, and one more; a reminder has a single slot.      *)
LEMMA MinuteCount ==
  ASSUME SchedInv, CountInv, NEW s \in Serials, NEW k \in DOMAIN started[s]
  PROVE  LET J == {j \in DOMAIN started[s] :
                     started[s][j] \div Minute = started[s][k] \div Minute}
         IN  Cardinality(J) <= 1 + faults + calls
<1> DEFINE D == DOMAIN started[s]
           c == started[s][k] \div Minute
           J == {j \in D : started[s][j] \div Minute = c}
<1>1. started[s] \in Seq(Nat) /\ Runs(s) = {started[s][j] : j \in D}
  BY DEF SchedInv, TypeOK, Runs
<1>2. PICK l \in Nat : l = Len(started[s]) /\ D = 1..l
  BY <1>1
<1>3. IsFiniteSet(D) /\ Cardinality(D) = l
  BY <1>2, FS_Interval
<1>4. IsFiniteSet(J) /\ Cardinality(J) \in Nat /\ Cardinality(J) <= l
  <2>1. J \in SUBSET D
    OBVIOUS
  <2>2. QED
    BY <1>3, <2>1, FS_Subset, FS_CardinalityType
<1>5. IsFiniteSet(Slots(s)) /\ Cardinality(Slots(s)) \in Nat
      /\ Len(started[s]) + Owed(s) + Cardinality(Armed) <= Cardinality(Slots(s)) + faults + calls
  BY FS_CardinalityType DEF CountInv
<1>6. PICK e \in Nat : e = faults + calls
  BY Numbers DEF SchedInv, TypeOK
<1>7. l <= Cardinality(Slots(s)) + e
  <2>1. PICK o \in Nat, a \in Nat, f \in Nat, g \in Nat :
          o = Owed(s) /\ a = Cardinality(Armed) /\ f = faults /\ g = calls
    <3>1. Owed(s) \in Nat
      BY OwedNumbers
    <3>2. Cardinality(Armed) \in Nat
      BY FS_CardinalityType DEF CountInv
    <3>3. faults \in Nat /\ calls \in Nat
      BY Numbers DEF SchedInv, TypeOK
    <3>4. QED
      BY <3>1, <3>2, <3>3
  <2>2. PICK n \in Nat : n = Cardinality(Slots(s))
    BY <1>5
  <2>3. l + o + a <= n + f + g /\ e = f + g
    BY <1>2, <1>5, <1>6, <2>1, <2>2
  <2>4. l <= n + e
    BY <2>3
  <2>5. QED
    BY <2>2, <2>4
<1>8. Cardinality(J) <= 1 + e
  <2>1. CASE made[s].once
    <3>1. Slots(s) \in SUBSET {0}
      BY <2>1 DEF Slots, Slot
    <3>2. IsFiniteSet({0}) /\ Cardinality({0}) = 1
      BY FS_Singleton
    <3>3. Cardinality(Slots(s)) <= 1
      BY <3>1, <3>2, FS_Subset
    <3>4. PICK n \in Nat, m \in Nat : n = Cardinality(Slots(s)) /\ m = Cardinality(J)
      BY <1>4, <1>5
    <3>5. m <= l /\ l <= n + e /\ n <= 1
      BY <1>4, <1>7, <3>3, <3>4
    <3>6. m <= 1 + e
      BY <3>5
    <3>7. QED
      BY <3>4, <3>6
  <2>2. CASE ~made[s].once
    <3> DEFINE T == Slots(s) \ {c}
               E == D \ J
               f == [j \in E |-> started[s][j] \div Minute]
    <3>1. IsFiniteSet(E) /\ Cardinality(E) = l - Cardinality(J)
      <4>1. J \in SUBSET D
        OBVIOUS
      <4>2. IsFiniteSet(D \ J) /\ Cardinality(D \ J) = Cardinality(D) - Cardinality(D \cap J)
        BY <1>3, FS_Difference
      <4>3. D \cap J = J
        OBVIOUS
      <4>4. QED
        BY <1>3, <4>2, <4>3
    <3>2. \A y \in T : \E j \in E : f[j] = y
      <4>1. ASSUME NEW y \in T PROVE \E j \in E : f[j] = y
        <5>1. PICK t \in Runs(s) : y = t \div Minute
          BY <2>2 DEF Slots, Slot
        <5>2. PICK j \in D : t = started[s][j]
          BY <1>1, <5>1
        <5>3. y # c
          OBVIOUS
        <5>4. j \in E
          BY <5>1, <5>2, <5>3
        <5>5. QED
          BY <5>1, <5>2, <5>4
      <4>2. QED
        BY <4>1
    <3>3. Cardinality(T) <= Cardinality(E) /\ Cardinality(T) \in Nat
      <4>1. DOMAIN f = E
        OBVIOUS
      <4> HIDE DEF f, E, T
      <4>2. QED
        BY <3>1, <3>2, <4>1, Reached
    <3>4. c \in Slots(s)
      BY <1>1, <2>2 DEF Slots, Slot
    <3>5. Cardinality(T) = Cardinality(Slots(s)) - 1
      BY <1>5, <3>4, FS_RemoveElement
    <3> HIDE DEF T, E, f, J
    <3>6. PICK n \in Nat, m \in Nat, p \in Nat :
            n = Cardinality(Slots(s)) /\ m = Cardinality(J) /\ p = Cardinality(T)
      BY <1>4, <1>5, <3>3
    <3>7. p <= l - m /\ p = n - 1 /\ l <= n + e
      BY <1>7, <3>1, <3>3, <3>5, <3>6
    <3>8. m <= 1 + e
      BY <3>7
    <3>9. QED
      BY <3>6, <3>8
  <2>3. QED
    BY <2>1, <2>2
<1>9. 1 + e = 1 + faults + calls
  BY <1>6, Numbers DEF SchedInv, TypeOK
<1>10. QED
  BY <1>8, <1>9

(* A reminder, or a task that fires on whole minutes, is started once for  *)
(* each time it fires and no task twice in a minute, but for one more run  *)
(* for each save that failed and each call: what marked the task is in the *)
(* file before the run is started (run_loop), whoever calls, fails, kills  *)
(* and restarts.                                                           *)
THEOREM RunsSoundCorrect == Spec => []RunsSound
<1>1. SchedInv /\ CountInv => RunsSound
  <2> SUFFICES ASSUME SchedInv, CountInv PROVE RunsSound
    OBVIOUS
  <2>1. TypeOK
    BY DEF SchedInv
  <2>2. RunsBounded
    <3>1. ASSUME NEW s \in Serials, made[s] # Nil,
                 made[s].once \/ OnTheMinute(made[s].cron)
          PROVE  Len(started[s]) <= Fired(s) + faults + calls
      <4>1. Cardinality(Slots(s)) <= Fired(s) /\ Fired(s) \in Nat
        BY <3>1, SlotsFired
      <4>2. Len(started[s]) + Owed(s) + Cardinality(Armed) <= Cardinality(Slots(s)) + faults + calls
        BY DEF CountInv
      <4>3. PICK l \in Nat, n \in Nat : l = Len(started[s]) /\ n = Cardinality(Slots(s))
        BY FS_CardinalityType DEF CountInv, SchedInv, TypeOK
      <4>4. PICK o \in Nat, a \in Nat : o = Owed(s) /\ a = Cardinality(Armed)
        BY OwedNumbers, FS_CardinalityType DEF CountInv
      <4>5. PICK f \in Nat, g \in Nat, h \in Nat : f = faults /\ g = calls /\ h = Fired(s)
        <5>1. faults \in Nat /\ calls \in Nat
          BY <2>1, Numbers DEF TypeOK
        <5>2. QED
          BY <4>1, <5>1
      <4>6. l + o + a <= n + f + g /\ n <= h
        BY <4>1, <4>2, <4>3, <4>4, <4>5
      <4>7. l <= h + f + g
        BY <4>6
      <4>8. QED
        BY <4>3, <4>5, <4>7
    <3>2. QED
      BY <3>1 DEF RunsBounded
  <2>3. OncePerMinute
    BY MinuteCount DEF OncePerMinute
  <2>4. QED
    BY <2>1, <2>2, <2>3 DEF RunsSound
<1>2. QED
  BY <1>1, SchedInvariant, PTL

-----------------------------------------------------------------------------
(* What is due is started in time.                                         *)

(* Nobody disturbs the task, and it can be started within a minute of each *)
(* time it fires.                                                          *)
Quiet == Undisturbed /\ made[0] # Nil /\ (made[0].once \/ OnTheMinute(made[0].cron))

(* A version from which the task can still be started: it has it, enabled, *)
(* and remembers no run that was not made or is not about to be; a         *)
(* reminder that has run may be gone.                                      *)
Here(v, runs) ==
  LET t == v[made[0].id]
  IN t # Nil /\ t.enabled /\ (t.last = 0 \/ t.last \in runs)
Good(v, runs) == v # Nil /\ ((made[0].once /\ runs # {}) \/ Here(v, runs))

(* The loop is alone and never late by more than its delay.                *)
TimeInv ==
  /\ up /\ \A a \in Callers : pc[a] = "idle"
  /\ now <= wake + Slack
  /\ pc[Loop] # "idle" => wake <= now
  /\ pc[Loop] \in {"mark", "drop", "open", "write", "start"} => wake <= stamp

(* The version it will look at next has the task.                          *)
KeepInv ==
  /\ pc[Loop] = "install" => Good(copy[Loop], Seen(0))
  /\ pc[Loop] \in {"mark", "drop", "open", "write"} => Good(tasks, Seen(0))
  /\ pc[Loop] \notin {"drop", "open", "write"} => Good(file, Seen(0))
  /\ pc[Loop] \in {"drop", "open", "write", "start"} => due # {}

(* A time at which the task fires is not yet past, or a run was started    *)
(* for it.                                                                 *)
Handled(o) == \E t \in Runs(0) : o <= t /\ t < o + Minute
DoneInv ==
  \A o \in made[0].cron : Minute <= o => wake < o + Period + Slack \/ Handled(o)

DueInv == Quiet => TimeInv /\ KeepInv /\ DoneInv

(* While nobody calls, there is one task.                                  *)
LEMMA OneTask ==
  ASSUME SchedInv, Quiet
  PROVE  /\ made[0] \in Task /\ made[0].id \in Ids
         /\ \A s \in Serials : made[s] # Nil => s = 0
         /\ \A v \in Schedule : Known(v, made) =>
              \A i \in Ids : v[i] # Nil =>
                /\ v[i] \in Task /\ v[i].serial = 0 /\ i = made[0].id
                /\ v[i].cron = made[0].cron /\ v[i].once = made[0].once
         /\ \A d \in due : d.serial = 0 /\ d.id = made[0].id /\ d.once = made[0].once
<1>1. made[0] \in Task /\ made[0].id \in Ids
  <2>1. made[0] \in Task
    BY Numbers DEF Quiet, SchedInv, TypeOK
  <2>2. QED
    BY <2>1 DEF Task
<1>2. \A s \in Serials : made[s] # Nil => s = 0
  <2>1. \A s \in Serials : made[s] # Nil => s <= 0
    BY DEF SchedInv, VersionInv, Quiet, Undisturbed
  <2>2. \A s \in Serials : s \in Nat
    BY Numbers
  <2>3. QED
    BY <2>1, <2>2
<1>3. ASSUME NEW v \in Schedule, Known(v, made), NEW i \in Ids, v[i] # Nil
      PROVE  /\ v[i] \in Task /\ v[i].serial = 0 /\ i = made[0].id
             /\ v[i].cron = made[0].cron /\ v[i].once = made[0].once
  <2>1. v # Nil /\ v[i] \in Task
    BY <1>3, Numbers DEF Schedule
  <2>2. v[i].serial \in Serials
    BY <2>1 DEF Task
  <2>3. v[i].id = i /\ Same(v[i], made[v[i].serial])
    BY <1>3, <2>1 DEF Known
  <2>4. v[i].serial = 0
    BY <1>2, <2>2, <2>3 DEF Same
  <2>5. QED
    BY <2>1, <2>3, <2>4 DEF Same
<1>4. ASSUME NEW d \in due
      PROVE  d.serial = 0 /\ d.id = made[0].id /\ d.once = made[0].once
  <2>1. d.serial \in Serials
    BY DEF SchedInv, TypeOK
  <2>2. made[d.serial] # Nil /\ d.id = made[d.serial].id /\ d.once = made[d.serial].once
    BY DEF SchedInv, VersionInv
  <2>3. d.serial = 0
    BY <1>2, <2>1, <2>2
  <2>4. QED
    BY <2>2, <2>3
<1>5. QED
  BY <1>1, <1>2, <1>3, <1>4

(* The steps that leave the task undisturbed.                              *)
QuietStep ==
  \/ Wake \/ Read(Loop) \/ Install(Loop) \/ Mark \/ Drop
  \/ Open(Loop) \/ Write(Loop) \/ Start \/ Tick \/ UNCHANGED vars

(* What leaves the task undisturbed is the loop and the clock.             *)
LEMMA QuietSteps ==
  ASSUME SchedInv, DueInv, [Next]_vars, Quiet'
  PROVE  Quiet /\ QuietStep /\ UNCHANGED <<made, up>>
<1>0. TypeOK /\ calls \in Nat /\ faults \in Nat /\ kills \in Nat
  BY Numbers DEF SchedInv, TypeOK
<1>1. calls' = 0 /\ faults' = 0 /\ kills' = 0
  BY DEF Quiet, Undisturbed
<1>2. ~ \E a \in Callers : Call(a)
  BY <1>0, <1>1 DEF Call
<1>3. ~ \E a \in Actors : SaveFails(a)
  BY <1>0, <1>1 DEF SaveFails
<1>4. ~Kill
  BY <1>0, <1>1 DEF Kill
<1>5. Quiet
  <2>1. CASE UNCHANGED vars
    BY <2>1 DEF vars, historyVars, Quiet, Undisturbed
  <2>2. CASE Next
    <3>1. UNCHANGED <<made, calls, faults, kills>>
      <4>1. ASSUME NEW a \in Actors, Read(a) \/ Install(a) \/ Edit(a) \/ Open(a) \/ Write(a)
            PROVE UNCHANGED <<made, calls, faults, kills>>
        BY <4>1 DEF Read, Install, Edit, Open, Write, historyVars
      <4>2. CASE Wake \/ Mark \/ Drop \/ Start \/ Tick \/ Restart
        BY <4>2 DEF Wake, Mark, Drop, Start, Tick, Restart, historyVars
      <4>3. QED
        BY <1>2, <1>3, <1>4, <2>2, <4>1, <4>2, Numbers
           DEF Next, LoopStep, CallStep, Reload, Save
    <3>2. QED
      BY <3>1 DEF Quiet, Undisturbed
  <2>3. QED
    BY <2>1, <2>2
<1>6. up /\ \A a \in Callers : pc[a] = "idle"
  BY <1>5 DEF DueInv, TimeInv
<1>7. ~Restart
  BY <1>6 DEF Restart
<1>8. ~ \E a \in Callers : CallStep(a)
  <2>1. \A a \in Callers : ~CallStep(a)
    BY <1>6 DEF CallStep, Reload, Save, Read, Install, Edit, Open, Write, SaveFails
  <2>2. QED
    BY <2>1
<1>9. QuietStep
  BY <1>2, <1>3, <1>4, <1>7, <1>8, Numbers DEF Next, LoopStep, Reload, Save, QuietStep
<1>10. UNCHANGED <<made, up>>
  BY <1>9 DEF QuietStep, Wake, Read, Install, Mark, Drop, Open, Write, Start, Tick,
              vars, historyVars
<1>11. QED
  BY <1>5, <1>9, <1>10

(* The loop's delay.                                                       *)
LEMMA TimeKept ==
  ASSUME SchedInv, TimeInv, QuietStep, UNCHANGED up
  PROVE  TimeInv'
<1>0. /\ now \in Nat /\ wake \in Nat /\ stamp \in Nat /\ pc \in [Actors -> Pc]
      /\ Loop \in Actors /\ Callers \subseteq Actors /\ Loop \notin Callers
      /\ Period \in Nat /\ Slack \in Nat
  BY Numbers DEF SchedInv, TypeOK
<1>1. /\ up /\ \A a \in Callers : pc[a] = "idle"
      /\ now <= wake + Slack
      /\ pc[Loop] # "idle" => wake <= now
      /\ pc[Loop] \in {"mark", "drop", "open", "write", "start"} => wake <= stamp
  BY DEF TimeInv
<1>2. CASE Wake
  BY <1>0, <1>1, <1>2 DEF Wake, Goto, TimeInv, loopVars
<1>3. CASE Read(Loop)
  BY <1>0, <1>1, <1>3 DEF Read, Resume, Goto, TimeInv
<1>4. CASE Install(Loop)
  BY <1>0, <1>1, <1>4 DEF Install, Resume, Goto, TimeInv
<1>5. CASE Mark
  <2>1. CASE Sleep
    BY <1>0, <1>1, <1>5, <2>1 DEF Mark, Sleep, Goto, TimeInv
  <2>2. CASE Goto(Loop, "drop") /\ UNCHANGED <<stamp, wake>>
    BY <1>0, <1>1, <1>5, <2>2 DEF Mark, Goto, TimeInv
  <2>3. QED
    BY <1>5, <2>1, <2>2 DEF Mark
<1>6. CASE Drop
  BY <1>0, <1>1, <1>6 DEF Drop, Goto, TimeInv, loopVars
<1>7. CASE Open(Loop)
  BY <1>0, <1>1, <1>7 DEF Open, Goto, TimeInv, loopVars
<1>8. CASE Write(Loop)
  BY <1>0, <1>1, <1>8 DEF Write, Saved, Goto, TimeInv, loopVars
<1>9. CASE Start
  BY <1>0, <1>1, <1>9 DEF Start, Sleep, Goto, TimeInv
<1>10. CASE Tick
  <2>1. now' = now + 1 /\ now < wake + Slack /\ UNCHANGED <<pc, wake, stamp>>
    BY <1>1, <1>10 DEF Tick, actorVars, loopVars
  <2>2. QED
    BY <1>0, <1>1, <2>1 DEF TimeInv
<1>11. CASE UNCHANGED vars
  BY <1>1, <1>11 DEF vars, actorVars, loopVars, TimeInv
<1>12. QED
  BY <1>2, <1>3, <1>4, <1>5, <1>6, <1>7, <1>8, <1>9, <1>10, <1>11 DEF QuietStep

(* What was seen to run is not forgotten.                                  *)
LEMMA SeenGrows ==
  ASSUME SchedInv, QuietStep
  PROVE  Seen(0) \subseteq Seen(0)'
<1>0. TypeOK /\ LoopInv /\ Loop \in Actors /\ 0 \in Serials
  BY Numbers DEF SchedInv
<1>1. CASE UNCHANGED <<started, due, stamp>>
  BY <1>1 DEF Seen, Runs, Told
<1>2. CASE pc[Loop] \in {"read", "install", "mark"} /\ UNCHANGED started
  <2>1. ~Told(0)
    BY <1>0, <1>2 DEF LoopInv, Told
  <2>2. Runs(0)' = Runs(0)
    BY <1>2 DEF Runs
  <2>3. Seen(0) = Runs(0)
    BY <2>1 DEF Seen
  <2>4. Runs(0)' \subseteq Seen(0)'
    BY DEF Seen
  <2>5. QED
    BY <2>2, <2>3, <2>4
<1>3. CASE Start
  <2>1. Runs(0)' = Seen(0)
    BY <1>0, <1>3, StartRuns
  <2>2. Runs(0)' \subseteq Seen(0)'
    BY DEF Seen
  <2>3. QED
    BY <2>1, <2>2
<1>4. QED
  BY <1>1, <1>2, <1>3
     DEF QuietStep, Wake, Read, Install, Mark, Drop, Open, Write, Tick, vars,
         loopVars, historyVars

(* Marking what is due leaves it in the schedule, with a run to come.      *)
LEMMA MarkKeeps ==
  ASSUME SchedInv, Quiet, Good(tasks, Seen(0)), Mark, SchedInv', Quiet', UNCHANGED made,
         pc'[Loop] = "drop"
  PROVE  due' # {} /\ Good(tasks', Seen(0)')
<1>0. /\ tasks \in Schedule /\ tasks # Nil /\ stamp' = stamp /\ stamp \in Nat
      /\ pc \in [Actors -> Pc] /\ Loop \in Actors
  BY Numbers DEF SchedInv, TypeOK, Mark, Good, Sleep, Goto
<1>1. /\ Ripe # {} /\ tasks' = Marked
      /\ due' = {[id |-> i, once |-> tasks[i].once, serial |-> tasks[i].serial] : i \in Ripe}
  BY <1>0 DEF Mark, Sleep, Goto
<1>2. due' # {} /\ Told(0)'
  <2>1. due' # {}
    BY <1>1
  <2>2. \A d \in due' : d.serial \in Serials /\ made[d.serial] # Nil
    BY DEF SchedInv, TypeOK, VersionInv
  <2>3. \A d \in due' : d.serial = 0
    BY <2>2, OneTask
  <2>4. QED
    BY <2>1, <2>3 DEF Told
<1>3. stamp \in Seen(0)' /\ Seen(0) \subseteq Seen(0)'
  <2>1. Seen(0) \subseteq Seen(0)'
    BY SeenGrows DEF QuietStep
  <2>2. QED
    BY <1>0, <1>2, <2>1 DEF Seen
<1>4. made[0].id \in Ids /\ tasks' \in Schedule /\ tasks' # Nil
  <2>1. tasks' \in Schedule
    BY DEF SchedInv, TypeOK
  <2>2. QED
    BY <2>1, OneTask, Numbers
<1>5. CASE made[0].once
  <2>1. Seen(0)' # {}
    BY <1>3
  <2>2. \A v, runs : v # Nil /\ runs # {} => Good(v, runs)
    BY <1>5 DEF Good
  <2>3. QED
    BY <1>2, <1>4, <2>1, <2>2
<1>6. CASE ~made[0].once
  <2>1. Here(tasks, Seen(0))
    BY <1>6 DEF Good
  <2>2. PICK i \in Ids : i = made[0].id
    BY <1>4
  <2>3. tasks[i] # Nil /\ tasks[i].enabled /\ (tasks[i].last = 0 \/ tasks[i].last \in Seen(0))
    BY <2>1, <2>2 DEF Here
  <2>4. tasks[i] \in Task
    BY <1>0, <2>3 DEF Schedule
  <2>5. CASE i \in Ripe
    <3>1. tasks'[i] = [tasks[i] EXCEPT !.last = stamp]
      BY <1>1, <2>5 DEF Marked
    <3>2. tasks'[i].last = stamp /\ tasks'[i].enabled
      BY <2>3, <2>4, <3>1 DEF Task
    <3>3. tasks'[i] # Nil
      <4>1. tasks'[i] \in Task
        BY <1>0, <2>4, <3>1 DEF Task
      <4>2. QED
        BY <4>1, Numbers
    <3>4. QED
      BY <1>2, <1>3, <1>4, <2>2, <3>2, <3>3 DEF Good, Here
  <2>6. CASE i \notin Ripe
    <3>1. tasks'[i] = tasks[i]
      BY <1>1, <2>6 DEF Marked
    <3>2. QED
      BY <1>2, <1>3, <1>4, <2>2, <2>3, <3>1 DEF Good, Here
  <2>7. QED
    BY <2>5, <2>6
<1>7. QED
  BY <1>2, <1>5, <1>6

(* The reload, the marks and the save hand the task on.                    *)
LEMMA KeepKept ==
  ASSUME SchedInv, SchedInv', Quiet, Quiet', KeepInv, QuietStep, UNCHANGED made
  PROVE  KeepInv'
<1>0. /\ pc \in [Actors -> Pc] /\ copy \in [Actors -> Schedule \cup {Nil}]
      /\ Loop \in Actors /\ Loop \notin Callers
  BY Numbers DEF SchedInv, TypeOK
<1>1. /\ pc[Loop] = "install" => Good(copy[Loop], Seen(0))
      /\ pc[Loop] \in {"mark", "drop", "open", "write"} => Good(tasks, Seen(0))
      /\ pc[Loop] \notin {"drop", "open", "write"} => Good(file, Seen(0))
      /\ pc[Loop] \in {"drop", "open", "write", "start"} => due # {}
  BY DEF KeepInv
<1>2. ASSUME NEW v, Good(v, Seen(0)) PROVE Good(v, Seen(0)')
  BY <1>2, SeenGrows DEF Good, Here
<1>3. \A v : Good(v, Seen(0)) => Good(v, Seen(0)') /\ v # Nil
  BY <1>2 DEF Good
<1>4. SUFFICES
        /\ pc'[Loop] = "install" => Good(copy'[Loop], Seen(0)')
        /\ pc'[Loop] \in {"mark", "drop", "open", "write"} => Good(tasks', Seen(0)')
        /\ pc'[Loop] \notin {"drop", "open", "write"} => Good(file', Seen(0)')
        /\ pc'[Loop] \in {"drop", "open", "write", "start"} => due' # {}
  BY DEF KeepInv, Good, Here
<1>5. CASE Wake
  BY <1>0, <1>1, <1>3, <1>5 DEF Wake, Goto
<1>6. CASE Read(Loop)
  BY <1>0, <1>1, <1>3, <1>6 DEF Read, Resume, Goto
<1>7. CASE Install(Loop)
  BY <1>0, <1>1, <1>3, <1>7 DEF Install, Resume, Goto
<1>8. CASE Mark
  <2>1. CASE pc'[Loop] = "drop"
    <3>1. Good(tasks, Seen(0))
      BY <1>1, <1>8 DEF Mark
    <3>2. due' # {} /\ Good(tasks', Seen(0)')
      BY <1>8, <2>1, <3>1, MarkKeeps
    <3>3. QED
      BY <2>1, <3>2
  <2>2. CASE pc'[Loop] # "drop"
    <3>1. pc'[Loop] = "idle" /\ file' = file /\ pc[Loop] = "mark"
      BY <1>0, <1>8, <2>2 DEF Mark, Sleep, Goto
    <3>2. QED
      BY <1>1, <1>3, <3>1
  <2>3. QED
    BY <2>1, <2>2
<1>9. CASE Drop
  <2>1. pc[Loop] = "drop" /\ pc'[Loop] = "open" /\ tasks' = Dropped /\ due' = due /\ due # {}
    BY <1>0, <1>1, <1>9 DEF Drop, Goto, loopVars
  <2>2. Good(tasks, Seen(0)')
    BY <1>1, <1>3, <2>1
  <2>3. Good(tasks', Seen(0)')
    <3>1. tasks' \in Schedule /\ tasks' # Nil
      BY Numbers DEF SchedInv, TypeOK
    <3>2. CASE made[0].once
      <4>1. Told(0)
        BY <2>1, OneTask DEF Told
      <4>2. Seen(0) # {}
        BY <4>1 DEF Seen
      <4>3. QED
        BY <3>1, <3>2, <4>2, SeenGrows DEF Good
    <3>3. CASE ~made[0].once
      <4>1. made[0].id \in Ids /\ \A d \in due : ~d.once
        BY <3>3, OneTask
      <4>2. tasks'[made[0].id] = tasks[made[0].id]
        BY <2>1, <4>1 DEF Dropped
      <4>3. QED
        BY <2>2, <3>1, <3>3, <4>2 DEF Good, Here
    <3>4. QED
      BY <3>2, <3>3
  <2>4. QED
    BY <2>1, <2>3
<1>10. CASE Open(Loop)
  BY <1>0, <1>1, <1>3, <1>10 DEF Open, Goto, loopVars
<1>11. CASE Write(Loop)
  BY <1>0, <1>1, <1>3, <1>11 DEF Write, Saved, Goto, loopVars
<1>12. CASE Start
  BY <1>0, <1>1, <1>3, <1>12 DEF Start, Sleep, Goto
<1>13. CASE Tick
  BY <1>0, <1>1, <1>3, <1>13 DEF Tick, actorVars, loopVars
<1>14. CASE UNCHANGED vars
  BY <1>0, <1>1, <1>3, <1>14 DEF vars, actorVars, loopVars
<1>15. QED
  BY <1>5, <1>6, <1>7, <1>8, <1>9, <1>10, <1>11, <1>12, <1>13, <1>14 DEF QuietStep

(* A version that has the task and was seen when it was due leads to a     *)
(* run, or one was made within the window already.                         *)
LEMMA DueOrHandled ==
  ASSUME SchedInv, Quiet, Good(tasks, Seen(0)), pc[Loop] = "mark", Ripe = {},
         NEW o \in made[0].cron, Minute <= o, o <= stamp, stamp < o + Minute
  PROVE  Handled(o)
<1>0. /\ Runs(0) \subseteq Nat /\ stamp \in Nat /\ tasks \in Schedule /\ 0 \in Serials
      /\ \A t \in Runs(0) : t <= stamp /\ Fires(made[0].cron, t)
      /\ Seen(0) = Runs(0)
  <2>1. stamp \in Nat /\ tasks \in Schedule /\ 0 \in Serials
    BY Numbers DEF SchedInv, TypeOK
  <2>2. Runs(0) \subseteq Nat
    BY <2>1 DEF SchedInv, TypeOK, Runs
  <2>3. \A t \in Runs(0) : t <= stamp /\ Fires(made[0].cron, t)
    BY <2>1 DEF SchedInv, LoopInv, VersionInv
  <2>4. ~Told(0)
    BY DEF SchedInv, LoopInv, Told
  <2>5. QED
    BY <2>1, <2>2, <2>3, <2>4 DEF Seen
<1>1. o \in Nat /\ made[0].id \in Ids
  <2>1. made[0] \in Task /\ made[0].id \in Ids
    BY OneTask
  <2>2. QED
    BY <2>1 DEF Task
<1>2. PICK m \in Nat : m = Minute /\ m > 0
  BY Numbers
<1>3. CASE made[0].once /\ Runs(0) # {}
  <2>1. PICK t \in Runs(0) : TRUE
    BY <1>3
  <2>2. PICK at \in Nat : made[0].cron = {at}
    BY <1>0, <1>3 DEF SchedInv, VersionInv, Quiet
  <2>3. t - Minute < o /\ o <= t
    BY <1>0, <2>1, <2>2 DEF Fires
  <2>4. o <= t /\ t < o + Minute
    BY <1>0, <1>1, <1>2, <2>3
  <2>5. QED
    BY <2>4 DEF Handled
<1>4. CASE ~(made[0].once /\ Runs(0) # {})
  <2>1. Here(tasks, Runs(0))
    BY <1>0, <1>4 DEF Good
  <2>2. PICK i \in Ids : i = made[0].id
    BY <1>1
  <2>3. tasks[i] # Nil /\ tasks[i].enabled /\ (tasks[i].last = 0 \/ tasks[i].last \in Runs(0))
    BY <2>1, <2>2 DEF Here
  <2>4. tasks[i] \in Task /\ tasks[i].cron = made[0].cron
    <3>1. Known(tasks, made)
      BY DEF SchedInv, VersionInv
    <3>2. QED
      BY <1>0, <2>3, <3>1, OneTask
  <2>5. PICK l \in Nat : l = tasks[i].last
    BY <2>4 DEF Task
  <2>6. stamp - Minute < o /\ o <= stamp
    BY <1>0, <1>1, <1>2
  <2>7. ~(stamp \div Minute > l \div Minute)
    <3>1. ~IsDue(tasks[i])
      BY <2>3 DEF Ripe
    <3>2. QED
      BY <2>3, <2>4, <2>5, <2>6, <3>1 DEF IsDue
  <2>8. stamp \div Minute \in Nat /\ l \div Minute \in Nat
    BY <1>0, Minutes
  <2>9. l # 0
    <3>1. CASE l = 0
      <4>1. PICK p \in Nat : p = stamp
        BY <1>0
      <4>2. m <= p
        BY <1>0, <1>1, <1>2, <4>1
      <4>3. m \div m = 1 /\ 0 \div m = 0
        BY <1>2
      <4>4. m \div m <= p \div m
        BY <1>2, <4>1, <4>2, Minutes
      <4>5. QED
        BY <1>2, <2>7, <2>8, <3>1, <4>1, <4>3, <4>4
    <3>2. QED
      BY <3>1
  <2>10. l \in Runs(0) /\ l <= stamp
    BY <1>0, <2>3, <2>5, <2>9
  <2>11. l \div Minute = stamp \div Minute
    <3>1. l \div Minute <= stamp \div Minute
      BY <1>0, <2>10, Minutes
    <3>2. QED
      BY <2>7, <2>8, <3>1
  <2>12. OnTheMinute(made[0].cron)
    BY <1>4, <2>10 DEF Quiet
  <2>13. o = Minute * (stamp \div Minute)
    BY <1>0, <1>1, <2>6, <2>12, MinuteOf DEF OnTheMinute
  <2>14. o <= l /\ l < o + Minute
    <3>1. m * (l \div m) <= l
      BY <1>2
    <3>2. o = m * (l \div m)
      BY <1>2, <2>11, <2>13
    <3>3. o <= l
      BY <3>1, <3>2
    <3>4. l < o + Minute
      BY <1>0, <1>1, <1>2, <2>10
    <3>5. QED
      BY <3>3, <3>4
  <2>15. QED
    BY <2>10, <2>14 DEF Handled
<1>5. QED
  BY <1>3, <1>4

(* When the loop goes to sleep, what has become due has been started.      *)
LEMMA DoneKept ==
  ASSUME SchedInv, SchedInv', Quiet, Quiet', TimeInv, KeepInv, DoneInv, QuietStep,
         UNCHANGED made, Period + 2 * Slack <= Minute
  PROVE  DoneInv'
<1>0. /\ now \in Nat /\ wake \in Nat /\ stamp \in Nat /\ pc \in [Actors -> Pc]
      /\ Loop \in Actors /\ 0 \in Serials /\ Minute \in Nat /\ Period \in Nat /\ Slack \in Nat
  BY Numbers DEF SchedInv, TypeOK
<1>1. made[0].cron \subseteq Nat
  BY OneTask DEF Task
<1>2. ASSUME NEW o \in made[0].cron, Minute <= o
      PROVE  wake' < o + Period + Slack \/ Handled(o)'
  <2>0. o \in Nat /\ (wake < o + Period + Slack \/ Handled(o))
    BY <1>1, <1>2 DEF DoneInv
  <2>1. CASE Handled(o)
    <3>1. Runs(0) \subseteq Runs(0)'
      <4>1. CASE UNCHANGED started
        BY <4>1 DEF Runs
      <4>2. CASE Start
        <5>1. Runs(0)' = Seen(0)
          BY <1>0, <4>2, StartRuns DEF SchedInv
        <5>2. QED
          BY <5>1 DEF Seen
      <4>3. QED
        BY <4>1, <4>2 DEF QuietStep, Wake, Read, Install, Mark, Drop, Open, Write, Tick,
                          vars, historyVars
    <3>2. QED
      BY <2>1, <3>1 DEF Handled
  <2>2. CASE wake < o + Period + Slack /\ UNCHANGED wake
    BY <2>2
  <2>3. CASE ~Handled(o) /\ Sleep /\ (Mark \/ Start)
    <3>0. pc[Loop] \in {"mark", "start"}
      BY <2>3 DEF Mark, Start
    <3>1. /\ wake' = now + Period /\ now <= wake + Slack /\ wake <= stamp /\ stamp <= now
          /\ wake < o + Period + Slack
      BY <2>0, <2>3, <3>0 DEF Sleep, TimeInv, SchedInv, LoopInv
    <3>2. CASE stamp < o
      BY <1>0, <2>0, <3>1, <3>2
    <3>3. CASE o <= stamp
      <4>1. stamp < o + Minute
        BY <1>0, <2>0, <3>1
      <4>2. CASE Mark
        <5>1. Ripe = {} /\ pc[Loop] = "mark"
          BY <1>0, <2>3, <4>2 DEF Mark, Sleep, Goto
        <5>2. Good(tasks, Seen(0))
          BY <5>1 DEF KeepInv
        <5>3. QED
          BY <1>2, <2>3, <3>3, <4>1, <5>1, <5>2, DueOrHandled
      <4>3. CASE Start
        <5>1. Runs(0)' = Seen(0)
          BY <1>0, <4>3, StartRuns DEF SchedInv
        <5>2. due # {}
          BY <4>3 DEF Start, KeepInv
        <5>3. Told(0)
          BY <5>2, OneTask DEF Told
        <5>4. stamp \in Runs(0)'
          BY <5>1, <5>3 DEF Seen
        <5>5. QED
          BY <3>3, <4>1, <5>4 DEF Handled
      <4>4. QED
        BY <2>3, <4>2, <4>3
    <3>4. QED
      BY <1>0, <2>0, <3>2, <3>3
  <2>4. QED
    <3>1. UNCHANGED wake \/ (Sleep /\ (Mark \/ Start))
      BY DEF QuietStep, Wake, Read, Install, Mark, Drop, Open, Write, Start, Tick,
             vars, loopVars
    <3>2. QED
      BY <2>0, <2>1, <2>2, <2>3, <3>1
<1>3. QED
  BY <1>2 DEF DoneInv

(* While nobody disturbs the schedule, a reminder, or a task whose         *)
(* expression fires at second 0 only, is started within a minute of each   *)
(* time it fires, provided that the loop's sleep and twice its delay fit   *)
(* in the minute that run_loop looks back: thirty seconds of sleep, and a  *)
(* loop that is at most fifteen late.  Of other expressions it would be    *)
(* false: the mark of a run may block a later time of the same minute.     *)
THEOREM DueStartedCorrect ==
  ASSUME Period + 2 * Slack <= Minute
  PROVE  Spec => []DueStarted
<1>1. Init => DueInv
  <2> SUFFICES ASSUME Init, Quiet PROVE TimeInv /\ KeepInv /\ DoneInv
    BY DEF DueInv
  <2>0. SchedInv
    BY InitInv
  <2>1. /\ now = Minute /\ up = TRUE /\ file \in FirstFiles /\ tasks = Loaded(file)
        /\ pc = [a \in Actors |-> IF a = Loop THEN "read" ELSE "idle"]
        /\ due = {} /\ wake = Minute
    BY DEF Init
  <2>2. TimeInv
    BY <2>1, Numbers DEF TimeInv
  <2>3. KeepInv
    <3>1. PICK i \in Ids : tasks[i] # Nil
      BY Numbers DEF Init, Quiet
    <3>2. file # Nil /\ tasks = file
      BY <2>1, <3>1 DEF Loaded, Empty
    <3>3. PICK j \in Ids : \E t \in NewTasks(j, Minute, 0) : file = [Empty EXCEPT ![j] = t]
      BY <2>1, <3>2 DEF FirstFiles
    <3>4. PICK t \in NewTasks(j, Minute, 0) : file = [Empty EXCEPT ![j] = t]
      BY <3>3
    <3>5. i = j /\ file[j] = t
      BY <3>1, <3>2, <3>4 DEF Empty
    <3>6. t # Nil /\ t.enabled /\ t.last = 0
      <4>1. t # Nil
        BY NewTaskTypes, Numbers
      <4>2. QED
        BY <4>1 DEF NewTasks, Recurring, Reminder
    <3>7. made[0].id = j
      <4>1. tasks \in Schedule /\ Known(tasks, made)
        BY <2>0 DEF SchedInv, TypeOK, VersionInv
      <4>2. tasks[j] # Nil
        BY <3>1, <3>5
      <4>3. QED
        BY <2>0, <4>1, <4>2, OneTask
    <3>8. Good(file, Seen(0))
      BY <3>2, <3>5, <3>6, <3>7 DEF Good, Here
    <3>9. QED
      BY <2>1, <3>8, Numbers DEF KeepInv
  <2>4. DoneInv
    <3>1. made[0].cron \subseteq Nat
      BY <2>0, OneTask DEF Task
    <3>2. QED
      BY <2>1, <3>1, Numbers DEF DoneInv
  <2>5. QED
    BY <2>2, <2>3, <2>4
<1>2. SchedInv /\ SchedInv' /\ DueInv /\ [Next]_vars => DueInv'
  <2> SUFFICES ASSUME SchedInv, SchedInv', DueInv, [Next]_vars, Quiet'
               PROVE  TimeInv' /\ KeepInv' /\ DoneInv'
    BY DEF DueInv
  <2>1. Quiet /\ QuietStep /\ UNCHANGED <<made, up>>
    BY QuietSteps
  <2>2. TimeInv /\ KeepInv /\ DoneInv
    BY <2>1 DEF DueInv
  <2>3. QED
    BY <2>1, <2>2, TimeKept, KeepKept, DoneKept
<1>3. SchedInv /\ DueInv => DueStarted
  <2> SUFFICES ASSUME SchedInv, Quiet, DueInv, NEW o \in made[0].cron,
                      Minute <= o, o + Minute <= now
               PROVE  \E k \in DOMAIN started[0] : started[0][k] \in o .. o + Minute - 1
    BY DEF DueStarted, Quiet
  <2>0. /\ now \in Nat /\ wake \in Nat /\ Minute \in Nat /\ Period \in Nat /\ Slack \in Nat
    BY Numbers DEF SchedInv, TypeOK
  <2>1. o \in Nat
    BY OneTask DEF Task
  <2>2. now <= wake + Slack /\ (wake < o + Period + Slack \/ Handled(o))
    BY DEF DueInv, TimeInv, DoneInv
  <2>3. Handled(o)
    BY <2>0, <2>1, <2>2
  <2>4. PICK t \in Runs(0) : o <= t /\ t < o + Minute
    BY <2>3 DEF Handled
  <2>5. PICK k \in DOMAIN started[0] : t = started[0][k]
    BY <2>4 DEF Runs
  <2>6. t \in Nat
    BY <2>5, Numbers DEF SchedInv, TypeOK
  <2>7. QED
    BY <2>0, <2>1, <2>4, <2>5, <2>6
<1>4. QED
  BY <1>1, <1>2, <1>3, SchedInvariant, PTL DEF Spec
==============================================================================
