--------------------------- MODULE SessionsProofs ---------------------------
(***************************************************************************)
(* Proofs about the session manager (module Sessions): its type invariant  *)
(* and the six safety properties of the run "sessions" hold for any finite *)
(* number of operations, of any kinds.                                     *)
(* The inductive invariant IInv has one part for each property, and one on *)
(* which they all rest, References.  An action is first reduced to what it *)
(* does to each task and to each loop (Moves, Over, ..., Writes, Makes);   *)
(* each part is then preserved by the steps so described, and mostly the   *)
(* parts do not need one another.                                          *)
(***************************************************************************)
EXTENDS Sessions, FiniteSetTheorems, TLAPS

(* The steps before a loop is built, those that need the loop, and those   *)
(* that hold its mutex.                                                    *)
Early  == {"idle", "permit", "lookup", "llm", "build"}
OnLoop ==
  {"touch", "register", "insert", "lock", "relock", "locked", "stepping"}
Holds  == {"locked", "stepping", "abort"}

(* The session never had two loops; nothing was removed while in use.      *)
Settled == raced \cap {"twice", "orphan"} = {}
NoOrphan == "orphan" \notin raced

(* What a task refers to exists; the loop a task may build is its own, and *)
(* is not built yet; only a change of the model goes by that kind.         *)
References ==
  /\ entry # Nil => loop[entry] # Nil
  /\ \A t \in Tasks :
       /\ mine[t] # Nil => loop[mine[t]] # Nil
       /\ pc[t] \in OnLoop \cup {"flag", "probe", "abort"} => mine[t] # Nil
       /\ pc[t] \in Early => loop[t] = Nil
       /\ pc[t] \in {"register", "insert"} => mine[t] = t
       /\ pc[t] = "build" => got[t] # Nil
       /\ pc[t] = "relock" => kind[t] = "scheduled"
       /\ kind[t] = "model" => pc[t] \in {"select", "replace", "swap", "lock"}
       /\ pc[t] \in {"select", "replace", "swap"} => kind[t] = "model"

(* A task at work on a loop holds its mutex, and a turn of a bot or of the *)
(* ACP server has the loop's output.                                       *)
Locks ==
  \A t \in Tasks :
    /\ pc[t] \in Holds => Mine(t).lock = t
    /\ pc[t] \in {"locked", "stepping"} /\ kind[t] \in {"chat", "acp"} =>
         Mine(t).output = t

(* While the session has had one loop, whoever uses a loop uses that one.  *)
Single ==
  Settled => \A t \in Tasks :
    pc[t] \in OnLoop \ {"register", "insert"} => mine[t] = entry

(* A loop is in the map, or about to be, only when its line is written.    *)
Listing ==
  NoOrphan =>
    /\ entry # Nil \/ (\E t \in Tasks : pc[t] = "insert")
         => line # Nil /\ line.path
    /\ \A t \in Tasks : pc[t] = "touch" => entry # Nil

(* A turn that a cancellation is aimed at runs on, has its flag set, or is *)
(* over: it does not begin again.                                          *)
Aims ==
  /\ \A t \in Tasks : \A u \in aimed[t] : pc[u] \in {"stepping", "leave", "done"}
  /\ Settled => \A t \in Tasks : \A u \in aimed[t] : Stepping(u) =>
       /\ pc[t] = "flag" => mine[u] = mine[t]
       /\ pc[t] \in {"probe", "abort", "remove", "clear"} => Mine(u).flag

(* A task writes to the transcript and the plan only once it steps, and    *)
(* what is erased was written by tasks that are past that.                 *)
Forgets ==
  /\ \A t \in Tasks :
       t \in file \/ plan = t => pc[t] \in {"stepping", "leave", "done"}
  /\ \A t \in Tasks : t \in erased => pc[t] \in {"leave", "done"}
  /\ NoOrphan =>
       /\ file \cap erased = {}
       /\ plan \in erased => \E t \in Tasks : pc[t] = "clear"
       /\ entry # Nil => loop[entry].memory \cap erased = {}
       /\ \A t \in Tasks : pc[t] \in OnLoop => Mine(t).memory \cap erased = {}

(* The change of the model has begun.                                      *)
Changing(t) == kind[t] = "model" /\ pc[t] \in {"replace", "swap", "lock"}

(* One change at a time, none while a loop is built; the loop in the map   *)
(* and the runtime have the model in force or the change will give it them. *)
Models ==
  "model" \notin raced =>
    /\ \A t, u \in Tasks : Changing(t) /\ Changing(u) => t = u
    /\ \A t \in Tasks : Changing(t) => llm = t
    /\ \A t \in Tasks : pc[t] \in Building =>
         /\ \A u \in Tasks : ~Changing(u)
         /\ pc[t] = "build" => got[t] = llm
         /\ pc[t] # "build" => loop[t].llm = llm
    /\ entry # Nil /\ loop[entry].llm # llm =>
         \E t \in Tasks : Changing(t) /\ (pc[t] = "lock" => mine[t] = entry)
    /\ runtime \notin {llm, Nil} =>
         \E t \in Tasks : kind[t] = "model" /\ pc[t] = "replace"

(* The inductive invariant.                                                *)
IInv ==
  /\ TypeOK /\ References /\ Locks /\ Single /\ Listing /\ Aims /\ Forgets
  /\ Models

-----------------------------------------------------------------------------
(* The operations that begin, the steps of the shell command and the ends  *)
(* of a stream, each as one case.                                          *)

Begins(t) ==
  \E k \in Kinds :
    /\ Dispatch(t, k) /\ guards' \subseteq guards
    /\ streams' \in {streams, streams \cup {t}}
    /\ cause' \in {cause} \cup {[cause EXCEPT ![t] = run] : run \in guards}

InShell(t) ==
  /\ pc[t] \in {"shell", "killing", "drain"}
  /\ \E l \in {"killing", "drain", "leave"} : Goto(t, l)
  /\ UNCHANGED <<managerVars, loop, storeVars, acpVars, localVars, historyVars>>

Closes(t) ==
  /\ Close(t) /\ t \in streams /\ gone' \in {gone, gone \cup {t}}
  /\ UNCHANGED <<managerVars, loop, storeVars, pc, localVars, historyVars>>

(* Next, action by action.                                                 *)
LEMMA NextCases ==
  ASSUME [Next]_vars
  PROVE  \/ UNCHANGED vars \/ AddTool
         \/ \E t \in Tasks :
              \/ Begins(t)
              \/ AcquirePermit(t)
              \/ Leave(t)
              \/ Lookup(t)
              \/ Touch(t)
              \/ GetLlm(t)
              \/ Build(t)
              \/ Register(t)
              \/ Insert(t)
              \/ LockAndReroute(t)
              \/ LockOnly(t)
              \/ Reroute(t)
              \/ Inspect(t)
              \/ LockTimesOut(t)
              \/ Relock(t)
              \/ StepBegins(t)
              \/ Plans(t)
              \/ StepEnds(t)
              \/ InShell(t)
              \/ CancelToken(t)
              \/ FindLoop(t)
              \/ Flag(t)
              \/ Probe(t)
              \/ Abort(t)
              \/ Remove(t)
              \/ ClearPlan(t)
              \/ SelectModel(t)
              \/ ReplaceRuntime(t)
              \/ FindForModel(t)
              \/ UpdateLlm(t)
              \/ Closes(t)
<1>1. ASSUME NEW t \in Tasks,
             \/ TelegramMessage(t) \/ DiscordMessage(t) \/ StopButton(t)
             \/ AcpRequest(t) \/ CliLine(t) \/ Execute(t)
             \/ RunScheduled(t) \/ DropGuard(t)
      PROVE  Begins(t)
  BY <1>1 DEF TelegramMessage, DiscordMessage, StopButton, AcpRequest, CliLine,
              Execute, RunScheduled, DropGuard, Begins, Dispatch
<1>2. ASSUME NEW t \in Tasks,
             ShellExits(t) \/ Kill(t) \/ Killed(t) \/ TimesOut(t) \/ ChildEnds(t)
      PROVE  InShell(t)
  BY <1>2 DEF ShellExits, Ended, Kill, Killed, TimesOut, ChildEnds, InShell
<1>3. ASSUME NEW t \in Tasks, StreamEnds(t) \/ Disconnect(t)
      PROVE  Closes(t)
  BY <1>3 DEF StreamEnds, Disconnect, Closes, acpVars
<1>4. CASE Next
  BY <1>1, <1>2, <1>3, <1>4
     DEF Next, Quiet, Run, Get, Take, Shell, Cancel, Model
<1>5. QED
  BY <1>4

(* Only a change of the model begins at select.                            *)
LEMMA FirstSteps ==
  ASSUME NEW k \in AllKinds
  PROVE  /\ FirstStep(k) \in {"permit", "lookup", "token", "select"}
         /\ FirstStep(k) = "select" <=> k = "model"
BY DEF FirstStep, AllKinds, Turns, Foreground, Cancels

-----------------------------------------------------------------------------
(* What the actions are made of, task by task and loop by loop.            *)

(* Other tasks are where they were.                                        *)
Others(t) ==
  \A u \in Tasks \ {t} :
    /\ pc'[u] = pc[u] /\ kind'[u] = kind[u] /\ mine'[u] = mine[u]
    /\ got'[u] = got[u] /\ aimed'[u] = aimed[u]

Moves(t, l) ==
  /\ Others(t)
  /\ pc'[t] = l /\ kind'[t] = kind[t] /\ mine'[t] = mine[t]
  /\ got'[t] = got[t] /\ aimed'[t] = aimed[t]

Over(t) ==
  /\ Others(t)
  /\ pc'[t] = "done" /\ kind'[t] = Nil /\ mine'[t] = Nil /\ got'[t] = Nil
  /\ aimed'[t] = {}

(* A task gets hold of a loop, or of a model.                              *)
Refers(t, l, x) ==
  /\ Others(t)
  /\ pc'[t] = l /\ mine'[t] = x
  /\ kind'[t] = kind[t] /\ got'[t] = got[t] /\ aimed'[t] = aimed[t]

Keeps(t, l, m) ==
  /\ Others(t)
  /\ pc'[t] = l /\ got'[t] = m
  /\ kind'[t] = kind[t] /\ mine'[t] = mine[t] /\ aimed'[t] = aimed[t]

(* cancel_session returns to a command.                                    *)
Returns(t) ==
  /\ Others(t)
  /\ pc'[t] \in {"clear", "remove"} /\ mine'[t] = Nil
  /\ kind[t] \in {"cancel_task", "new"} /\ kind'[t] = kind[t]
  /\ got'[t] = got[t] /\ aimed'[t] = aimed[t]

(* Going to another place changes nothing else of the tasks.               *)
LEMMA GotoEffect ==
  ASSUME TypeOK, NEW t \in Tasks, NEW l, Goto(t, l), UNCHANGED localVars
  PROVE  Moves(t, l)
BY DEF TypeOK, Goto, localVars, Moves, Others

(* Finish resets the task and leaves the others alone.                     *)
LEMMA FinishEffect ==
  ASSUME TypeOK, NEW t \in Tasks, Finish(t)
  PROVE  Over(t)
BY DEF TypeOK, Finish, Goto, Over, Others

(* A turn that is over drops its permit, if it has one, and is done.       *)
LEMMA QuitEffect ==
  ASSUME TypeOK, NEW t \in Tasks, Quit(t)
  PROVE  Over(t) \/ Moves(t, "leave")
BY FinishEffect, GotoEffect DEF Quit

(* Getting hold of a loop changes nothing else.                            *)
LEMMA ReferEffect ==
  ASSUME TypeOK, NEW t \in Tasks, NEW l, NEW m, Goto(t, l), Refer(t, m)
  PROVE  Refers(t, l, m)
BY DEF TypeOK, Goto, Refer, Refers, Others

(* Getting hold of a model changes nothing else.                           *)
LEMMA KeepEffect ==
  ASSUME TypeOK, NEW t \in Tasks, NEW l, NEW m, Goto(t, l), Keep(t, m)
  PROVE  Keeps(t, l, m)
BY DEF TypeOK, Goto, Keep, Keeps, Others

(* cancel_session returns to its caller, or to a command that goes on.     *)
LEMMA CancelledEffect ==
  ASSUME TypeOK, NEW t \in Tasks, Cancelled(t)
  PROVE  Over(t) \/ Returns(t)
BY FinishEffect, ReferEffect DEF Cancelled, Refers, Returns

(* A loop is changed, the others are not.                                  *)
Writes(t, l) ==
  /\ l \in Loop
  /\ loop' \in [Tasks -> Loop \cup {Nil}]
  /\ loop'[mine[t]] = l
  /\ \A x \in Tasks \ {mine[t]} : loop'[x] = loop[x]

(* The loop a task refers to is a loop.                                    *)
LEMMA MineIsLoop ==
  ASSUME TypeOK, References, NEW t \in Tasks, mine[t] # Nil
  PROVE  mine[t] \in Tasks /\ Mine(t) \in Loop
BY DEF TypeOK, References, Mine

(* Writing to the loop a task refers to changes no other loop.             *)
LEMMA SetEffect ==
  ASSUME TypeOK, References, NEW t \in Tasks, mine[t] # Nil,
         NEW l \in Loop, Set(t, l)
  PROVE  Writes(t, l)
BY MineIsLoop DEF TypeOK, Set, Writes

(* What is written to a loop: a mutex, a flag, ...                         *)
LEMMA Fields ==
  ASSUME NEW l \in Loop, NEW t \in Tasks
  PROVE  /\ [l EXCEPT !.lock = t] \in Loop
         /\ [l EXCEPT !.lock = Nil] \in Loop
         /\ [l EXCEPT !.output = t] \in Loop
         /\ [l EXCEPT !.lock = t, !.output = t] \in Loop
         /\ [l EXCEPT !.flag = TRUE] \in Loop
         /\ [l EXCEPT !.flag = FALSE] \in Loop
         /\ [l EXCEPT !.llm = t] \in Loop
         /\ \A turn \in {{}, {t}} :
              [l EXCEPT !.lock = Nil, !.memory = @ \cup turn] \in Loop
BY DEF Loop, Names

(* The four ways to lock a loop need it unlocked, and touch neither its    *)
(* flag nor its memory nor its model.                                      *)
LEMMA AcquireEffect ==
  ASSUME TypeOK, References, NEW t \in Tasks,
         LockAndReroute(t) \/ LockOnly(t) \/ Relock(t) \/ Reroute(t)
  PROVE  \E l \in Loop :
           /\ Writes(t, l)
           /\ Mine(t).lock = Nil
           /\ l.flag = Mine(t).flag /\ l.memory = Mine(t).memory
           /\ l.llm = Mine(t).llm
           /\ \/ /\ Moves(t, "locked") /\ l.lock = t
                 /\ \/ pc[t] = "lock" /\ kind[t] \in {"chat", "acp"} /\ l.output = t
                    \/ pc[t] = "lock" /\ kind[t] \in {"cli", "agent"}
                    \/ pc[t] = "relock"
              \/ /\ Moves(t, "relock") /\ l.lock = Nil
                 /\ pc[t] = "lock" /\ kind[t] = "scheduled"
<1>1. CASE LockAndReroute(t)
  <2>1. mine[t] # Nil
    BY <1>1 DEF LockAndReroute, LockFree, References, OnLoop
  <2> DEFINE l == [Mine(t) EXCEPT !.lock = t, !.output = t]
  <2>2. l \in Loop /\ Writes(t, l)
    BY <1>1, <2>1, MineIsLoop, Fields, SetEffect DEF LockAndReroute
  <2>3. /\ l.lock = t /\ l.output = t /\ l.flag = Mine(t).flag
        /\ l.memory = Mine(t).memory /\ l.llm = Mine(t).llm
    BY <2>1, MineIsLoop DEF Loop
  <2>4. Moves(t, "locked")
    BY <1>1, GotoEffect DEF LockAndReroute
  <2>5. QED
    BY <1>1, <2>2, <2>3, <2>4 DEF LockAndReroute, LockFree
<1>2. CASE LockOnly(t)
  <2>1. mine[t] # Nil
    BY <1>2 DEF LockOnly, LockFree, References, OnLoop
  <2> DEFINE l == [Mine(t) EXCEPT !.lock = t]
  <2>2. l \in Loop /\ Writes(t, l)
    BY <1>2, <2>1, MineIsLoop, Fields, SetEffect DEF LockOnly, Locked
  <2>3. /\ l.lock = t /\ l.flag = Mine(t).flag
        /\ l.memory = Mine(t).memory /\ l.llm = Mine(t).llm
    BY <2>1, MineIsLoop DEF Loop
  <2>4. Moves(t, "locked")
    BY <1>2, GotoEffect DEF LockOnly
  <2>5. QED
    BY <1>2, <2>2, <2>3, <2>4 DEF LockOnly, LockFree
<1>3. CASE Relock(t)
  <2>1. mine[t] # Nil
    BY <1>3 DEF Relock, References, OnLoop
  <2> DEFINE l == [Mine(t) EXCEPT !.lock = t]
  <2>2. l \in Loop /\ Writes(t, l)
    BY <1>3, <2>1, MineIsLoop, Fields, SetEffect DEF Relock, Locked
  <2>3. /\ l.lock = t /\ l.flag = Mine(t).flag
        /\ l.memory = Mine(t).memory /\ l.llm = Mine(t).llm
    BY <2>1, MineIsLoop DEF Loop
  <2>4. Moves(t, "locked")
    BY <1>3, GotoEffect DEF Relock
  <2>5. QED
    BY <1>3, <2>2, <2>3, <2>4 DEF Relock
<1>4. CASE Reroute(t)
  <2>1. mine[t] # Nil
    BY <1>4 DEF Reroute, LockFree, References, OnLoop
  <2> DEFINE l == [Mine(t) EXCEPT !.output = t]
  <2>2. l \in Loop /\ Writes(t, l)
    BY <1>4, <2>1, MineIsLoop, Fields, SetEffect DEF Reroute
  <2>3. /\ l.lock = Mine(t).lock /\ l.flag = Mine(t).flag
        /\ l.memory = Mine(t).memory /\ l.llm = Mine(t).llm
    BY <2>1, MineIsLoop DEF Loop
  <2>4. Moves(t, "relock")
    BY <1>4, GotoEffect DEF Reroute
  <2>5. QED
    BY <1>4, <2>2, <2>3, <2>4 DEF Reroute, LockFree
<1>5. QED
  BY <1>1, <1>2, <1>3, <1>4

(* step begins with the flag down and keeps the rest of the loop.          *)
LEMMA StepBeginsEffect ==
  ASSUME TypeOK, References, NEW t \in Tasks, StepBegins(t)
  PROVE  /\ pc[t] = "locked" /\ Moves(t, "stepping")
         /\ \E l \in Loop :
              /\ Writes(t, l)
              /\ l.flag = FALSE /\ l.lock = Mine(t).lock
              /\ l.output = Mine(t).output /\ l.memory = Mine(t).memory
              /\ l.llm = Mine(t).llm
<1>1. mine[t] # Nil
  BY DEF StepBegins, References, OnLoop
<1> DEFINE l == [Mine(t) EXCEPT !.flag = FALSE]
<1>2. l \in Loop /\ Writes(t, l)
  BY <1>1, MineIsLoop, Fields, SetEffect DEF StepBegins
<1>3. /\ l.flag = FALSE /\ l.lock = Mine(t).lock /\ l.output = Mine(t).output
      /\ l.memory = Mine(t).memory /\ l.llm = Mine(t).llm
  BY <1>1, MineIsLoop DEF Loop
<1>4. pc[t] = "locked" /\ Moves(t, "stepping")
  BY GotoEffect DEF StepBegins
<1>5. QED
  BY <1>2, <1>3, <1>4

(* step ends with the loop unlocked; only its own turn is added to the     *)
(* memory and to the transcript.                                           *)
LEMMA StepEndsEffect ==
  ASSUME TypeOK, References, NEW t \in Tasks, StepEnds(t)
  PROVE  /\ pc[t] = "stepping" /\ (Over(t) \/ Moves(t, "leave"))
         /\ file' \in {file, file \cup {t}}
         /\ \E l \in Loop :
              /\ Writes(t, l)
              /\ l.lock = Nil /\ l.flag = Mine(t).flag
              /\ l.output = Mine(t).output /\ l.llm = Mine(t).llm
              /\ l.memory \in {Mine(t).memory, Mine(t).memory \cup {t}}
<1>1. mine[t] # Nil
  BY DEF StepEnds, References, OnLoop
<1>2. PICK turn \in {{}, {t}} : \E saved \in {{}, turn} :
        /\ file' = file \cup saved
        /\ Set(t, [Mine(t) EXCEPT !.lock = Nil, !.memory = @ \cup turn])
  BY DEF StepEnds
<1> DEFINE l == [Mine(t) EXCEPT !.lock = Nil, !.memory = @ \cup turn]
<1>3. l \in Loop /\ Writes(t, l)
  BY <1>1, <1>2, MineIsLoop, Fields, SetEffect
<1>4. /\ l.lock = Nil /\ l.flag = Mine(t).flag /\ l.output = Mine(t).output
      /\ l.llm = Mine(t).llm /\ l.memory = Mine(t).memory \cup turn
  BY <1>1, MineIsLoop DEF Loop
<1>5. l.memory \in {Mine(t).memory, Mine(t).memory \cup {t}}
  BY <1>4
<1>6. file' \in {file, file \cup {t}}
  BY <1>2
<1>7. pc[t] = "stepping" /\ (Over(t) \/ Moves(t, "leave"))
  BY QuitEffect DEF StepEnds
<1>8. QED
  BY <1>3, <1>4, <1>5, <1>6, <1>7

(* cancel_session raises the flag and keeps the rest of the loop.          *)
LEMMA FlagEffect ==
  ASSUME TypeOK, References, NEW t \in Tasks, Flag(t)
  PROVE  /\ pc[t] = "flag" /\ Moves(t, "probe")
         /\ \E l \in Loop :
              /\ Writes(t, l)
              /\ l.flag = TRUE /\ l.lock = Mine(t).lock
              /\ l.output = Mine(t).output /\ l.memory = Mine(t).memory
              /\ l.llm = Mine(t).llm
<1>1. mine[t] # Nil
  BY DEF Flag, References
<1> DEFINE l == [Mine(t) EXCEPT !.flag = TRUE]
<1>2. l \in Loop /\ Writes(t, l)
  BY <1>1, MineIsLoop, Fields, SetEffect DEF Flag
<1>3. /\ l.flag = TRUE /\ l.lock = Mine(t).lock /\ l.output = Mine(t).output
      /\ l.memory = Mine(t).memory /\ l.llm = Mine(t).llm
  BY <1>1, MineIsLoop DEF Loop
<1>4. pc[t] = "flag" /\ Moves(t, "probe")
  BY GotoEffect DEF Flag
<1>5. QED
  BY <1>2, <1>3, <1>4

(* cancel_session takes the mutex of an idle loop, or returns.             *)
LEMMA ProbeEffect ==
  ASSUME TypeOK, References, NEW t \in Tasks, Probe(t)
  PROVE  /\ pc[t] = "probe"
         /\ \/ loop' = loop /\ Cancelled(t)
            \/ /\ Moves(t, "abort")
               /\ Mine(t).lock = Nil
               /\ \E l \in Loop :
                    /\ Writes(t, l)
                    /\ l.lock = t /\ l.flag = Mine(t).flag
                    /\ l.output = Mine(t).output /\ l.memory = Mine(t).memory
                    /\ l.llm = Mine(t).llm
<1>1. mine[t] # Nil /\ pc[t] = "probe"
  BY DEF Probe, References
<1>2. CASE Mine(t).lock # Nil
  BY <1>1, <1>2 DEF Probe
<1>3. CASE Mine(t).lock = Nil
  <2> DEFINE l == [Mine(t) EXCEPT !.lock = t]
  <2>1. l \in Loop /\ Writes(t, l)
    BY <1>1, <1>3, MineIsLoop, Fields, SetEffect DEF Probe, Locked
  <2>2. /\ l.lock = t /\ l.flag = Mine(t).flag /\ l.output = Mine(t).output
        /\ l.memory = Mine(t).memory /\ l.llm = Mine(t).llm
    BY <1>1, MineIsLoop DEF Loop
  <2>3. Moves(t, "abort")
    BY <1>3, GotoEffect DEF Probe
  <2>4. QED
    BY <1>1, <1>3, <2>1, <2>2, <2>3
<1>4. QED
  BY <1>2, <1>3

(* cancel_session gives the mutex back.                                    *)
LEMMA AbortEffect ==
  ASSUME TypeOK, References, NEW t \in Tasks, Abort(t)
  PROVE  /\ pc[t] = "abort" /\ Cancelled(t)
         /\ \E l \in Loop :
              /\ Writes(t, l)
              /\ l.lock = Nil /\ l.flag = Mine(t).flag
              /\ l.output = Mine(t).output /\ l.memory = Mine(t).memory
              /\ l.llm = Mine(t).llm
<1>1. mine[t] # Nil /\ pc[t] = "abort" /\ Cancelled(t)
  BY DEF Abort, References
<1> DEFINE l == [Mine(t) EXCEPT !.lock = Nil]
<1>2. l \in Loop /\ Writes(t, l)
  BY <1>1, MineIsLoop, Fields, SetEffect DEF Abort
<1>3. /\ l.lock = Nil /\ l.flag = Mine(t).flag /\ l.output = Mine(t).output
      /\ l.memory = Mine(t).memory /\ l.llm = Mine(t).llm
  BY <1>1, MineIsLoop DEF Loop
<1>4. QED
  BY <1>1, <1>2, <1>3

(* update_session_llm changes the model of the loop and nothing else.      *)
LEMMA UpdateLlmEffect ==
  ASSUME TypeOK, References, NEW t \in Tasks, UpdateLlm(t)
  PROVE  /\ pc[t] = "lock" /\ kind[t] = "model" /\ Over(t)
         /\ \E l \in Loop :
              /\ Writes(t, l)
              /\ l.llm = t /\ l.lock = Mine(t).lock /\ l.flag = Mine(t).flag
              /\ l.output = Mine(t).output /\ l.memory = Mine(t).memory
<1>1. mine[t] # Nil
  BY DEF UpdateLlm, References, OnLoop
<1> DEFINE l == [Mine(t) EXCEPT !.llm = t]
<1>2. l \in Loop /\ Writes(t, l)
  BY <1>1, MineIsLoop, Fields, SetEffect DEF UpdateLlm
<1>3. /\ l.llm = t /\ l.lock = Mine(t).lock /\ l.flag = Mine(t).flag
      /\ l.output = Mine(t).output /\ l.memory = Mine(t).memory
  BY <1>1, MineIsLoop DEF Loop
<1>4. pc[t] = "lock" /\ kind[t] = "model" /\ Over(t)
  BY FinishEffect DEF UpdateLlm
<1>5. QED
  BY <1>2, <1>3, <1>4

(* A loop is built, and its name was free.                                 *)
Makes(t) ==
  /\ loop' \in [Tasks -> Loop \cup {Nil}]
  /\ \A x \in Tasks \ {t} : loop'[x] = loop[x]
  /\ loop'[t] \in Loop
  /\ loop'[t].lock = Nil /\ loop'[t].memory = file /\ loop'[t].llm = got[t]

(* get_or_create_session builds a loop, its name was free, or gives up.    *)
LEMMA BuildEffect ==
  ASSUME TypeOK, References, NEW t \in Tasks, Build(t)
  PROVE  /\ pc[t] = "build" /\ loop[t] = Nil
         /\ runtime' = IF runtime = Nil THEN got[t] ELSE runtime
         /\ \/ (Over(t) \/ Moves(t, "leave")) /\ loop' = loop
            \/ Refers(t, "register", t) /\ Makes(t)
<1> DEFINE new == [lock |-> Nil, flag |-> FALSE, output |-> t,
                   memory |-> file, llm |-> got[t], tools |-> tooled]
<1>1. pc[t] = "build" /\ loop[t] = Nil /\ got[t] \in Names
  BY DEF Build, References, Early, TypeOK
<1>2. new \in Loop
  BY <1>1 DEF TypeOK, Loop
<1>3. CASE Quit(t) /\ UNCHANGED loop
  BY <1>1, <1>3, QuitEffect DEF Build
<1>4. CASE loop' = [loop EXCEPT ![t] = new] /\ Refer(t, t) /\ Goto(t, "register")
  <2>1. Makes(t)
    BY <1>2, <1>4 DEF TypeOK, Makes
  <2>2. Refers(t, "register", t)
    BY <1>4, ReferEffect
  <2>3. runtime' = IF runtime = Nil THEN got[t] ELSE runtime
    BY DEF Build
  <2>4. QED
    BY <1>1, <2>1, <2>2, <2>3
<1>5. QED
  BY <1>3, <1>4 DEF Build

(* An operation begins.                                                    *)
LEMMA BeginsEffect ==
  ASSUME TypeOK, NEW t \in Tasks, Begins(t)
  PROVE  /\ pc[t] = "idle" /\ Others(t)
         /\ mine'[t] = mine[t] /\ got'[t] = got[t] /\ kind'[t] \in AllKinds
         /\ pc'[t] \in {"permit", "lookup", "token", "select"}
         /\ pc'[t] = "select" <=> kind'[t] = "model"
         /\ aimed'[t] \in {aimed[t], {u \in Tasks : Stepping(u)}}
         /\ UNCHANGED <<managerVars, loop, storeVars, historyVars>>
<1>1. PICK k \in Kinds : Dispatch(t, k)
  BY DEF Begins
<1>2. k \in AllKinds
  BY SessionsAssumption
<1>3. /\ FirstStep(k) \in {"permit", "lookup", "token", "select"}
      /\ FirstStep(k) = "select" <=> k = "model"
  BY <1>2, FirstSteps
<1>4. /\ \A u \in Tasks \ {t} : pc'[u] = pc[u] /\ kind'[u] = kind[u]
      /\ pc'[t] = FirstStep(k) /\ kind'[t] = k
  BY <1>1 DEF TypeOK, Dispatch, Goto
<1>5. /\ \A u \in Tasks \ {t} : aimed'[u] = aimed[u]
      /\ aimed'[t] \in {aimed[t], {u \in Tasks : Stepping(u)}}
  BY <1>1 DEF TypeOK, Dispatch
<1>6. QED
  BY <1>1, <1>2, <1>3, <1>4, <1>5 DEF Dispatch, Others

-----------------------------------------------------------------------------
(* The steps of the tasks.                                                 *)

(* add_tool.                                                               *)
ToolStep ==
  /\ runtime' = llm
  /\ UNCHANGED <<entry, loop, line, file, plan, erased, raced, llm, pc, kind,
                 mine, got, aimed>>

(* An operation begins.                                                    *)
OpenStep(t) ==
  /\ pc[t] = "idle" /\ Others(t)
  /\ mine'[t] = mine[t] /\ got'[t] = got[t] /\ kind'[t] \in AllKinds
  /\ pc'[t] \in {"permit", "lookup", "token", "select"}
  /\ pc'[t] = "select" <=> kind'[t] = "model"
  /\ aimed'[t] \in {aimed[t], {u \in Tasks : Stepping(u)}}
  /\ UNCHANGED <<entry, loop, line, file, plan, erased, raced, llm, runtime>>

PermitStep(t) ==
  /\ pc[t] = "permit"
  /\ Over(t) \/ Moves(t, "shell") \/ Moves(t, "lookup")
  /\ UNCHANGED <<entry, loop, line, file, plan, erased, raced, llm,
                 runtime>>

LeaveStep(t) ==
  /\ pc[t] = "leave" /\ Over(t)
  /\ UNCHANGED <<entry, loop, line, file, plan, erased, raced, llm,
                 runtime>>

LookupStep(t) ==
  /\ pc[t] = "lookup"
  /\ \/ entry # Nil /\ Refers(t, "touch", entry)
     \/ entry = Nil /\ Moves(t, "llm")
  /\ UNCHANGED <<entry, loop, line, file, plan, erased, raced, llm,
                 runtime>>

TouchStep(t) ==
  /\ pc[t] = "touch" /\ Moves(t, "lock")
  /\ line' = IF line = Nil THEN [path |-> FALSE, turns |-> 0] ELSE line
  /\ UNCHANGED <<entry, loop, file, plan, erased, raced, llm, runtime>>

GetLlmStep(t) ==
  /\ pc[t] = "llm"
  /\ \/ /\ Over(t) \/ Moves(t, "leave")
        /\ raced' = raced
     \/ /\ llm # Nil /\ Keeps(t, "build", llm)
        /\ raced' = IF \E u \in Tasks : ChangesModel(u)
                    THEN raced \cup {"model"} ELSE raced
  /\ UNCHANGED <<entry, loop, line, file, plan, erased, llm, runtime>>

BuildStep(t) ==
  /\ pc[t] = "build" /\ loop[t] = Nil
  /\ runtime' = IF runtime = Nil THEN got[t] ELSE runtime
  /\ \/ (Over(t) \/ Moves(t, "leave")) /\ loop' = loop
     \/ /\ Refers(t, "register", t)
        /\ Makes(t)
  /\ UNCHANGED <<entry, line, file, plan, erased, raced, llm>>

RegisterStep(t) ==
  /\ pc[t] = "register" /\ Moves(t, "insert")
  /\ line' = [path |-> TRUE, turns |-> Cardinality(Mine(t).memory)]
  /\ UNCHANGED <<entry, loop, file, plan, erased, raced, llm, runtime>>

InsertStep(t) ==
  /\ pc[t] = "insert" /\ Keeps(t, "lock", Nil)
  /\ entry' = mine[t]
  /\ raced' = IF entry = Nil THEN raced ELSE raced \cup {"twice"}
  /\ UNCHANGED <<loop, line, file, plan, erased, llm, runtime>>

(* The mutex of a loop is taken, for a turn or to reroute its output.        *)
LockStep(t) ==
  /\ Mine(t).lock = Nil
  /\ \E l \in Loop :
       /\ Writes(t, l)
       /\ l.flag = Mine(t).flag /\ l.memory = Mine(t).memory
       /\ l.llm = Mine(t).llm
       /\ \/ /\ Moves(t, "locked") /\ l.lock = t
             /\ \/ pc[t] = "lock" /\ kind[t] \in {"chat", "acp"} /\ l.output = t
                \/ pc[t] = "lock" /\ kind[t] \in {"cli", "agent"}
                \/ pc[t] = "relock"
          \/ /\ Moves(t, "relock") /\ l.lock = Nil
             /\ pc[t] = "lock" /\ kind[t] = "scheduled"
  /\ UNCHANGED <<entry, line, file, plan, erased, raced, llm, runtime>>

GiveUpStep(t) ==
  /\ pc[t] = "lock" /\ kind[t] \in {"command", "chat"}
  /\ Over(t) \/ Moves(t, "leave")
  /\ UNCHANGED <<entry, loop, line, file, plan, erased, raced, llm,
                 runtime>>

BeginStep(t) ==
  /\ pc[t] = "locked" /\ Moves(t, "stepping")
  /\ \E l \in Loop :
       /\ Writes(t, l)
       /\ l.flag = FALSE /\ l.lock = Mine(t).lock /\ l.output = Mine(t).output
       /\ l.memory = Mine(t).memory /\ l.llm = Mine(t).llm
  /\ UNCHANGED <<entry, line, file, plan, erased, raced, llm, runtime>>

PlanStep(t) ==
  /\ pc[t] = "stepping" /\ Moves(t, "stepping")
  /\ plan' = t
  /\ UNCHANGED <<entry, loop, line, file, erased, raced, llm, runtime>>

EndStep(t) ==
  /\ pc[t] = "stepping" /\ (Over(t) \/ Moves(t, "leave"))
  /\ file' \in {file, file \cup {t}}
  /\ \E l \in Loop :
       /\ Writes(t, l)
       /\ l.lock = Nil /\ l.flag = Mine(t).flag
       /\ l.output = Mine(t).output /\ l.llm = Mine(t).llm
       /\ l.memory \in {Mine(t).memory, Mine(t).memory \cup {t}}
  /\ UNCHANGED <<entry, line, plan, erased, raced, llm, runtime>>

ShellStep(t) ==
  /\ pc[t] \in {"shell", "killing", "drain"}
  /\ \E l \in {"killing", "drain", "leave"} : Moves(t, l)
  /\ UNCHANGED <<entry, loop, line, file, plan, erased, raced, llm,
                 runtime>>

TokenStep(t) ==
  /\ pc[t] = "token" /\ Moves(t, "find")
  /\ UNCHANGED <<entry, loop, line, file, plan, erased, raced, llm,
                 runtime>>

FindStep(t) ==
  /\ pc[t] = "find"
  /\ \/ entry = Nil /\ (Over(t) \/ Returns(t))
     \/ entry # Nil /\ Refers(t, "flag", entry)
  /\ UNCHANGED <<entry, loop, line, file, plan, erased, raced, llm,
                 runtime>>

FlagStep(t) ==
  /\ pc[t] = "flag" /\ Moves(t, "probe")
  /\ \E l \in Loop :
       /\ Writes(t, l)
       /\ l.flag = TRUE /\ l.lock = Mine(t).lock /\ l.output = Mine(t).output
       /\ l.memory = Mine(t).memory /\ l.llm = Mine(t).llm
  /\ UNCHANGED <<entry, line, file, plan, erased, raced, llm, runtime>>

ProbeStep(t) ==
  /\ pc[t] = "probe"
  /\ \/ loop' = loop /\ (Over(t) \/ Returns(t))
     \/ /\ Moves(t, "abort") /\ Mine(t).lock = Nil
        /\ \E l \in Loop :
             /\ Writes(t, l)
             /\ l.lock = t /\ l.flag = Mine(t).flag
             /\ l.output = Mine(t).output /\ l.memory = Mine(t).memory
             /\ l.llm = Mine(t).llm
  /\ UNCHANGED <<entry, line, file, plan, erased, raced, llm, runtime>>

AbortStep(t) ==
  /\ pc[t] = "abort" /\ (Over(t) \/ Returns(t))
  /\ \E l \in Loop :
       /\ Writes(t, l)
       /\ l.lock = Nil /\ l.flag = Mine(t).flag /\ l.output = Mine(t).output
       /\ l.memory = Mine(t).memory /\ l.llm = Mine(t).llm
  /\ UNCHANGED <<entry, line, file, plan, erased, raced, llm, runtime>>

RemoveStep(t) ==
  /\ pc[t] = "remove" /\ Moves(t, "clear")
  /\ entry' = Nil /\ line' = Nil /\ file' = {}
  /\ IF \E u \in Tasks : InUse(u)
     THEN raced' = raced \cup {"orphan"} /\ erased' = erased
     ELSE /\ erased' = erased \cup file \cup ({plan} \ {Nil})
          /\ raced' = raced
  /\ UNCHANGED <<loop, plan, llm, runtime>>

ClearStep(t) ==
  /\ pc[t] = "clear" /\ Over(t)
  /\ plan' = Nil
  /\ UNCHANGED <<entry, loop, line, file, erased, raced, llm, runtime>>

SelectStep(t) ==
  /\ pc[t] = "select" /\ Moves(t, "replace")
  /\ llm' = t
  /\ raced' = IF \E u \in Tasks \ {t} : pc[u] \in Building \/ ChangesModel(u)
               THEN raced \cup {"model"} ELSE raced
  /\ UNCHANGED <<entry, loop, line, file, plan, erased, runtime>>

ReplaceStep(t) ==
  /\ pc[t] = "replace" /\ Moves(t, "swap")
  /\ runtime' = t
  /\ UNCHANGED <<entry, loop, line, file, plan, erased, raced, llm>>

SwapStep(t) ==
  /\ pc[t] = "swap"
  /\ \/ entry = Nil /\ Over(t)
     \/ entry # Nil /\ Refers(t, "lock", entry)
  /\ UNCHANGED <<entry, loop, line, file, plan, erased, raced, llm,
                 runtime>>

UpdateStep(t) ==
  /\ pc[t] = "lock" /\ kind[t] = "model" /\ Over(t)
  /\ \E l \in Loop :
       /\ Writes(t, l)
       /\ l.llm = t /\ l.lock = Mine(t).lock /\ l.flag = Mine(t).flag
       /\ l.output = Mine(t).output /\ l.memory = Mine(t).memory
  /\ UNCHANGED <<entry, line, file, plan, erased, raced, llm, runtime>>

CloseStep(t) ==
  /\ Moves(t, pc[t])
  /\ UNCHANGED <<entry, loop, line, file, plan, erased, raced, llm,
                 runtime>>

(* The next-state relation, task by task.                                  *)
Steps ==
  \/ UNCHANGED vars \/ ToolStep
  \/ \E t \in Tasks :
       \/ OpenStep(t)
       \/ PermitStep(t)
       \/ LeaveStep(t)
       \/ LookupStep(t)
       \/ TouchStep(t)
       \/ GetLlmStep(t)
       \/ BuildStep(t)
       \/ RegisterStep(t)
       \/ InsertStep(t)
       \/ LockStep(t)
       \/ GiveUpStep(t)
       \/ BeginStep(t)
       \/ PlanStep(t)
       \/ EndStep(t)
       \/ ShellStep(t)
       \/ TokenStep(t)
       \/ FindStep(t)
       \/ FlagStep(t)
       \/ ProbeStep(t)
       \/ AbortStep(t)
       \/ RemoveStep(t)
       \/ ClearStep(t)
       \/ SelectStep(t)
       \/ ReplaceStep(t)
       \/ SwapStep(t)
       \/ UpdateStep(t)
       \/ CloseStep(t)

(* Every step of the system is one of these.                               *)
LEMMA NextSteps ==
  ASSUME TypeOK, References, [Next]_vars
  PROVE  Steps
<1> USE DEF managerVars, storeVars, acpVars, historyVars
<1>1. AddTool => ToolStep
  BY DEF AddTool, ToolStep, localVars
<1>2. ASSUME NEW t \in Tasks, Begins(t)
      PROVE  OpenStep(t)
  BY <1>2, BeginsEffect DEF OpenStep
<1>3. ASSUME NEW t \in Tasks, AcquirePermit(t)
      PROVE  PermitStep(t)
  BY <1>3, FinishEffect, GotoEffect DEF AcquirePermit, PermitStep
<1>4. ASSUME NEW t \in Tasks, Leave(t)
      PROVE  LeaveStep(t)
  BY <1>4, FinishEffect DEF Leave, LeaveStep
<1>5. ASSUME NEW t \in Tasks, Lookup(t)
      PROVE  LookupStep(t)
  BY <1>5, ReferEffect, GotoEffect DEF Lookup, LookupStep, Refers
<1>6. ASSUME NEW t \in Tasks, Touch(t)
      PROVE  TouchStep(t)
  BY <1>6, GotoEffect DEF Touch, TouchStep
<1>7. ASSUME NEW t \in Tasks, GetLlm(t)
      PROVE  GetLlmStep(t)
  BY <1>7, QuitEffect, KeepEffect DEF GetLlm, GetLlmStep, Keeps
<1>8. ASSUME NEW t \in Tasks, Build(t)
      PROVE  BuildStep(t)
  BY <1>8, BuildEffect DEF Build, BuildStep, Refers, Makes
<1>9. ASSUME NEW t \in Tasks, Register(t)
      PROVE  RegisterStep(t)
  BY <1>9, GotoEffect DEF Register, RegisterStep
<1>10. ASSUME NEW t \in Tasks, Insert(t)
      PROVE  InsertStep(t)
  BY <1>10, KeepEffect DEF Insert, InsertStep, Keeps
<1>11. ASSUME NEW t \in Tasks, LockAndReroute(t) \/ LockOnly(t) \/ Relock(t) \/ Reroute(t)
      PROVE  LockStep(t)
  BY <1>11, AcquireEffect
     DEF LockAndReroute, LockOnly, Relock, Reroute, LockStep
<1>12. ASSUME NEW t \in Tasks, Inspect(t) \/ LockTimesOut(t)
      PROVE  GiveUpStep(t)
  BY <1>12, FinishEffect, QuitEffect
     DEF Inspect, LockTimesOut, GiveUpStep, LockFree
<1>13. ASSUME NEW t \in Tasks, StepBegins(t)
      PROVE  BeginStep(t)
  BY <1>13, StepBeginsEffect DEF StepBegins, BeginStep
<1>14. ASSUME NEW t \in Tasks, Plans(t)
      PROVE  PlanStep(t)
  BY <1>14 DEF Plans, PlanStep, localVars, Moves, Others
<1>15. ASSUME NEW t \in Tasks, StepEnds(t)
      PROVE  EndStep(t)
  BY <1>15, StepEndsEffect DEF StepEnds, EndStep
<1>16. ASSUME NEW t \in Tasks, InShell(t)
      PROVE  ShellStep(t)
  BY <1>16, GotoEffect DEF InShell, ShellStep
<1>17. ASSUME NEW t \in Tasks, CancelToken(t)
      PROVE  TokenStep(t)
  BY <1>17, GotoEffect DEF CancelToken, TokenStep
<1>18. ASSUME NEW t \in Tasks, FindLoop(t)
      PROVE  FindStep(t)
  BY <1>18, CancelledEffect, ReferEffect
     DEF FindLoop, FindStep, Refers, Returns
<1>19. ASSUME NEW t \in Tasks, Flag(t)
      PROVE  FlagStep(t)
  BY <1>19, FlagEffect DEF Flag, FlagStep
<1>20. ASSUME NEW t \in Tasks, Probe(t)
      PROVE  ProbeStep(t)
  BY <1>20, ProbeEffect, CancelledEffect DEF Probe, ProbeStep, Returns
<1>21. ASSUME NEW t \in Tasks, Abort(t)
      PROVE  AbortStep(t)
  BY <1>21, AbortEffect, CancelledEffect DEF Abort, AbortStep, Returns
<1>22. ASSUME NEW t \in Tasks, Remove(t)
      PROVE  RemoveStep(t)
  BY <1>22, GotoEffect DEF Remove, RemoveStep
<1>23. ASSUME NEW t \in Tasks, ClearPlan(t)
      PROVE  ClearStep(t)
  BY <1>23, FinishEffect DEF ClearPlan, ClearStep
<1>24. ASSUME NEW t \in Tasks, SelectModel(t)
      PROVE  SelectStep(t)
  BY <1>24, GotoEffect DEF SelectModel, SelectStep
<1>25. ASSUME NEW t \in Tasks, ReplaceRuntime(t)
      PROVE  ReplaceStep(t)
  BY <1>25, GotoEffect DEF ReplaceRuntime, ReplaceStep
<1>26. ASSUME NEW t \in Tasks, FindForModel(t)
      PROVE  SwapStep(t)
  BY <1>26, FinishEffect, ReferEffect DEF FindForModel, SwapStep, Refers
<1>27. ASSUME NEW t \in Tasks, UpdateLlm(t)
      PROVE  UpdateStep(t)
  BY <1>27, UpdateLlmEffect DEF UpdateLlm, UpdateStep
<1>28. ASSUME NEW t \in Tasks, Closes(t)
      PROVE  CloseStep(t)
  BY <1>28 DEF Closes, CloseStep, localVars, Moves, Others
<1>z. QED
  BY NextCases, <1>1, <1>2, <1>3, <1>4, <1>5, <1>6, <1>7, <1>8, <1>9, <1>10,
     <1>11, <1>12, <1>13, <1>14, <1>15, <1>16, <1>17, <1>18, <1>19, <1>20,
     <1>21, <1>22, <1>23, <1>24, <1>25, <1>26, <1>27, <1>28 DEF Steps

(* Nil is no task, no kind of operation, no loop and no line.              *)
LEMMA NilApart ==
  /\ Nil \notin Names /\ Nil \notin Loop /\ Nil \notin Line
  /\ Nil \notin {"model", "scheduled", "chat", "acp", "cancel_task", "new"}
BY SessionsAssumption DEF Names, AllKinds, Turns, Cancels

(* What a loop remembers can be counted.                                   *)
LEMMA MemoryCounted ==
  ASSUME NEW l \in Loop
  PROVE  Cardinality(l.memory) \in Nat
<1>1. IsFiniteSet(Tasks \cup {Old})
  BY SessionsAssumption, FS_AddElement
<1>2. l.memory \subseteq Tasks \cup {Old}
  BY DEF Loop, Names
<1>3. QED
  BY <1>1, <1>2, FS_Subset, FS_CardinalityType

(* A line that is registered has the transcript's path.                    *)
LEMMA LineMade ==
  ASSUME NEW n \in Nat, NEW l, l = [path |-> TRUE, turns |-> n]
  PROVE  l \in Line /\ l.path
<1>1. l \in Line
  BY DEF Line
<1>2. l.path = TRUE
  OBVIOUS
<1>3. QED
  BY <1>1, <1>2

-----------------------------------------------------------------------------
(* The type invariant, in three parts: the tasks' places, the loops, and   *)
(* the state of the manager, the store and the streams.                    *)
TaskTypes ==
  /\ kind \in [Tasks -> AllKinds \cup {Nil}] /\ pc \in [Tasks -> Pc]
  /\ {mine, cause} \subseteq [Tasks -> Tasks \cup {Nil}]
  /\ got \in [Tasks -> Names \cup {Nil}]
  /\ aimed \in [Tasks -> SUBSET Tasks]

LoopTypes == loop \in [Tasks -> Loop \cup {Nil}]

StateTypes ==
  /\ tooled \in BOOLEAN
  /\ {llm, runtime} \subseteq Names \cup {Nil}
  /\ {entry, permit} \subseteq Tasks \cup {Nil} /\ tokens \subseteq Tasks
  /\ line \in Line \cup {Nil} /\ file \subseteq Names
  /\ plan \in Names \cup {Nil}
  /\ {streams, guards, gone} \subseteq SUBSET Tasks
  /\ erased \subseteq Names /\ raced \subseteq {"twice", "orphan", "model"}

(* The parts make up the type invariant.                                   *)
LEMMA TypeParts == TypeOK <=> TaskTypes /\ LoopTypes /\ StateTypes
BY DEF TypeOK, TaskTypes, LoopTypes, StateTypes

(* A task that moves is well typed.                                        *)
LEMMA GotoType ==
  ASSUME TaskTypes, NEW t \in Tasks, NEW l \in Pc, Goto(t, l),
         UNCHANGED localVars
  PROVE  TaskTypes'
BY DEF TaskTypes, Goto, localVars

(* A task that ends is well typed.                                         *)
LEMMA FinishType ==
  ASSUME TaskTypes, NEW t \in Tasks, Finish(t)
  PROVE  TaskTypes'
BY DEF TaskTypes, Finish, Goto, Pc

(* A turn that quits is well typed.                                        *)
LEMMA QuitType ==
  ASSUME TaskTypes, NEW t \in Tasks, Quit(t)
  PROVE  TaskTypes'
<1>1. "leave" \in Pc
  BY DEF Pc
<1>2. QED
  BY <1>1, GotoType, FinishType DEF Quit

(* A task that gets hold of a loop is well typed.                          *)
LEMMA ReferType ==
  ASSUME TaskTypes, NEW t \in Tasks, NEW l \in Pc, NEW x \in Tasks \cup {Nil},
         Goto(t, l), Refer(t, x)
  PROVE  TaskTypes'
BY DEF TaskTypes, Goto, Refer

(* A task that gets hold of a model is well typed.                         *)
LEMMA KeepType ==
  ASSUME TaskTypes, NEW t \in Tasks, NEW l \in Pc, NEW m \in Names \cup {Nil},
         Goto(t, l), Keep(t, m)
  PROVE  TaskTypes'
BY DEF TaskTypes, Goto, Keep

(* A cancellation that returns leaves its task well typed.                 *)
LEMMA CancelledType ==
  ASSUME TaskTypes, NEW t \in Tasks, Cancelled(t)
  PROVE  TaskTypes'
<1>1. {"clear", "remove"} \subseteq Pc
  BY DEF Pc
<1>2. QED
  BY <1>1, ReferType, FinishType DEF Cancelled

(* An operation that begins is well typed.                                 *)
LEMMA BeginsType ==
  ASSUME TaskTypes, StateTypes, NEW t \in Tasks, Begins(t)
  PROVE  TaskTypes'
<1>1. PICK k \in Kinds : Dispatch(t, k)
  BY DEF Begins
<1>2. k \in AllKinds /\ FirstStep(k) \in Pc
  BY FirstSteps, SessionsAssumption DEF Pc
<1>3. kind' \in [Tasks -> AllKinds \cup {Nil}] /\ pc' \in [Tasks -> Pc]
  BY <1>1, <1>2 DEF TaskTypes, Dispatch, Goto
<1>4. mine' = mine /\ got' = got
  BY <1>1 DEF Dispatch
<1>5. aimed' \in [Tasks -> SUBSET Tasks]
  BY <1>1 DEF TaskTypes, Dispatch
<1>6. cause' \in [Tasks -> Tasks \cup {Nil}]
  BY DEF TaskTypes, StateTypes, Begins
<1>7. QED
  BY <1>3, <1>4, <1>5, <1>6 DEF TaskTypes

TypesKept == TaskTypes' /\ LoopTypes' /\ StateTypes'

(* Every step keeps the type invariant.                                    *)
LEMMA TypeStep ==
  ASSUME TypeOK, References, [Next]_vars
  PROVE  TypeOK'
<1>a. TaskTypes
  BY TypeParts
<1>b. LoopTypes
  BY TypeParts
<1>c. StateTypes
  BY TypeParts
<1> USE <1>a
<1> USE DEF managerVars, storeVars, acpVars, historyVars
<1>1. CASE UNCHANGED vars
  BY <1>1 DEF vars, localVars, TypeOK
<1>2. CASE AddTool
  BY <1>2 DEF AddTool, localVars, TypeOK
<1>3. ASSUME NEW t \in Tasks, Begins(t)
      PROVE  TypesKept
  <2>1. TaskTypes'
    BY <1>3, <1>c, BeginsType
  <2>2. LoopTypes' /\ StateTypes'
    BY <1>3, <1>b, <1>c DEF Begins, Dispatch, LoopTypes, StateTypes
  <2>3. QED
    BY <2>1, <2>2 DEF TypesKept
<1>4. ASSUME NEW t \in Tasks, AcquirePermit(t)
      PROVE  TypesKept
  <2>1. TaskTypes'
    BY <1>4, GotoType, FinishType DEF AcquirePermit, Pc
  <2>2. LoopTypes'
    BY <1>4, <1>b DEF AcquirePermit, LoopTypes
  <2>3. StateTypes'
    BY <1>4, <1>c DEF AcquirePermit, StateTypes
  <2>4. QED
    BY <2>1, <2>2, <2>3 DEF TypesKept
<1>5. ASSUME NEW t \in Tasks, Leave(t)
      PROVE  TypesKept
  <2>1. TaskTypes'
    BY <1>5, FinishType DEF Leave, Pc
  <2>2. LoopTypes'
    BY <1>5, <1>b DEF Leave, LoopTypes
  <2>3. StateTypes'
    BY <1>5, <1>c DEF Leave, StateTypes
  <2>4. QED
    BY <2>1, <2>2, <2>3 DEF TypesKept
<1>6. ASSUME NEW t \in Tasks, Lookup(t)
      PROVE  TypesKept
  <2>1. TaskTypes'
    BY <1>6, <1>c, GotoType, ReferType DEF Lookup, Pc, StateTypes
  <2>2. LoopTypes'
    BY <1>6, <1>b DEF Lookup, LoopTypes
  <2>3. StateTypes'
    BY <1>6, <1>c DEF Lookup, StateTypes
  <2>4. QED
    BY <2>1, <2>2, <2>3 DEF TypesKept
<1>7. ASSUME NEW t \in Tasks, Touch(t)
      PROVE  TypesKept
  <2>1. TaskTypes'
    BY <1>7, GotoType DEF Touch, Pc
  <2>2. LoopTypes'
    BY <1>7, <1>b DEF Touch, LoopTypes
  <2>3. StateTypes'
    BY <1>7, <1>c DEF Touch, StateTypes, Line
  <2>4. QED
    BY <2>1, <2>2, <2>3 DEF TypesKept
<1>8. ASSUME NEW t \in Tasks, GetLlm(t)
      PROVE  TypesKept
  <2>1. TaskTypes'
    BY <1>8, <1>c, QuitType, KeepType DEF GetLlm, Pc, StateTypes, Names
  <2>2. LoopTypes'
    BY <1>8, <1>b DEF GetLlm, LoopTypes
  <2>3. StateTypes'
    BY <1>8, <1>c DEF GetLlm, StateTypes
  <2>4. QED
    BY <2>1, <2>2, <2>3 DEF TypesKept
<1>9. ASSUME NEW t \in Tasks, Build(t)
      PROVE  TypesKept
  <2>1. TaskTypes'
    BY <1>9, <1>c, QuitType, ReferType DEF Build, Pc, StateTypes
  <2>2. LoopTypes'
    BY <1>9, <1>b, BuildEffect DEF LoopTypes, Writes, Makes, Build
  <2>3. StateTypes'
    BY <1>9, <1>c DEF Build, StateTypes, TaskTypes
  <2>4. QED
    BY <2>1, <2>2, <2>3 DEF TypesKept
<1>10. ASSUME NEW t \in Tasks, Register(t)
      PROVE  TypesKept
  <2>1. TaskTypes'
    BY <1>10, GotoType DEF Register, Pc
  <2>2. LoopTypes'
    BY <1>10, <1>b DEF Register, LoopTypes
  <2>3. StateTypes'
    <3>1. mine[t] = t
      BY <1>10 DEF Register, References
    <3>2. Mine(t) \in Loop
      BY <3>1, MineIsLoop, NilApart DEF Names
    <3>3. line' \in Line
      BY <1>10, <3>2, MemoryCounted, LineMade DEF Register
    <3>4. QED
      BY <1>10, <1>c, <3>3 DEF Register, StateTypes
  <2>4. QED
    BY <2>1, <2>2, <2>3 DEF TypesKept
<1>11. ASSUME NEW t \in Tasks, Insert(t)
      PROVE  TypesKept
  <2>1. TaskTypes'
    BY <1>11, <1>c, KeepType DEF Insert, Pc, StateTypes, Names
  <2>2. LoopTypes'
    BY <1>11, <1>b DEF Insert, LoopTypes
  <2>3. StateTypes'
    BY <1>11, <1>c DEF Insert, StateTypes, TaskTypes
  <2>4. QED
    BY <2>1, <2>2, <2>3 DEF TypesKept
<1>12. ASSUME NEW t \in Tasks, LockAndReroute(t)
      PROVE  TypesKept
  <2>1. TaskTypes'
    BY <1>12, GotoType DEF LockAndReroute, Pc
  <2>2. LoopTypes'
    BY <1>12, <1>b, AcquireEffect DEF LoopTypes, Writes
  <2>3. StateTypes'
    BY <1>12, <1>c DEF LockAndReroute, StateTypes
  <2>4. QED
    BY <2>1, <2>2, <2>3 DEF TypesKept
<1>13. ASSUME NEW t \in Tasks, LockOnly(t)
      PROVE  TypesKept
  <2>1. TaskTypes'
    BY <1>13, GotoType DEF LockOnly, Pc
  <2>2. LoopTypes'
    BY <1>13, <1>b, AcquireEffect DEF LoopTypes, Writes
  <2>3. StateTypes'
    BY <1>13, <1>c DEF LockOnly, StateTypes
  <2>4. QED
    BY <2>1, <2>2, <2>3 DEF TypesKept
<1>14. ASSUME NEW t \in Tasks, Reroute(t)
      PROVE  TypesKept
  <2>1. TaskTypes'
    BY <1>14, GotoType DEF Reroute, Pc
  <2>2. LoopTypes'
    BY <1>14, <1>b, AcquireEffect DEF LoopTypes, Writes
  <2>3. StateTypes'
    BY <1>14, <1>c DEF Reroute, StateTypes
  <2>4. QED
    BY <2>1, <2>2, <2>3 DEF TypesKept
<1>15. ASSUME NEW t \in Tasks, Inspect(t)
      PROVE  TypesKept
  <2>1. TaskTypes'
    BY <1>15, FinishType DEF Inspect, Pc
  <2>2. LoopTypes'
    BY <1>15, <1>b DEF Inspect, LoopTypes
  <2>3. StateTypes'
    BY <1>15, <1>c DEF Inspect, StateTypes
  <2>4. QED
    BY <2>1, <2>2, <2>3 DEF TypesKept
<1>16. ASSUME NEW t \in Tasks, LockTimesOut(t)
      PROVE  TypesKept
  <2>1. TaskTypes'
    BY <1>16, QuitType DEF LockTimesOut, Pc
  <2>2. LoopTypes'
    BY <1>16, <1>b DEF LockTimesOut, LoopTypes
  <2>3. StateTypes'
    BY <1>16, <1>c DEF LockTimesOut, StateTypes
  <2>4. QED
    BY <2>1, <2>2, <2>3 DEF TypesKept
<1>17. ASSUME NEW t \in Tasks, Relock(t)
      PROVE  TypesKept
  <2>1. TaskTypes'
    BY <1>17, GotoType DEF Relock, Pc
  <2>2. LoopTypes'
    BY <1>17, <1>b, AcquireEffect DEF LoopTypes, Writes
  <2>3. StateTypes'
    BY <1>17, <1>c DEF Relock, StateTypes
  <2>4. QED
    BY <2>1, <2>2, <2>3 DEF TypesKept
<1>18. ASSUME NEW t \in Tasks, StepBegins(t)
      PROVE  TypesKept
  <2>1. TaskTypes'
    BY <1>18, GotoType DEF StepBegins, Pc
  <2>2. LoopTypes'
    BY <1>18, <1>b, StepBeginsEffect DEF LoopTypes, Writes
  <2>3. StateTypes'
    BY <1>18, <1>c DEF StepBegins, StateTypes
  <2>4. QED
    BY <2>1, <2>2, <2>3 DEF TypesKept
<1>19. ASSUME NEW t \in Tasks, Plans(t)
      PROVE  TypesKept
  <2>1. TaskTypes'
    BY <1>19 DEF Plans, localVars, TaskTypes
  <2>2. LoopTypes'
    BY <1>19, <1>b DEF Plans, LoopTypes
  <2>3. StateTypes'
    BY <1>19, <1>c DEF Plans, StateTypes, Names
  <2>4. QED
    BY <2>1, <2>2, <2>3 DEF TypesKept
<1>20. ASSUME NEW t \in Tasks, StepEnds(t)
      PROVE  TypesKept
  <2>1. TaskTypes'
    BY <1>20, QuitType DEF StepEnds, Pc
  <2>2. LoopTypes'
    BY <1>20, <1>b, StepEndsEffect DEF LoopTypes, Writes
  <2>3. StateTypes'
    <3>1. file' \subseteq Names
      BY <1>20, <1>c, StepEndsEffect DEF StateTypes, Names
    <3>2. QED
      BY <1>20, <1>c, <3>1 DEF StepEnds, StateTypes
  <2>4. QED
    BY <2>1, <2>2, <2>3 DEF TypesKept
<1>21. ASSUME NEW t \in Tasks, InShell(t)
      PROVE  TypesKept
  <2>1. TaskTypes'
    BY <1>21, GotoType DEF InShell, Pc
  <2>2. LoopTypes'
    BY <1>21, <1>b DEF InShell, LoopTypes
  <2>3. StateTypes'
    BY <1>21, <1>c DEF InShell, StateTypes
  <2>4. QED
    BY <2>1, <2>2, <2>3 DEF TypesKept
<1>22. ASSUME NEW t \in Tasks, CancelToken(t)
      PROVE  TypesKept
  <2>1. TaskTypes'
    BY <1>22, GotoType DEF CancelToken, Pc
  <2>2. LoopTypes'
    BY <1>22, <1>b DEF CancelToken, LoopTypes
  <2>3. StateTypes'
    BY <1>22, <1>c DEF CancelToken, StateTypes
  <2>4. QED
    BY <2>1, <2>2, <2>3 DEF TypesKept
<1>23. ASSUME NEW t \in Tasks, FindLoop(t)
      PROVE  TypesKept
  <2>1. TaskTypes'
    BY <1>23, <1>c, CancelledType, ReferType DEF FindLoop, Pc, StateTypes
  <2>2. LoopTypes'
    BY <1>23, <1>b DEF FindLoop, LoopTypes
  <2>3. StateTypes'
    BY <1>23, <1>c DEF FindLoop, StateTypes
  <2>4. QED
    BY <2>1, <2>2, <2>3 DEF TypesKept
<1>24. ASSUME NEW t \in Tasks, Flag(t)
      PROVE  TypesKept
  <2>1. TaskTypes'
    BY <1>24, GotoType DEF Flag, Pc
  <2>2. LoopTypes'
    BY <1>24, <1>b, FlagEffect DEF LoopTypes, Writes
  <2>3. StateTypes'
    BY <1>24, <1>c DEF Flag, StateTypes
  <2>4. QED
    BY <2>1, <2>2, <2>3 DEF TypesKept
<1>25. ASSUME NEW t \in Tasks, Probe(t)
      PROVE  TypesKept
  <2>1. TaskTypes'
    BY <1>25, GotoType, CancelledType DEF Probe, Pc
  <2>2. LoopTypes'
    BY <1>25, <1>b, ProbeEffect DEF LoopTypes, Writes, Probe
  <2>3. StateTypes'
    BY <1>25, <1>c DEF Probe, StateTypes
  <2>4. QED
    BY <2>1, <2>2, <2>3 DEF TypesKept
<1>26. ASSUME NEW t \in Tasks, Abort(t)
      PROVE  TypesKept
  <2>1. TaskTypes'
    BY <1>26, CancelledType DEF Abort, Pc
  <2>2. LoopTypes'
    BY <1>26, <1>b, AbortEffect DEF LoopTypes, Writes
  <2>3. StateTypes'
    BY <1>26, <1>c DEF Abort, StateTypes
  <2>4. QED
    BY <2>1, <2>2, <2>3 DEF TypesKept
<1>27. ASSUME NEW t \in Tasks, Remove(t)
      PROVE  TypesKept
  <2>1. TaskTypes'
    BY <1>27, GotoType DEF Remove, Pc
  <2>2. LoopTypes'
    BY <1>27, <1>b DEF Remove, LoopTypes
  <2>3. StateTypes'
    BY <1>27, <1>c DEF Remove, StateTypes
  <2>4. QED
    BY <2>1, <2>2, <2>3 DEF TypesKept
<1>28. ASSUME NEW t \in Tasks, ClearPlan(t)
      PROVE  TypesKept
  <2>1. TaskTypes'
    BY <1>28, FinishType DEF ClearPlan, Pc
  <2>2. LoopTypes'
    BY <1>28, <1>b DEF ClearPlan, LoopTypes
  <2>3. StateTypes'
    BY <1>28, <1>c DEF ClearPlan, StateTypes
  <2>4. QED
    BY <2>1, <2>2, <2>3 DEF TypesKept
<1>29. ASSUME NEW t \in Tasks, SelectModel(t)
      PROVE  TypesKept
  <2>1. TaskTypes'
    BY <1>29, GotoType DEF SelectModel, Pc
  <2>2. LoopTypes'
    BY <1>29, <1>b DEF SelectModel, LoopTypes
  <2>3. StateTypes'
    BY <1>29, <1>c DEF SelectModel, StateTypes, Names
  <2>4. QED
    BY <2>1, <2>2, <2>3 DEF TypesKept
<1>30. ASSUME NEW t \in Tasks, ReplaceRuntime(t)
      PROVE  TypesKept
  <2>1. TaskTypes'
    BY <1>30, GotoType DEF ReplaceRuntime, Pc
  <2>2. LoopTypes'
    BY <1>30, <1>b DEF ReplaceRuntime, LoopTypes
  <2>3. StateTypes'
    BY <1>30, <1>c DEF ReplaceRuntime, StateTypes, Names
  <2>4. QED
    BY <2>1, <2>2, <2>3 DEF TypesKept
<1>31. ASSUME NEW t \in Tasks, FindForModel(t)
      PROVE  TypesKept
  <2>1. TaskTypes'
    BY <1>31, <1>c, FinishType, ReferType DEF FindForModel, Pc, StateTypes
  <2>2. LoopTypes'
    BY <1>31, <1>b DEF FindForModel, LoopTypes
  <2>3. StateTypes'
    BY <1>31, <1>c DEF FindForModel, StateTypes
  <2>4. QED
    BY <2>1, <2>2, <2>3 DEF TypesKept
<1>32. ASSUME NEW t \in Tasks, UpdateLlm(t)
      PROVE  TypesKept
  <2>1. TaskTypes'
    BY <1>32, FinishType DEF UpdateLlm, Pc
  <2>2. LoopTypes'
    BY <1>32, <1>b, UpdateLlmEffect DEF LoopTypes, Writes
  <2>3. StateTypes'
    BY <1>32, <1>c DEF UpdateLlm, StateTypes
  <2>4. QED
    BY <2>1, <2>2, <2>3 DEF TypesKept
<1>33. ASSUME NEW t \in Tasks, Closes(t)
      PROVE  TypesKept
  <2>1. TaskTypes'
    BY <1>33 DEF Closes, localVars, TaskTypes
  <2>2. LoopTypes'
    BY <1>33, <1>b DEF Closes, LoopTypes
  <2>3. StateTypes'
    BY <1>33, <1>c DEF Closes, StateTypes, Close
  <2>4. QED
    BY <2>1, <2>2, <2>3 DEF TypesKept
<1>z. QED
  BY NextCases, <1>1, <1>2, <1>3, <1>4, <1>5, <1>6, <1>7, <1>8, <1>9, <1>10,
     <1>11, <1>12, <1>13, <1>14, <1>15, <1>16, <1>17, <1>18, <1>19, <1>20,
     <1>21, <1>22, <1>23, <1>24, <1>25, <1>26, <1>27, <1>28, <1>29, <1>30,
     <1>31, <1>32, <1>33
     DEF TypesKept, TypeOK, TaskTypes, LoopTypes, StateTypes

(* Every step keeps what tasks refer to in existence.                      *)
LEMMA ReferencesStep ==
  ASSUME TypeOK, References, [Next]_vars
  PROVE  References'
<1>s. Steps
  BY NextSteps
<1> USE DEF Others, Moves, Over, Refers, Keeps, Returns, Makes, Writes,
      Mine, TypeOK, Names, Early, OnLoop, References
<1>0. CASE UNCHANGED vars
  BY <1>0, NilApart DEF vars, managerVars, storeVars, localVars, historyVars
<1>1. CASE ToolStep
  BY <1>1, NilApart DEF ToolStep
<1>2. ASSUME NEW t \in Tasks, OpenStep(t)
      PROVE  References'
  BY <1>2, NilApart DEF OpenStep
<1>3. ASSUME NEW t \in Tasks, PermitStep(t)
      PROVE  References'
  BY <1>3, NilApart DEF PermitStep
<1>4. ASSUME NEW t \in Tasks, LeaveStep(t)
      PROVE  References'
  BY <1>4, NilApart DEF LeaveStep
<1>5. ASSUME NEW t \in Tasks, LookupStep(t)
      PROVE  References'
  BY <1>5, NilApart DEF LookupStep
<1>6. ASSUME NEW t \in Tasks, TouchStep(t)
      PROVE  References'
  BY <1>6, NilApart DEF TouchStep
<1>7. ASSUME NEW t \in Tasks, GetLlmStep(t)
      PROVE  References'
  BY <1>7, NilApart DEF GetLlmStep
<1>8. ASSUME NEW t \in Tasks, BuildStep(t)
      PROVE  References'
  BY <1>8, NilApart DEF BuildStep
<1>9. ASSUME NEW t \in Tasks, RegisterStep(t)
      PROVE  References'
  BY <1>9, NilApart DEF RegisterStep
<1>10. ASSUME NEW t \in Tasks, InsertStep(t)
      PROVE  References'
  BY <1>10, NilApart DEF InsertStep
<1>11. ASSUME NEW t \in Tasks, LockStep(t)
      PROVE  References'
  BY <1>11, NilApart DEF LockStep
<1>12. ASSUME NEW t \in Tasks, GiveUpStep(t)
      PROVE  References'
  BY <1>12, NilApart DEF GiveUpStep
<1>13. ASSUME NEW t \in Tasks, BeginStep(t)
      PROVE  References'
  BY <1>13, NilApart DEF BeginStep
<1>14. ASSUME NEW t \in Tasks, PlanStep(t)
      PROVE  References'
  BY <1>14, NilApart DEF PlanStep
<1>15. ASSUME NEW t \in Tasks, EndStep(t)
      PROVE  References'
  BY <1>15, NilApart DEF EndStep
<1>16. ASSUME NEW t \in Tasks, ShellStep(t)
      PROVE  References'
  BY <1>16, NilApart DEF ShellStep
<1>17. ASSUME NEW t \in Tasks, TokenStep(t)
      PROVE  References'
  BY <1>17, NilApart DEF TokenStep
<1>18. ASSUME NEW t \in Tasks, FindStep(t)
      PROVE  References'
  BY <1>18, NilApart DEF FindStep
<1>19. ASSUME NEW t \in Tasks, FlagStep(t)
      PROVE  References'
  BY <1>19, NilApart DEF FlagStep
<1>20. ASSUME NEW t \in Tasks, ProbeStep(t)
      PROVE  References'
  BY <1>20, NilApart DEF ProbeStep
<1>21. ASSUME NEW t \in Tasks, AbortStep(t)
      PROVE  References'
  BY <1>21, NilApart DEF AbortStep
<1>22. ASSUME NEW t \in Tasks, RemoveStep(t)
      PROVE  References'
  BY <1>22, NilApart DEF RemoveStep
<1>23. ASSUME NEW t \in Tasks, ClearStep(t)
      PROVE  References'
  BY <1>23, NilApart DEF ClearStep
<1>24. ASSUME NEW t \in Tasks, SelectStep(t)
      PROVE  References'
  BY <1>24, NilApart DEF SelectStep
<1>25. ASSUME NEW t \in Tasks, ReplaceStep(t)
      PROVE  References'
  BY <1>25, NilApart DEF ReplaceStep
<1>26. ASSUME NEW t \in Tasks, SwapStep(t)
      PROVE  References'
  BY <1>26, NilApart DEF SwapStep
<1>27. ASSUME NEW t \in Tasks, UpdateStep(t)
      PROVE  References'
  BY <1>27, NilApart DEF UpdateStep
<1>28. ASSUME NEW t \in Tasks, CloseStep(t)
      PROVE  References'
  BY <1>28, NilApart DEF CloseStep
<1>z. QED
  BY <1>s, <1>0, <1>1, <1>2, <1>3, <1>4, <1>5, <1>6, <1>7, <1>8, <1>9,
     <1>10, <1>11, <1>12, <1>13, <1>14, <1>15, <1>16, <1>17, <1>18, <1>19,
     <1>20, <1>21, <1>22, <1>23, <1>24, <1>25, <1>26, <1>27, <1>28
     DEF Steps

(* One task at a time is at work on a loop, with its own output if it is a *)
(* bot's.                                                                  *)
LEMMA LocksStep ==
  ASSUME TypeOK, References, Locks, [Next]_vars
  PROVE  Locks'
<1>s. Steps
  BY NextSteps
<1> USE DEF Others, Moves, Over, Refers, Keeps, Returns, Makes, Writes,
      Mine, TypeOK, Names, Early, OnLoop, References, Locks, Holds
<1>0. CASE UNCHANGED vars
  BY <1>0, NilApart DEF vars, managerVars, storeVars, localVars, historyVars
<1>1. CASE ToolStep
  BY <1>1, NilApart DEF ToolStep
<1>2. ASSUME NEW t \in Tasks, OpenStep(t)
      PROVE  Locks'
  BY <1>2, NilApart DEF OpenStep
<1>3. ASSUME NEW t \in Tasks, PermitStep(t)
      PROVE  Locks'
  BY <1>3, NilApart DEF PermitStep
<1>4. ASSUME NEW t \in Tasks, LeaveStep(t)
      PROVE  Locks'
  BY <1>4, NilApart DEF LeaveStep
<1>5. ASSUME NEW t \in Tasks, LookupStep(t)
      PROVE  Locks'
  BY <1>5, NilApart DEF LookupStep
<1>6. ASSUME NEW t \in Tasks, TouchStep(t)
      PROVE  Locks'
  BY <1>6, NilApart DEF TouchStep
<1>7. ASSUME NEW t \in Tasks, GetLlmStep(t)
      PROVE  Locks'
  BY <1>7, NilApart DEF GetLlmStep
<1>8. ASSUME NEW t \in Tasks, BuildStep(t)
      PROVE  Locks'
  BY <1>8, NilApart DEF BuildStep
<1>9. ASSUME NEW t \in Tasks, RegisterStep(t)
      PROVE  Locks'
  BY <1>9, NilApart DEF RegisterStep
<1>10. ASSUME NEW t \in Tasks, InsertStep(t)
      PROVE  Locks'
  BY <1>10, NilApart DEF InsertStep
<1>11. ASSUME NEW t \in Tasks, LockStep(t)
      PROVE  Locks'
  BY <1>11, NilApart DEF LockStep
<1>12. ASSUME NEW t \in Tasks, GiveUpStep(t)
      PROVE  Locks'
  BY <1>12, NilApart DEF GiveUpStep
<1>13. ASSUME NEW t \in Tasks, BeginStep(t)
      PROVE  Locks'
  BY <1>13, NilApart DEF BeginStep
<1>14. ASSUME NEW t \in Tasks, PlanStep(t)
      PROVE  Locks'
  BY <1>14, NilApart DEF PlanStep
<1>15. ASSUME NEW t \in Tasks, EndStep(t)
      PROVE  Locks'
  BY <1>15, NilApart DEF EndStep
<1>16. ASSUME NEW t \in Tasks, ShellStep(t)
      PROVE  Locks'
  BY <1>16, NilApart DEF ShellStep
<1>17. ASSUME NEW t \in Tasks, TokenStep(t)
      PROVE  Locks'
  BY <1>17, NilApart DEF TokenStep
<1>18. ASSUME NEW t \in Tasks, FindStep(t)
      PROVE  Locks'
  BY <1>18, NilApart DEF FindStep
<1>19. ASSUME NEW t \in Tasks, FlagStep(t)
      PROVE  Locks'
  BY <1>19, NilApart DEF FlagStep
<1>20. ASSUME NEW t \in Tasks, ProbeStep(t)
      PROVE  Locks'
  BY <1>20, NilApart DEF ProbeStep
<1>21. ASSUME NEW t \in Tasks, AbortStep(t)
      PROVE  Locks'
  BY <1>21, NilApart DEF AbortStep
<1>22. ASSUME NEW t \in Tasks, RemoveStep(t)
      PROVE  Locks'
  BY <1>22, NilApart DEF RemoveStep
<1>23. ASSUME NEW t \in Tasks, ClearStep(t)
      PROVE  Locks'
  BY <1>23, NilApart DEF ClearStep
<1>24. ASSUME NEW t \in Tasks, SelectStep(t)
      PROVE  Locks'
  BY <1>24, NilApart DEF SelectStep
<1>25. ASSUME NEW t \in Tasks, ReplaceStep(t)
      PROVE  Locks'
  BY <1>25, NilApart DEF ReplaceStep
<1>26. ASSUME NEW t \in Tasks, SwapStep(t)
      PROVE  Locks'
  BY <1>26, NilApart DEF SwapStep
<1>27. ASSUME NEW t \in Tasks, UpdateStep(t)
      PROVE  Locks'
  BY <1>27, NilApart DEF UpdateStep
<1>28. ASSUME NEW t \in Tasks, CloseStep(t)
      PROVE  Locks'
  BY <1>28, NilApart DEF CloseStep
<1>z. QED
  BY <1>s, <1>0, <1>1, <1>2, <1>3, <1>4, <1>5, <1>6, <1>7, <1>8, <1>9,
     <1>10, <1>11, <1>12, <1>13, <1>14, <1>15, <1>16, <1>17, <1>18, <1>19,
     <1>20, <1>21, <1>22, <1>23, <1>24, <1>25, <1>26, <1>27, <1>28
     DEF Steps

(* A session whose loop was built once and never removed in use has one    *)
(* loop.                                                                   *)
LEMMA SingleStep ==
  ASSUME TypeOK, References, Single, [Next]_vars
  PROVE  Single'
<1>s. Steps
  BY NextSteps
<1> USE DEF Others, Moves, Over, Refers, Keeps, Returns, Makes, Writes,
      Mine, TypeOK, Names, Early, OnLoop, References, Single, Settled
<1>0. CASE UNCHANGED vars
  BY <1>0, NilApart DEF vars, managerVars, storeVars, localVars, historyVars
<1>1. CASE ToolStep
  BY <1>1, NilApart DEF ToolStep
<1>2. ASSUME NEW t \in Tasks, OpenStep(t)
      PROVE  Single'
  BY <1>2, NilApart DEF OpenStep
<1>3. ASSUME NEW t \in Tasks, PermitStep(t)
      PROVE  Single'
  BY <1>3, NilApart DEF PermitStep
<1>4. ASSUME NEW t \in Tasks, LeaveStep(t)
      PROVE  Single'
  BY <1>4, NilApart DEF LeaveStep
<1>5. ASSUME NEW t \in Tasks, LookupStep(t)
      PROVE  Single'
  BY <1>5, NilApart DEF LookupStep
<1>6. ASSUME NEW t \in Tasks, TouchStep(t)
      PROVE  Single'
  BY <1>6, NilApart DEF TouchStep
<1>7. ASSUME NEW t \in Tasks, GetLlmStep(t)
      PROVE  Single'
  BY <1>7, NilApart DEF GetLlmStep
<1>8. ASSUME NEW t \in Tasks, BuildStep(t)
      PROVE  Single'
  BY <1>8, NilApart DEF BuildStep
<1>9. ASSUME NEW t \in Tasks, RegisterStep(t)
      PROVE  Single'
  BY <1>9, NilApart DEF RegisterStep
<1>10. ASSUME NEW t \in Tasks, InsertStep(t)
      PROVE  Single'
  <2>1. Settled' => Settled /\ entry = Nil
    BY <1>10 DEF InsertStep
  <2>2. mine'[t] = entry'
    BY <1>10 DEF InsertStep
  <2>3. entry = Nil /\ Settled =>
          \A u \in Tasks : pc[u] \notin OnLoop \ {"register", "insert"}
    OBVIOUS
  <2>4. \A u \in Tasks \ {t} : pc'[u] = pc[u]
    BY <1>10 DEF InsertStep
  <2>5. QED
    BY <2>1, <2>2, <2>3, <2>4
<1>11. ASSUME NEW t \in Tasks, LockStep(t)
      PROVE  Single'
  BY <1>11, NilApart DEF LockStep
<1>12. ASSUME NEW t \in Tasks, GiveUpStep(t)
      PROVE  Single'
  BY <1>12, NilApart DEF GiveUpStep
<1>13. ASSUME NEW t \in Tasks, BeginStep(t)
      PROVE  Single'
  BY <1>13, NilApart DEF BeginStep
<1>14. ASSUME NEW t \in Tasks, PlanStep(t)
      PROVE  Single'
  BY <1>14, NilApart DEF PlanStep
<1>15. ASSUME NEW t \in Tasks, EndStep(t)
      PROVE  Single'
  BY <1>15, NilApart DEF EndStep
<1>16. ASSUME NEW t \in Tasks, ShellStep(t)
      PROVE  Single'
  BY <1>16, NilApart DEF ShellStep
<1>17. ASSUME NEW t \in Tasks, TokenStep(t)
      PROVE  Single'
  BY <1>17, NilApart DEF TokenStep
<1>18. ASSUME NEW t \in Tasks, FindStep(t)
      PROVE  Single'
  BY <1>18, NilApart DEF FindStep
<1>19. ASSUME NEW t \in Tasks, FlagStep(t)
      PROVE  Single'
  BY <1>19, NilApart DEF FlagStep
<1>20. ASSUME NEW t \in Tasks, ProbeStep(t)
      PROVE  Single'
  BY <1>20, NilApart DEF ProbeStep
<1>21. ASSUME NEW t \in Tasks, AbortStep(t)
      PROVE  Single'
  BY <1>21, NilApart DEF AbortStep
<1>22. ASSUME NEW t \in Tasks, RemoveStep(t)
      PROVE  Single'
  <2>1. Settled' => \A u \in Tasks : ~InUse(u)
    BY <1>22 DEF RemoveStep
  <2>2. pc'[t] = "clear" /\ \A u \in Tasks \ {t} : pc'[u] = pc[u]
    BY <1>22 DEF RemoveStep
  <2>3. Settled' => \A u \in Tasks : pc'[u] \notin OnLoop \ {"register", "insert"}
    BY <2>1, <2>2 DEF InUse
  <2>4. QED
    BY <2>3
<1>23. ASSUME NEW t \in Tasks, ClearStep(t)
      PROVE  Single'
  BY <1>23, NilApart DEF ClearStep
<1>24. ASSUME NEW t \in Tasks, SelectStep(t)
      PROVE  Single'
  BY <1>24, NilApart DEF SelectStep
<1>25. ASSUME NEW t \in Tasks, ReplaceStep(t)
      PROVE  Single'
  BY <1>25, NilApart DEF ReplaceStep
<1>26. ASSUME NEW t \in Tasks, SwapStep(t)
      PROVE  Single'
  BY <1>26, NilApart DEF SwapStep
<1>27. ASSUME NEW t \in Tasks, UpdateStep(t)
      PROVE  Single'
  BY <1>27, NilApart DEF UpdateStep
<1>28. ASSUME NEW t \in Tasks, CloseStep(t)
      PROVE  Single'
  BY <1>28, NilApart DEF CloseStep
<1>z. QED
  BY <1>s, <1>0, <1>1, <1>2, <1>3, <1>4, <1>5, <1>6, <1>7, <1>8, <1>9,
     <1>10, <1>11, <1>12, <1>13, <1>14, <1>15, <1>16, <1>17, <1>18, <1>19,
     <1>20, <1>21, <1>22, <1>23, <1>24, <1>25, <1>26, <1>27, <1>28
     DEF Steps

(* The line of a session in the map is there, with its path.               *)
LEMMA ListingStep ==
  ASSUME TypeOK, References, Listing, [Next]_vars
  PROVE  Listing'
<1>s. Steps
  BY NextSteps
<1> USE DEF Others, Moves, Over, Refers, Keeps, Returns, Makes, Writes,
      Mine, TypeOK, Names, Early, OnLoop, References, Listing, NoOrphan,
      InUse
<1>0. CASE UNCHANGED vars
  BY <1>0, NilApart DEF vars, managerVars, storeVars, localVars, historyVars
<1>1. CASE ToolStep
  BY <1>1, NilApart DEF ToolStep
<1>2. ASSUME NEW t \in Tasks, OpenStep(t)
      PROVE  Listing'
  BY <1>2, NilApart DEF OpenStep
<1>3. ASSUME NEW t \in Tasks, PermitStep(t)
      PROVE  Listing'
  BY <1>3, NilApart DEF PermitStep
<1>4. ASSUME NEW t \in Tasks, LeaveStep(t)
      PROVE  Listing'
  BY <1>4, NilApart DEF LeaveStep
<1>5. ASSUME NEW t \in Tasks, LookupStep(t)
      PROVE  Listing'
  BY <1>5, NilApart DEF LookupStep
<1>6. ASSUME NEW t \in Tasks, TouchStep(t)
      PROVE  Listing'
  BY <1>6, NilApart DEF TouchStep
<1>7. ASSUME NEW t \in Tasks, GetLlmStep(t)
      PROVE  Listing'
  BY <1>7, NilApart DEF GetLlmStep
<1>8. ASSUME NEW t \in Tasks, BuildStep(t)
      PROVE  Listing'
  BY <1>8, NilApart DEF BuildStep
<1>9. ASSUME NEW t \in Tasks, RegisterStep(t)
      PROVE  Listing'
  <2>1. Mine(t) \in Loop
    BY <1>9
       DEF RegisterStep
  <2>2. Cardinality(Mine(t).memory) \in Nat
    BY <2>1, MemoryCounted
  <2>3. line' = [path |-> TRUE, turns |-> Cardinality(Mine(t).memory)]
    BY <1>9 DEF RegisterStep
  <2>4. line' \in Line /\ line'.path
    BY <2>2, <2>3, LineMade
  <2>5. line' # Nil /\ line'.path
    BY <2>4, NilApart
  <2>6. /\ entry' = entry /\ raced' = raced
        /\ \A u \in Tasks : pc'[u] = "touch" => pc[u] = "touch"
    BY <1>9 DEF RegisterStep
  <2>7. QED
    BY <2>5, <2>6
<1>10. ASSUME NEW t \in Tasks, InsertStep(t)
      PROVE  Listing'
  BY <1>10, NilApart DEF InsertStep
<1>11. ASSUME NEW t \in Tasks, LockStep(t)
      PROVE  Listing'
  BY <1>11, NilApart DEF LockStep
<1>12. ASSUME NEW t \in Tasks, GiveUpStep(t)
      PROVE  Listing'
  BY <1>12, NilApart DEF GiveUpStep
<1>13. ASSUME NEW t \in Tasks, BeginStep(t)
      PROVE  Listing'
  BY <1>13, NilApart DEF BeginStep
<1>14. ASSUME NEW t \in Tasks, PlanStep(t)
      PROVE  Listing'
  BY <1>14, NilApart DEF PlanStep
<1>15. ASSUME NEW t \in Tasks, EndStep(t)
      PROVE  Listing'
  BY <1>15, NilApart DEF EndStep
<1>16. ASSUME NEW t \in Tasks, ShellStep(t)
      PROVE  Listing'
  BY <1>16, NilApart DEF ShellStep
<1>17. ASSUME NEW t \in Tasks, TokenStep(t)
      PROVE  Listing'
  BY <1>17, NilApart DEF TokenStep
<1>18. ASSUME NEW t \in Tasks, FindStep(t)
      PROVE  Listing'
  BY <1>18, NilApart DEF FindStep
<1>19. ASSUME NEW t \in Tasks, FlagStep(t)
      PROVE  Listing'
  BY <1>19, NilApart DEF FlagStep
<1>20. ASSUME NEW t \in Tasks, ProbeStep(t)
      PROVE  Listing'
  BY <1>20, NilApart DEF ProbeStep
<1>21. ASSUME NEW t \in Tasks, AbortStep(t)
      PROVE  Listing'
  BY <1>21, NilApart DEF AbortStep
<1>22. ASSUME NEW t \in Tasks, RemoveStep(t)
      PROVE  Listing'
  BY <1>22, NilApart DEF RemoveStep
<1>23. ASSUME NEW t \in Tasks, ClearStep(t)
      PROVE  Listing'
  BY <1>23, NilApart DEF ClearStep
<1>24. ASSUME NEW t \in Tasks, SelectStep(t)
      PROVE  Listing'
  BY <1>24, NilApart DEF SelectStep
<1>25. ASSUME NEW t \in Tasks, ReplaceStep(t)
      PROVE  Listing'
  BY <1>25, NilApart DEF ReplaceStep
<1>26. ASSUME NEW t \in Tasks, SwapStep(t)
      PROVE  Listing'
  BY <1>26, NilApart DEF SwapStep
<1>27. ASSUME NEW t \in Tasks, UpdateStep(t)
      PROVE  Listing'
  BY <1>27, NilApart DEF UpdateStep
<1>28. ASSUME NEW t \in Tasks, CloseStep(t)
      PROVE  Listing'
  BY <1>28, NilApart DEF CloseStep
<1>z. QED
  BY <1>s, <1>0, <1>1, <1>2, <1>3, <1>4, <1>5, <1>6, <1>7, <1>8, <1>9,
     <1>10, <1>11, <1>12, <1>13, <1>14, <1>15, <1>16, <1>17, <1>18, <1>19,
     <1>20, <1>21, <1>22, <1>23, <1>24, <1>25, <1>26, <1>27, <1>28
     DEF Steps

(* The turns a cancellation is aimed at are reached by its flag.           *)
LEMMA AimsStep ==
  ASSUME TypeOK, References, Locks, Single, Aims,
         [Next]_vars
  PROVE  Aims'
<1>s. Steps
  BY NextSteps
<1> USE DEF Others, Moves, Over, Refers, Keeps, Returns, Makes, Writes,
      Mine, TypeOK, Names, Early, OnLoop, References, Locks, Holds, Single,
      Aims, Settled, Stepping
<1>0. CASE UNCHANGED vars
  BY <1>0, NilApart DEF vars, managerVars, storeVars, localVars, historyVars
<1>1. CASE ToolStep
  BY <1>1, NilApart DEF ToolStep
<1>2. ASSUME NEW t \in Tasks, OpenStep(t)
      PROVE  Aims'
  BY <1>2, NilApart DEF OpenStep
<1>3. ASSUME NEW t \in Tasks, PermitStep(t)
      PROVE  Aims'
  BY <1>3, NilApart DEF PermitStep
<1>4. ASSUME NEW t \in Tasks, LeaveStep(t)
      PROVE  Aims'
  BY <1>4, NilApart DEF LeaveStep
<1>5. ASSUME NEW t \in Tasks, LookupStep(t)
      PROVE  Aims'
  BY <1>5, NilApart DEF LookupStep
<1>6. ASSUME NEW t \in Tasks, TouchStep(t)
      PROVE  Aims'
  BY <1>6, NilApart DEF TouchStep
<1>7. ASSUME NEW t \in Tasks, GetLlmStep(t)
      PROVE  Aims'
  BY <1>7, NilApart DEF GetLlmStep
<1>8. ASSUME NEW t \in Tasks, BuildStep(t)
      PROVE  Aims'
  BY <1>8, NilApart DEF BuildStep
<1>9. ASSUME NEW t \in Tasks, RegisterStep(t)
      PROVE  Aims'
  BY <1>9, NilApart DEF RegisterStep
<1>10. ASSUME NEW t \in Tasks, InsertStep(t)
      PROVE  Aims'
  BY <1>10, NilApart DEF InsertStep
<1>11. ASSUME NEW t \in Tasks, LockStep(t)
      PROVE  Aims'
  BY <1>11, NilApart DEF LockStep
<1>12. ASSUME NEW t \in Tasks, GiveUpStep(t)
      PROVE  Aims'
  BY <1>12, NilApart DEF GiveUpStep
<1>13. ASSUME NEW t \in Tasks, BeginStep(t)
      PROVE  Aims'
  BY <1>13, NilApart DEF BeginStep
<1>14. ASSUME NEW t \in Tasks, PlanStep(t)
      PROVE  Aims'
  BY <1>14, NilApart DEF PlanStep
<1>15. ASSUME NEW t \in Tasks, EndStep(t)
      PROVE  Aims'
  BY <1>15, NilApart DEF EndStep
<1>16. ASSUME NEW t \in Tasks, ShellStep(t)
      PROVE  Aims'
  BY <1>16, NilApart DEF ShellStep
<1>17. ASSUME NEW t \in Tasks, TokenStep(t)
      PROVE  Aims'
  BY <1>17, NilApart DEF TokenStep
<1>18. ASSUME NEW t \in Tasks, FindStep(t)
      PROVE  Aims'
  BY <1>18, NilApart DEF FindStep
<1>19. ASSUME NEW t \in Tasks, FlagStep(t)
      PROVE  Aims'
  BY <1>19, NilApart DEF FlagStep
<1>20. ASSUME NEW t \in Tasks, ProbeStep(t)
      PROVE  Aims'
  BY <1>20, NilApart DEF ProbeStep
<1>21. ASSUME NEW t \in Tasks, AbortStep(t)
      PROVE  Aims'
  BY <1>21, NilApart DEF AbortStep
<1>22. ASSUME NEW t \in Tasks, RemoveStep(t)
      PROVE  Aims'
  BY <1>22, NilApart DEF RemoveStep
<1>23. ASSUME NEW t \in Tasks, ClearStep(t)
      PROVE  Aims'
  BY <1>23, NilApart DEF ClearStep
<1>24. ASSUME NEW t \in Tasks, SelectStep(t)
      PROVE  Aims'
  BY <1>24, NilApart DEF SelectStep
<1>25. ASSUME NEW t \in Tasks, ReplaceStep(t)
      PROVE  Aims'
  BY <1>25, NilApart DEF ReplaceStep
<1>26. ASSUME NEW t \in Tasks, SwapStep(t)
      PROVE  Aims'
  BY <1>26, NilApart DEF SwapStep
<1>27. ASSUME NEW t \in Tasks, UpdateStep(t)
      PROVE  Aims'
  BY <1>27, NilApart DEF UpdateStep
<1>28. ASSUME NEW t \in Tasks, CloseStep(t)
      PROVE  Aims'
  BY <1>28, NilApart DEF CloseStep
<1>z. QED
  BY <1>s, <1>0, <1>1, <1>2, <1>3, <1>4, <1>5, <1>6, <1>7, <1>8, <1>9,
     <1>10, <1>11, <1>12, <1>13, <1>14, <1>15, <1>16, <1>17, <1>18, <1>19,
     <1>20, <1>21, <1>22, <1>23, <1>24, <1>25, <1>26, <1>27, <1>28
     DEF Steps

(* What was erased does not come back.                                     *)
LEMMA ForgetsStep ==
  ASSUME TypeOK, References, Forgets, [Next]_vars
  PROVE  Forgets'
<1>s. Steps
  BY NextSteps
<1> USE DEF Others, Moves, Over, Refers, Keeps, Returns, Makes, Writes,
      Mine, TypeOK, Names, Early, OnLoop, References, Forgets, NoOrphan,
      InUse
<1>0. CASE UNCHANGED vars
  BY <1>0, NilApart DEF vars, managerVars, storeVars, localVars, historyVars
<1>1. CASE ToolStep
  BY <1>1, NilApart DEF ToolStep
<1>2. ASSUME NEW t \in Tasks, OpenStep(t)
      PROVE  Forgets'
  BY <1>2, NilApart DEF OpenStep
<1>3. ASSUME NEW t \in Tasks, PermitStep(t)
      PROVE  Forgets'
  BY <1>3, NilApart DEF PermitStep
<1>4. ASSUME NEW t \in Tasks, LeaveStep(t)
      PROVE  Forgets'
  BY <1>4, NilApart DEF LeaveStep
<1>5. ASSUME NEW t \in Tasks, LookupStep(t)
      PROVE  Forgets'
  BY <1>5, NilApart DEF LookupStep
<1>6. ASSUME NEW t \in Tasks, TouchStep(t)
      PROVE  Forgets'
  BY <1>6, NilApart DEF TouchStep
<1>7. ASSUME NEW t \in Tasks, GetLlmStep(t)
      PROVE  Forgets'
  BY <1>7, NilApart DEF GetLlmStep
<1>8. ASSUME NEW t \in Tasks, BuildStep(t)
      PROVE  Forgets'
  BY <1>8, NilApart DEF BuildStep
<1>9. ASSUME NEW t \in Tasks, RegisterStep(t)
      PROVE  Forgets'
  BY <1>9, NilApart DEF RegisterStep
<1>10. ASSUME NEW t \in Tasks, InsertStep(t)
      PROVE  Forgets'
  BY <1>10, NilApart DEF InsertStep
<1>11. ASSUME NEW t \in Tasks, LockStep(t)
      PROVE  Forgets'
  BY <1>11, NilApart DEF LockStep
<1>12. ASSUME NEW t \in Tasks, GiveUpStep(t)
      PROVE  Forgets'
  BY <1>12, NilApart DEF GiveUpStep
<1>13. ASSUME NEW t \in Tasks, BeginStep(t)
      PROVE  Forgets'
  BY <1>13, NilApart DEF BeginStep
<1>14. ASSUME NEW t \in Tasks, PlanStep(t)
      PROVE  Forgets'
  BY <1>14, NilApart DEF PlanStep
<1>15. ASSUME NEW t \in Tasks, EndStep(t)
      PROVE  Forgets'
  BY <1>15, NilApart DEF EndStep
<1>16. ASSUME NEW t \in Tasks, ShellStep(t)
      PROVE  Forgets'
  BY <1>16, NilApart DEF ShellStep
<1>17. ASSUME NEW t \in Tasks, TokenStep(t)
      PROVE  Forgets'
  BY <1>17, NilApart DEF TokenStep
<1>18. ASSUME NEW t \in Tasks, FindStep(t)
      PROVE  Forgets'
  BY <1>18, NilApart DEF FindStep
<1>19. ASSUME NEW t \in Tasks, FlagStep(t)
      PROVE  Forgets'
  BY <1>19, NilApart DEF FlagStep
<1>20. ASSUME NEW t \in Tasks, ProbeStep(t)
      PROVE  Forgets'
  BY <1>20, NilApart DEF ProbeStep
<1>21. ASSUME NEW t \in Tasks, AbortStep(t)
      PROVE  Forgets'
  BY <1>21, NilApart DEF AbortStep
<1>22. ASSUME NEW t \in Tasks, RemoveStep(t)
      PROVE  Forgets'
  BY <1>22, NilApart DEF RemoveStep
<1>23. ASSUME NEW t \in Tasks, ClearStep(t)
      PROVE  Forgets'
  BY <1>23, NilApart DEF ClearStep
<1>24. ASSUME NEW t \in Tasks, SelectStep(t)
      PROVE  Forgets'
  BY <1>24, NilApart DEF SelectStep
<1>25. ASSUME NEW t \in Tasks, ReplaceStep(t)
      PROVE  Forgets'
  BY <1>25, NilApart DEF ReplaceStep
<1>26. ASSUME NEW t \in Tasks, SwapStep(t)
      PROVE  Forgets'
  BY <1>26, NilApart DEF SwapStep
<1>27. ASSUME NEW t \in Tasks, UpdateStep(t)
      PROVE  Forgets'
  BY <1>27, NilApart DEF UpdateStep
<1>28. ASSUME NEW t \in Tasks, CloseStep(t)
      PROVE  Forgets'
  BY <1>28, NilApart DEF CloseStep
<1>z. QED
  BY <1>s, <1>0, <1>1, <1>2, <1>3, <1>4, <1>5, <1>6, <1>7, <1>8, <1>9,
     <1>10, <1>11, <1>12, <1>13, <1>14, <1>15, <1>16, <1>17, <1>18, <1>19,
     <1>20, <1>21, <1>22, <1>23, <1>24, <1>25, <1>26, <1>27, <1>28
     DEF Steps

(* The last model selected is the one in force, or about to be.            *)
LEMMA ModelsStep ==
  ASSUME TypeOK, References, Models, [Next]_vars
  PROVE  Models'
<1>s. Steps
  BY NextSteps
<1> USE DEF Others, Moves, Over, Refers, Keeps, Returns, Makes, Writes,
      Mine, TypeOK, Names, Early, OnLoop, References, Models, Changing,
      ChangesModel, Busy, Building
<1>0. CASE UNCHANGED vars
  BY <1>0, NilApart DEF vars, managerVars, storeVars, localVars, historyVars
<1>1. CASE ToolStep
  BY <1>1, NilApart DEF ToolStep
<1>2. ASSUME NEW t \in Tasks, OpenStep(t)
      PROVE  Models'
  BY <1>2, NilApart DEF OpenStep
<1>3. ASSUME NEW t \in Tasks, PermitStep(t)
      PROVE  Models'
  BY <1>3, NilApart DEF PermitStep
<1>4. ASSUME NEW t \in Tasks, LeaveStep(t)
      PROVE  Models'
  BY <1>4, NilApart DEF LeaveStep
<1>5. ASSUME NEW t \in Tasks, LookupStep(t)
      PROVE  Models'
  BY <1>5, NilApart DEF LookupStep
<1>6. ASSUME NEW t \in Tasks, TouchStep(t)
      PROVE  Models'
  BY <1>6, NilApart DEF TouchStep
<1>7. ASSUME NEW t \in Tasks, GetLlmStep(t)
      PROVE  Models'
  BY <1>7, NilApart DEF GetLlmStep
<1>8. ASSUME NEW t \in Tasks, BuildStep(t)
      PROVE  Models'
  BY <1>8, NilApart DEF BuildStep
<1>9. ASSUME NEW t \in Tasks, RegisterStep(t)
      PROVE  Models'
  BY <1>9, NilApart DEF RegisterStep
<1>10. ASSUME NEW t \in Tasks, InsertStep(t)
      PROVE  Models'
  BY <1>10, NilApart DEF InsertStep
<1>11. ASSUME NEW t \in Tasks, LockStep(t)
      PROVE  Models'
  BY <1>11, NilApart DEF LockStep
<1>12. ASSUME NEW t \in Tasks, GiveUpStep(t)
      PROVE  Models'
  BY <1>12, NilApart DEF GiveUpStep
<1>13. ASSUME NEW t \in Tasks, BeginStep(t)
      PROVE  Models'
  BY <1>13, NilApart DEF BeginStep
<1>14. ASSUME NEW t \in Tasks, PlanStep(t)
      PROVE  Models'
  BY <1>14, NilApart DEF PlanStep
<1>15. ASSUME NEW t \in Tasks, EndStep(t)
      PROVE  Models'
  BY <1>15, NilApart DEF EndStep
<1>16. ASSUME NEW t \in Tasks, ShellStep(t)
      PROVE  Models'
  BY <1>16, NilApart DEF ShellStep
<1>17. ASSUME NEW t \in Tasks, TokenStep(t)
      PROVE  Models'
  BY <1>17, NilApart DEF TokenStep
<1>18. ASSUME NEW t \in Tasks, FindStep(t)
      PROVE  Models'
  BY <1>18, NilApart DEF FindStep
<1>19. ASSUME NEW t \in Tasks, FlagStep(t)
      PROVE  Models'
  BY <1>19, NilApart DEF FlagStep
<1>20. ASSUME NEW t \in Tasks, ProbeStep(t)
      PROVE  Models'
  BY <1>20, NilApart DEF ProbeStep
<1>21. ASSUME NEW t \in Tasks, AbortStep(t)
      PROVE  Models'
  BY <1>21, NilApart DEF AbortStep
<1>22. ASSUME NEW t \in Tasks, RemoveStep(t)
      PROVE  Models'
  BY <1>22, NilApart DEF RemoveStep
<1>23. ASSUME NEW t \in Tasks, ClearStep(t)
      PROVE  Models'
  BY <1>23, NilApart DEF ClearStep
<1>24. ASSUME NEW t \in Tasks, SelectStep(t)
      PROVE  Models'
  BY <1>24, NilApart DEF SelectStep
<1>25. ASSUME NEW t \in Tasks, ReplaceStep(t)
      PROVE  Models'
  BY <1>25, NilApart DEF ReplaceStep
<1>26. ASSUME NEW t \in Tasks, SwapStep(t)
      PROVE  Models'
  BY <1>26, NilApart DEF SwapStep
<1>27. ASSUME NEW t \in Tasks, UpdateStep(t)
      PROVE  Models'
  BY <1>27, NilApart DEF UpdateStep
<1>28. ASSUME NEW t \in Tasks, CloseStep(t)
      PROVE  Models'
  BY <1>28, NilApart DEF CloseStep
<1>z. QED
  BY <1>s, <1>0, <1>1, <1>2, <1>3, <1>4, <1>5, <1>6, <1>7, <1>8, <1>9,
     <1>10, <1>11, <1>12, <1>13, <1>14, <1>15, <1>16, <1>17, <1>18, <1>19,
     <1>20, <1>21, <1>22, <1>23, <1>24, <1>25, <1>26, <1>27, <1>28
     DEF Steps

-----------------------------------------------------------------------------
(* The theorems.                                                           *)

(* The initial states satisfy the inductive invariant.                     *)
LEMMA InitIInv == Init => IInv
<1> SUFFICES ASSUME Init PROVE IInv
  OBVIOUS
<1>1. TypeOK
  <2>1. TaskTypes
    BY DEF Init, TaskTypes, Pc
  <2>2. LoopTypes
    BY DEF Init, LoopTypes
  <2>3. plan \in {Nil, Old} /\ file = {plan} \ {Nil} /\ line \in Line \cup {Nil}
    BY DEF Init, Line
  <2>4. StateTypes
    BY <2>3 DEF Init, StateTypes, Names
  <2>5. QED
    BY <2>1, <2>2, <2>4, TypeParts
<1>2. entry = Nil /\ \A t \in Tasks :
        /\ pc[t] = "idle" /\ kind[t] = Nil /\ mine[t] = Nil
        /\ loop[t] = Nil /\ aimed[t] = {}
  BY DEF Init
<1>3. References /\ Locks /\ Single /\ Listing /\ Aims
  BY <1>2, NilApart
     DEF References, Locks, Single, Listing, Aims, Early, OnLoop, Holds
<1>4. Forgets
  <2>1. plan \in {Nil, Old} /\ file \subseteq {Old} /\ erased = {}
    BY DEF Init
  <2>2. QED
    BY <1>2, <2>1, SessionsAssumption DEF Forgets, OnLoop
<1>5. Models
  <2>1. runtime = llm
    BY DEF Init
  <2>2. QED
    BY <1>2, <2>1, NilApart DEF Models, Changing, Building
<1>6. QED
  BY <1>1, <1>3, <1>4, <1>5 DEF IInv

(* Every step keeps the inductive invariant.                               *)
LEMMA NextIInv ==
  ASSUME IInv, [Next]_vars
  PROVE  IInv'
<1>1. /\ TypeOK /\ References /\ Locks /\ Single
      /\ Listing /\ Aims /\ Forgets /\ Models
  BY DEF IInv
<1>2. TypeOK' /\ References' /\ Locks' /\ Single'
  BY <1>1, TypeStep, ReferencesStep, LocksStep, SingleStep
<1>3. Listing' /\ Aims' /\ Forgets' /\ Models'
  BY <1>1, ListingStep, AimsStep, ForgetsStep, ModelsStep
<1>4. QED
  BY <1>2, <1>3 DEF IInv

(* The inductive invariant holds in every reachable state.                 *)
THEOREM SessionsInvariant == Spec => []IInv
<1>1. Init => IInv
  BY InitIInv
<1>2. IInv /\ [Next]_vars => IInv'
  BY NextIInv
<1>3. QED
  BY <1>1, <1>2, PTL DEF Spec

(* One turn of a session at a time, and a line with a path for the session *)
(* in the map, while no two tasks built its loop and none was using it     *)
(* when it was reset: whichever entry points call, and however often.      *)
THEOREM SessionsSoundCorrect == Spec => []SessionsSound
<1>1. IInv => SessionsSound
  <2> SUFFICES ASSUME IInv PROVE SessionsSound
    OBVIOUS
  <2>1. OneTurn
    <3> SUFFICES ASSUME Settled, NEW t \in Tasks, NEW u \in Tasks,
                        Stepping(t), Stepping(u)
                 PROVE  t = u
      BY DEF OneTurn, Settled
    <3>1. mine[t] = entry /\ mine[u] = entry
      BY DEF IInv, Single, Stepping, OnLoop
    <3>2. Mine(t).lock = t /\ Mine(u).lock = u
      BY DEF IInv, Locks, Holds, Stepping
    <3>3. QED
      BY <3>1, <3>2 DEF Mine
  <2>2. Listed
    BY DEF IInv, Listing, NoOrphan, Listed
  <2>3. QED
    BY <2>1, <2>2 DEF IInv, SessionsSound
<1>2. QED
  BY <1>1, SessionsInvariant, PTL

(* A bot's turn, or an ACP run, has its loop answer to it until it ends,   *)
(* whatever the scheduler and the commands do to the loop meanwhile.       *)
THEOREM AnswersSenderCorrect == Spec => []AnswersSender
<1>1. IInv => AnswersSender
  BY DEF IInv, Locks, AnswersSender, Stepping
<1>2. QED
  BY <1>1, SessionsInvariant, PTL

(* cancel_session reaches every turn that was running when it was called,  *)
(* as long as the session has one loop.                                    *)
THEOREM CancelReachesCorrect == Spec => []CancelReaches
<1>1. IInv => CancelReaches
  BY DEF IInv, Aims, Settled, CancelReaches
<1>2. QED
  BY <1>1, SessionsInvariant, PTL

(* What /new erased of a session that nobody used stays erased, in the     *)
(* transcript, the loops' memory and the plan.                             *)
THEOREM ResetForgetsCorrect == Spec => []ResetForgets
<1>1. IInv => ResetForgets
  BY DEF IInv, Forgets, NoOrphan, ResetForgets, Stepping, OnLoop
<1>2. QED
  BY <1>1, SessionsInvariant, PTL

(* Changes of the model that do not overlap take effect in the session's   *)
(* loop and in the sub-agent runtime.                                      *)
THEOREM ModelTakesEffectCorrect == Spec => []ModelTakesEffect
<1>1. IInv => ModelTakesEffect
  <2> SUFFICES ASSUME IInv, \A t \in Tasks : ~ChangesModel(t),
                      "model" \notin raced
               PROVE  /\ entry # Nil => loop[entry].llm = llm
                      /\ runtime \in {llm, Nil}
    BY DEF ModelTakesEffect
  <2>1. \A t \in Tasks :
          kind[t] = "model" => pc[t] \notin {"replace", "swap", "lock"}
    BY DEF ChangesModel, Busy
  <2>2. QED
    BY <2>1 DEF IInv, Models, Changing
<1>2. QED
  BY <1>1, SessionsInvariant, PTL
=============================================================================
