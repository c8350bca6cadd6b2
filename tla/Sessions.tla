------------------------------ MODULE Sessions ------------------------------
(***************************************************************************)
(* The session manager (src/src/session_manager.rs, session/factory.rs,    *)
(* session/repository.rs) and the entry points that drive it: messages to  *)
(* the Telegram and Discord bots, runs of the ACP server, the CLI, the     *)
(* scheduler's turns, the commands of app/commands.rs and the shell        *)
(* escape.                                                                 *)
(*                                                                         *)
(* One session is modelled.  Its loop sits in a map behind a mutex and has *)
(* a mutex of its own; a turn of a user also needs the session's           *)
(* foreground permit.  Every operation runs as a task: it looks the loop   *)
(* up, or builds one and inserts it later, so operations interleave        *)
(* between any two locks.  Each task performs one operation, and what it   *)
(* brings about bears its name: the turn it takes, the loop it builds, the *)
(* model it selects, the output it answers to.                             *)
(*                                                                         *)
(* What a turn does inside its loop is the matter of AgentTurn, and the    *)
(* code-mode cell that a cancellation aborts that of CodeMode.  The        *)
(* definitions marked "Mutant" are mistakes that their neighbours could    *)
(* contain and that a property must notice; nothing uses them.             *)
(***************************************************************************)
EXTENDS Naturals, FiniteSets

CONSTANTS
  Tasks,   \* the operations that may be under way
  Kinds,   \* the kinds of operations in use
  Old,     \* what an earlier run of the program left behind
  Nil      \* no value

(* A message to a bot, a run of the ACP server, a line of the CLI, a       *)
(* scheduled turn, /agent.                                                 *)
Turns == {"chat", "acp", "cli", "scheduled", "agent"}

(* Operations that take the foreground permit.                             *)
Foreground == {"chat", "acp", "cli", "shell"}

(* cancel_session is asked for by a user, by /cancel_task, by /new, or by  *)
(* the guard of an ACP run whose response stream is dropped.               *)
Cancels == {"cancel", "cancel_task", "new", "guard"}

(* command: /status, /context, /autopilot and /manual, which lock the loop *)
(* but take no turn.                                                       *)
AllKinds == Turns \cup Cancels \cup {"shell", "command", "model"}

Names == Tasks \cup {Old}

(* An AgentLoop behind its mutex, with the flag cancelled.                 *)
Loop == [lock : Tasks \cup {Nil}, flag : BOOLEAN, output : Tasks,
         memory : SUBSET Names, llm : Names, tools : BOOLEAN]

(* The session's line in the registry.                                     *)
Line == [path : BOOLEAN, turns : Nat]

ASSUME SessionsAssumption ==
  /\ Kinds \subseteq AllKinds
  /\ IsFiniteSet(Tasks)
  /\ Old # Nil /\ {Old, Nil} \cap Tasks = {}
  /\ Nil \notin AllKinds \cup Loop \cup Line

(* Where a task stands: the step it will take next.                        *)
Pc == {"idle", "permit", "lookup", "touch", "llm", "build", "register",
       "insert", "lock", "relock", "locked", "stepping", "shell", "killing",
       "drain", "leave", "token", "find", "flag", "probe", "abort", "remove",
       "clear", "select", "replace", "swap", "done"}

Building == {"build", "register", "insert"}

VARIABLES
  tooled,    \* main has registered the scheduler's tool
  llm,       \* SessionManager::llm; Nil if none is configured
  runtime,   \* SessionManager::subagent_runtime: the model it was made with
  entry,     \* SessionManager::sessions: the session's loop
  permit,    \* SessionManager::foreground_tasks: who holds the permit
  tokens,    \* the holders whose cancel_token is cancelled
  loop,      \* the loops that were built
  line,      \* SessionRegistryStore::cache
  file,      \* the turns in the session's transcript
  plan,      \* the turn that wrote the session's task plan
  streams,   \* ACP runs whose response stream is open
  guards,    \* ACP runs whose CancelGuard was dropped, to be cancelled
  pc, kind, mine, got, cause,  \* a task: place, operation, loop, model, run
  gone,      \* history: ACP runs whose client disconnected
  aimed,     \* history: the turns that were running when a cancel began
  erased,    \* history: the turns that a quiet reset erased
  raced      \* history: the races that happened

managerVars == <<tooled, llm, runtime, entry, permit, tokens>>
storeVars   == <<line, file, plan>>
acpVars     == <<streams, guards, gone>>
localVars   == <<kind, mine, got, cause, aimed>>
historyVars == <<erased, raced>>
vars == <<managerVars, loop, storeVars, acpVars, pc, localVars, historyVars>>

Init ==
  /\ tooled = FALSE
  /\ llm \in {Nil, Old} /\ runtime = llm
  /\ entry = Nil /\ permit = Nil /\ tokens = {}
  /\ loop = [t \in Tasks |-> Nil]
  /\ plan \in {Nil, Old}
  /\ line = IF plan = Nil THEN Nil ELSE [path |-> TRUE, turns |-> 1]
  /\ file = {plan} \ {Nil}
  /\ streams = {} /\ guards = {}
  /\ kind = [t \in Tasks |-> Nil] /\ pc = [t \in Tasks |-> "idle"]
  /\ mine = [t \in Tasks |-> Nil] /\ got = [t \in Tasks |-> Nil]
  /\ cause = [t \in Tasks |-> Nil]
  /\ gone = {} /\ aimed = [t \in Tasks |-> {}] /\ erased = {} /\ raced = {}

-----------------------------------------------------------------------------
Goto(t, l) == pc' = [pc EXCEPT ![t] = l]

(* A task that is through is forgotten.                                    *)
Finish(t) ==
  /\ Goto(t, "done")
  /\ kind' = [kind EXCEPT ![t] = Nil] /\ cause' = [cause EXCEPT ![t] = Nil]
  /\ mine' = [mine EXCEPT ![t] = Nil] /\ got' = [got EXCEPT ![t] = Nil]
  /\ aimed' = [aimed EXCEPT ![t] = {}]

(* A turn that is over, or cannot be taken: its permit goes with its guard. *)
Quit(t) == IF permit = t THEN Goto(t, "leave") /\ UNCHANGED localVars
           ELSE Finish(t)

(* A task gets hold of a loop, or of a model.                              *)
Refer(t, l) ==
  mine' = [mine EXCEPT ![t] = l] /\ UNCHANGED <<kind, got, cause, aimed>>
Keep(t, m) ==
  got' = [got EXCEPT ![t] = m] /\ UNCHANGED <<kind, mine, cause, aimed>>

Stepping(t) == pc[t] = "stepping"
Busy(t)     == pc[t] \notin {"idle", "done"}
ChangesModel(t) == kind[t] = "model" /\ Busy(t)

(* The loop t refers to, and a change of it.                               *)
Mine(t) == loop[mine[t]]
Set(t, l) == loop' = [loop EXCEPT ![mine[t]] = l]

(* The loops somebody can still reach.                                     *)
Live == ({entry} \cup {mine[t] : t \in Tasks}) \ {Nil}

(* The tasks that have looked the session up, or are building its loop.    *)
InUse(t) ==
  pc[t] \in {"touch", "llm", "build", "register", "insert", "lock", "relock",
             "locked", "stepping"}

FirstStep(k) ==
  CASE k \in Foreground -> "permit"
    [] k \in {"scheduled", "agent", "command"} -> "lookup"
    [] k \in Cancels -> "token"
    [] k = "model" -> "select"

(* A task is spawned for an operation of kind k.                           *)
Dispatch(t, k) ==
  /\ pc[t] = "idle" /\ k \in Kinds
  /\ kind' = [kind EXCEPT ![t] = k]
  /\ Goto(t, FirstStep(k))
  /\ aimed' = IF k \in Cancels
              THEN [aimed EXCEPT ![t] = {u \in Tasks : Stepping(u)}] ELSE aimed
  /\ UNCHANGED <<managerVars, loop, storeVars, gone, mine, got, historyVars>>

(* A message to the Telegram bot starts a turn or a shell command, or asks *)
(* to stop what is under way; a message to the Discord bot does the first  *)
(* two.                                                                    *)
TelegramMessage(t) ==
  /\ tooled
  /\ \E k \in {"chat", "shell", "cancel"} : Dispatch(t, k)
  /\ UNCHANGED <<streams, guards, cause>>

DiscordMessage(t) ==
  /\ tooled
  /\ \E k \in {"chat", "shell"} : Dispatch(t, k)
  /\ UNCHANGED <<streams, guards, cause>>

(* The button under a running turn.                                        *)
StopButton(t) ==
  tooled /\ Dispatch(t, "cancel") /\ UNCHANGED <<streams, guards, cause>>

(* A request to the ACP server; its response is a stream.                  *)
AcpRequest(t) ==
  /\ tooled
  /\ \E k \in {"acp", "shell"} : Dispatch(t, k)
  /\ streams' = streams \cup {t} /\ UNCHANGED <<guards, cause>>

(* A line or an interrupt of the CLI.                                      *)
CliLine(t) ==
  /\ tooled
  /\ \E k \in {"cli", "shell", "cancel"} : Dispatch(t, k)
  /\ UNCHANGED <<streams, guards, cause>>

(* A command of any front end.                                             *)
Execute(t) ==
  /\ tooled
  /\ \E k \in {"agent", "command", "model", "cancel", "cancel_task", "new"} :
       Dispatch(t, k)
  /\ UNCHANGED <<streams, guards, cause>>

(* The scheduler starts a due task; it was spawned before the tool was     *)
(* registered and before the front ends.                                   *)
RunScheduled(t) == Dispatch(t, "scheduled") /\ UNCHANGED <<streams, guards, cause>>

(* The cancellation that a dropped CancelGuard spawns.                     *)
DropGuard(t) ==
  /\ \E run \in guards :
       guards' = guards \ {run} /\ cause' = [cause EXCEPT ![t] = run]
  /\ Dispatch(t, "guard") /\ UNCHANGED streams

(* add_tool: the tools are locked while the runtime is replaced.           *)
AddTool ==
  /\ ~tooled
  /\ tooled' = TRUE /\ runtime' = llm
  /\ UNCHANGED <<llm, entry, permit, tokens, loop, storeVars, acpVars,
                 pc, localVars, historyVars>>

-----------------------------------------------------------------------------
(* try_acquire_foreground and the guard's drop.                            *)

AcquirePermit(t) ==
  /\ pc[t] = "permit"
  /\ \/ permit # Nil /\ Finish(t) /\ UNCHANGED <<permit, tokens>>
     \/ /\ permit = Nil
        /\ permit' = t /\ tokens' = tokens \ {t}
        /\ Goto(t, IF kind[t] = "shell" THEN "shell" ELSE "lookup")
        /\ UNCHANGED localVars
  /\ UNCHANGED <<tooled, llm, runtime, entry, loop, storeVars, acpVars, historyVars>>

(* Only the permit that is still the guard's own is removed.               *)
Leave(t) ==
  /\ pc[t] = "leave"
  /\ permit' = (IF permit = t THEN Nil ELSE permit) /\ tokens' = tokens \ {t}
  /\ Finish(t)
  /\ UNCHANGED <<tooled, llm, runtime, entry, loop, storeVars,
                 acpVars, historyVars>>

-----------------------------------------------------------------------------
(* get_or_create_session.                                                  *)

Lookup(t) ==
  /\ pc[t] = "lookup"
  /\ \/ entry # Nil /\ Refer(t, entry) /\ Goto(t, "touch")
     \/ entry = Nil /\ Goto(t, "llm") /\ UNCHANGED localVars
  /\ UNCHANGED <<managerVars, loop, storeVars, acpVars, historyVars>>

(* touch_session(None, None): a line that is missing is made up empty.     *)
Touch(t) ==
  /\ pc[t] = "touch"
  /\ line' = IF line = Nil THEN [path |-> FALSE, turns |-> 0] ELSE line
  /\ Goto(t, "lock")
  /\ UNCHANGED <<managerVars, loop, file, plan, acpVars, localVars, historyVars>>

(* Mutant: a loop is built although no model is configured.                *)
NoModelCheck(t) ==
  /\ pc[t] = "llm"
  /\ Keep(t, llm) /\ Goto(t, "build")
  /\ UNCHANGED <<managerVars, loop, storeVars, acpVars, historyVars>>

(* Without a model there is no session.                                    *)
GetLlm(t) ==
  /\ pc[t] = "llm"
  /\ \/ llm = Nil /\ Quit(t) /\ UNCHANGED raced
     \/ /\ llm # Nil
        /\ Keep(t, llm) /\ Goto(t, "build")
        /\ raced' = IF \E u \in Tasks : ChangesModel(u)
                    THEN raced \cup {"model"} ELSE raced
  /\ UNCHANGED <<managerVars, loop, storeVars, acpVars, erased>>

(* The tools and the runtime are taken, the latter made if there is none,  *)
(* and build_agent_session loads the transcript; it fails if the file      *)
(* cannot be read or a sandbox that is required is missing.                *)
Build(t) ==
  /\ pc[t] = "build"
  /\ runtime' = IF runtime = Nil THEN got[t] ELSE runtime
  /\ \/ Quit(t) /\ UNCHANGED loop
     \/ /\ loop' = [loop EXCEPT ![t] =
                      [lock |-> Nil, flag |-> FALSE, output |-> t,
                       memory |-> file, llm |-> got[t], tools |-> tooled]]
        /\ Refer(t, t) /\ Goto(t, "register")
  /\ UNCHANGED <<tooled, llm, entry, permit, tokens, storeVars, acpVars,
                 historyVars>>

(* Mutant: the line is touched as that of a known session is.              *)
RegisterPathless(t) ==
  /\ pc[t] = "register"
  /\ line' = IF line = Nil THEN [path |-> FALSE, turns |-> 0] ELSE line
  /\ Goto(t, "insert")
  /\ UNCHANGED <<managerVars, loop, file, plan, acpVars, localVars, historyVars>>

(* touch_session with the path and the number of turns.                    *)
Register(t) ==
  /\ pc[t] = "register"
  /\ line' = [path |-> TRUE, turns |-> Cardinality(Mine(t).memory)]
  /\ Goto(t, "insert")
  /\ UNCHANGED <<managerVars, loop, file, plan, acpVars, localVars, historyVars>>

(* The new loop goes into the map, whatever is there by now.               *)
Insert(t) ==
  /\ pc[t] = "insert"
  /\ entry' = mine[t]
  /\ raced' = IF entry = Nil THEN raced ELSE raced \cup {"twice"}
  /\ Keep(t, Nil) /\ Goto(t, "lock")
  /\ UNCHANGED <<tooled, llm, runtime, permit, tokens, loop, storeVars,
                 acpVars, erased>>

-----------------------------------------------------------------------------
(* Turns and commands on the loop.                                         *)

Locked(t, l) == [l EXCEPT !.lock = t]
LockFree(t)  == pc[t] = "lock" /\ Mine(t).lock = Nil

(* Mutant: the loop goes on answering to whom it answered last.            *)
RerouteForgotten(t) ==
  /\ LockFree(t) /\ kind[t] \in {"chat", "acp"}
  /\ Set(t, [Mine(t) EXCEPT !.lock = t])
  /\ Goto(t, "locked")
  /\ UNCHANGED <<managerVars, storeVars, acpVars, localVars, historyVars>>

(* A bot, or the ACP server, makes the loop answer to it and takes the     *)
(* turn under the same lock.                                               *)
LockAndReroute(t) ==
  /\ LockFree(t) /\ kind[t] \in {"chat", "acp"}
  /\ Set(t, [Mine(t) EXCEPT !.lock = t, !.output = t])
  /\ Goto(t, "locked")
  /\ UNCHANGED <<managerVars, storeVars, acpVars, localVars, historyVars>>

(* The CLI and /agent leave the loop's output alone.                       *)
LockOnly(t) ==
  /\ LockFree(t) /\ kind[t] \in {"cli", "agent"}
  /\ Set(t, Locked(t, Mine(t)))
  /\ Goto(t, "locked")
  /\ UNCHANGED <<managerVars, storeVars, acpVars, localVars, historyVars>>

(* The scheduler sets the output under one lock and takes the turn under   *)
(* another.                                                                *)
Reroute(t) ==
  /\ LockFree(t) /\ kind[t] = "scheduled"
  /\ Set(t, [Mine(t) EXCEPT !.output = t])
  /\ Goto(t, "relock")
  /\ UNCHANGED <<managerVars, storeVars, acpVars, localVars, historyVars>>

Inspect(t) ==
  /\ LockFree(t) /\ kind[t] = "command"
  /\ Finish(t)
  /\ UNCHANGED <<managerVars, loop, storeVars, acpVars, historyVars>>

(* A bot gives up after three seconds.                                     *)
LockTimesOut(t) ==
  /\ pc[t] = "lock" /\ kind[t] = "chat" /\ Mine(t).lock # Nil
  /\ Quit(t)
  /\ UNCHANGED <<managerVars, loop, storeVars, acpVars, historyVars>>

(* Mutant: the second lock is not awaited.                                 *)
NoRelock(t) ==
  /\ pc[t] = "relock"
  /\ Goto(t, "locked")
  /\ UNCHANGED <<managerVars, loop, storeVars, acpVars, localVars, historyVars>>

Relock(t) ==
  /\ pc[t] = "relock" /\ Mine(t).lock = Nil
  /\ Set(t, Locked(t, Mine(t)))
  /\ Goto(t, "locked")
  /\ UNCHANGED <<managerVars, storeVars, acpVars, localVars, historyVars>>

(* step begins: whatever cancellation came before is forgotten.            *)
StepBegins(t) ==
  /\ pc[t] = "locked"
  /\ Set(t, [Mine(t) EXCEPT !.flag = FALSE])
  /\ Goto(t, "stepping")
  /\ UNCHANGED <<managerVars, storeVars, acpVars, localVars, historyVars>>

(* The turn's loop writes the session's plan.                              *)
Plans(t) ==
  /\ pc[t] = "stepping" /\ plan # t
  /\ plan' = t
  /\ UNCHANGED <<managerVars, loop, line, file, acpVars, pc, localVars,
                 historyVars>>

(* step ends, by itself or because of the flag.  Unless it ends in an      *)
(* error, the turn is remembered and appended to the transcript, which is  *)
(* created if it is missing; appending may fail.                           *)
StepEnds(t) ==
  /\ pc[t] = "stepping"
  /\ \E turn \in {{}, {t}} : \E saved \in {{}, turn} :
       /\ file' = file \cup saved
       /\ Set(t, [Mine(t) EXCEPT !.lock = Nil, !.memory = @ \cup turn])
  /\ Quit(t)
  /\ UNCHANGED <<managerVars, line, plan, acpVars, historyVars>>

-----------------------------------------------------------------------------
(* run_shell_escape: a process group that is killed when the token is      *)
(* cancelled or thirty minutes have passed.  The command is over when its  *)
(* process has ended and its pipes are closed.                             *)

Ended(t) == Goto(t, "leave") \/ Goto(t, "drain")

(* The shell exits; a child it left behind may keep the pipes open.        *)
ShellExits(t) ==
  /\ pc[t] \in {"shell", "killing"}
  /\ Ended(t)
  /\ UNCHANGED <<managerVars, loop, storeVars, acpVars, localVars, historyVars>>

(* The token is heeded only while the process runs; so is the timeout.    *)
Kill(t) ==
  /\ pc[t] = "shell" /\ t \in tokens
  /\ Goto(t, "killing")
  /\ UNCHANGED <<managerVars, loop, storeVars, acpVars, localVars, historyVars>>

TimesOut(t) ==
  /\ pc[t] = "shell"
  /\ Goto(t, "killing")
  /\ UNCHANGED <<managerVars, loop, storeVars, acpVars, localVars, historyVars>>

(* terminate_child_tree ends the whole group, and the pipes with it.       *)
Killed(t) ==
  /\ pc[t] = "killing"
  /\ Goto(t, "leave")
  /\ UNCHANGED <<managerVars, loop, storeVars, acpVars, localVars, historyVars>>

(* The child that was left behind ends by itself.                          *)
ChildEnds(t) ==
  /\ pc[t] = "drain"
  /\ Goto(t, "leave")
  /\ UNCHANGED <<managerVars, loop, storeVars, acpVars, localVars, historyVars>>

-----------------------------------------------------------------------------
(* cancel_session, reset_session and what the commands do after them.      *)

(* The token of the operation that holds the permit is cancelled.          *)
CancelToken(t) ==
  /\ pc[t] = "token"
  /\ tokens' = tokens \cup ({permit} \ {Nil})
  /\ Goto(t, "find")
  /\ UNCHANGED <<tooled, llm, runtime, entry, permit, loop, storeVars, acpVars,
                 localVars, historyVars>>

(* Where cancel_session returns to.                                        *)
Cancelled(t) ==
  \/ kind[t] \in {"cancel", "guard"} /\ Finish(t)
  \/ kind[t] = "cancel_task" /\ Goto(t, "clear") /\ Refer(t, Nil)
  \/ kind[t] = "new" /\ Goto(t, "remove") /\ Refer(t, Nil)

FindLoop(t) ==
  /\ pc[t] = "find"
  /\ \/ entry = Nil /\ Cancelled(t)
     \/ entry # Nil /\ Refer(t, entry) /\ Goto(t, "flag")
  /\ UNCHANGED <<managerVars, loop, storeVars, acpVars, historyVars>>

(* Mutant: the waiters are notified, but the flag is not stored.           *)
SkipFlag(t) ==
  /\ pc[t] = "flag"
  /\ Goto(t, "probe")
  /\ UNCHANGED <<managerVars, loop, storeVars, acpVars, localVars, historyVars>>

(* The flag is stored and whoever waits in the loop is notified.           *)
Flag(t) ==
  /\ pc[t] = "flag"
  /\ Set(t, [Mine(t) EXCEPT !.flag = TRUE])
  /\ Goto(t, "probe")
  /\ UNCHANGED <<managerVars, storeVars, acpVars, localVars, historyVars>>

(* A loop that is not locked is idle: its code-mode cell is aborted.       *)
Probe(t) ==
  /\ pc[t] = "probe"
  /\ \/ Mine(t).lock # Nil /\ Cancelled(t) /\ UNCHANGED loop
     \/ /\ Mine(t).lock = Nil
        /\ Set(t, Locked(t, Mine(t)))
        /\ Goto(t, "abort") /\ UNCHANGED localVars
  /\ UNCHANGED <<managerVars, storeVars, acpVars, historyVars>>

Abort(t) ==
  /\ pc[t] = "abort"
  /\ Set(t, [Mine(t) EXCEPT !.lock = Nil])
  /\ Cancelled(t)
  /\ UNCHANGED <<managerVars, storeVars, acpVars, historyVars>>

(* Mutant: the loop leaves the map, its transcript stays.                  *)
KeepFile(t) ==
  /\ pc[t] = "remove"
  /\ entry' = Nil /\ line' = Nil
  /\ IF \E u \in Tasks : InUse(u)
     THEN raced' = raced \cup {"orphan"} /\ UNCHANGED erased
     ELSE erased' = erased \cup file \cup ({plan} \ {Nil}) /\ UNCHANGED raced
  /\ Goto(t, "clear")
  /\ UNCHANGED <<tooled, llm, runtime, permit, tokens, loop, file, plan,
                 acpVars, localVars>>

(* reset_session: the loop leaves the map, its transcript and its line go. *)
Remove(t) ==
  /\ pc[t] = "remove"
  /\ entry' = Nil /\ line' = Nil /\ file' = {}
  /\ IF \E u \in Tasks : InUse(u)
     THEN raced' = raced \cup {"orphan"} /\ UNCHANGED erased
     ELSE erased' = erased \cup file \cup ({plan} \ {Nil}) /\ UNCHANGED raced
  /\ Goto(t, "clear")
  /\ UNCHANGED <<tooled, llm, runtime, permit, tokens, loop, plan, acpVars,
                 localVars>>

(* The command clears the task plan.                                       *)
ClearPlan(t) ==
  /\ pc[t] = "clear"
  /\ plan' = Nil
  /\ Finish(t)
  /\ UNCHANGED <<managerVars, loop, line, file, acpVars, historyVars>>

-----------------------------------------------------------------------------
(* update_session_llm.                                                     *)

SelectModel(t) ==
  /\ pc[t] = "select"
  /\ llm' = t
  /\ raced' = IF \E u \in Tasks \ {t} : pc[u] \in Building \/ ChangesModel(u)
              THEN raced \cup {"model"} ELSE raced
  /\ Goto(t, "replace")
  /\ UNCHANGED <<tooled, runtime, entry, permit, tokens, loop, storeVars,
                 acpVars, localVars, erased>>

ReplaceRuntime(t) ==
  /\ pc[t] = "replace"
  /\ runtime' = t
  /\ Goto(t, "swap")
  /\ UNCHANGED <<tooled, llm, entry, permit, tokens, loop, storeVars, acpVars,
                 localVars, historyVars>>

(* The session's loop, if there is one, gets the model under its lock.     *)
FindForModel(t) ==
  /\ pc[t] = "swap"
  /\ \/ entry = Nil /\ Finish(t)
     \/ entry # Nil /\ Refer(t, entry) /\ Goto(t, "lock")
  /\ UNCHANGED <<managerVars, loop, storeVars, acpVars, historyVars>>

(* Mutant: only the default for new sessions is changed.                   *)
DefaultOnly(t) ==
  /\ pc[t] = "lock" /\ kind[t] = "model" /\ Mine(t).lock = Nil
  /\ Finish(t)
  /\ UNCHANGED <<managerVars, loop, storeVars, acpVars, historyVars>>

UpdateLlm(t) ==
  /\ pc[t] = "lock" /\ kind[t] = "model" /\ Mine(t).lock = Nil
  /\ Set(t, [Mine(t) EXCEPT !.llm = t])
  /\ Finish(t)
  /\ UNCHANGED <<managerVars, storeVars, acpVars, historyVars>>

-----------------------------------------------------------------------------
(* The response streams of ACP runs.                                       *)

Close(t) == streams' = streams \ {t} /\ guards' = guards \cup {t}

(* The stream ends when nothing can send on it any more: the run is over   *)
(* and no loop answers to it.  The guard is dropped with it.               *)
StreamEnds(t) ==
  /\ t \in streams /\ pc[t] = "done"
  /\ \A l \in Live : loop[l].output # t
  /\ Close(t)
  /\ UNCHANGED <<managerVars, loop, storeVars, gone, pc, localVars, historyVars>>

(* The client disconnects.                                                 *)
Disconnect(t) ==
  /\ t \in streams
  /\ Close(t) /\ gone' = gone \cup {t}
  /\ UNCHANGED <<managerVars, loop, storeVars, pc, localVars, historyVars>>

-----------------------------------------------------------------------------
Get(t)    == Lookup(t) \/ Touch(t) \/ GetLlm(t) \/ Build(t) \/ Register(t)
               \/ Insert(t)
Take(t)   == LockAndReroute(t) \/ LockOnly(t) \/ Reroute(t) \/ Inspect(t)
               \/ LockTimesOut(t) \/ Relock(t) \/ StepBegins(t) \/ StepEnds(t)
Shell(t)  == ShellExits(t) \/ Kill(t) \/ Killed(t)
Cancel(t) == CancelToken(t) \/ FindLoop(t) \/ Flag(t) \/ Probe(t) \/ Abort(t)
               \/ Remove(t) \/ ClearPlan(t)
Model(t)  == SelectModel(t) \/ ReplaceRuntime(t) \/ FindForModel(t)
               \/ UpdateLlm(t)
Run(t)    == AcquirePermit(t) \/ Leave(t) \/ Get(t) \/ Take(t) \/ Shell(t)
               \/ Cancel(t) \/ Model(t)

(* All operations are through.                                             *)
Quiet == (\A t \in Tasks : pc[t] = "done") /\ UNCHANGED vars

Next ==
  \/ \E t \in Tasks :
       \/ TelegramMessage(t) \/ DiscordMessage(t) \/ StopButton(t)
       \/ AcpRequest(t) \/ CliLine(t) \/ Execute(t)
       \/ RunScheduled(t) \/ DropGuard(t)
       \/ Run(t) \/ Plans(t) \/ TimesOut(t) \/ ChildEnds(t)
       \/ StreamEnds(t) \/ Disconnect(t)
  \/ AddTool \/ Quiet

Spec == Init /\ [][Next]_vars

(* The executor runs every task that can go on, the loop's mutex serves    *)
(* those that wait for it, and a turn ends.  Nothing forces an operation   *)
(* to begin, a client to leave or the child of a shell to end.             *)
Fairness == \A t \in Tasks : WF_vars(Run(t)) /\ SF_vars(Take(t))
FairSpec == Spec /\ Fairness

-----------------------------------------------------------------------------
(* Correctness.                                                            *)

(* Every variable has its type.                                            *)
TypeOK ==
  /\ tooled \in BOOLEAN
  /\ {llm, runtime} \subseteq Names \cup {Nil}
  /\ {entry, permit} \subseteq Tasks \cup {Nil} /\ tokens \subseteq Tasks
  /\ loop \in [Tasks -> Loop \cup {Nil}]
  /\ line \in Line \cup {Nil} /\ file \subseteq Names
  /\ plan \in Names \cup {Nil}
  /\ {streams, guards, gone} \subseteq SUBSET Tasks
  /\ kind \in [Tasks -> AllKinds \cup {Nil}] /\ pc \in [Tasks -> Pc]
  /\ {mine, cause} \subseteq [Tasks -> Tasks \cup {Nil}]
  /\ got \in [Tasks -> Names \cup {Nil}]
  /\ aimed \in [Tasks -> SUBSET Tasks] /\ erased \subseteq Names
  /\ raced \subseteq {"twice", "orphan", "model"}

(* The permit covers bots, ACP runs and the CLI, but neither the scheduler *)
(* nor /agent.  What keeps their turns apart is the mutex of the session's *)
(* one loop: two turns of a session run at once only after two tasks have  *)
(* built a loop for it, or a reset has removed a loop in use.              *)
OneTurn ==
  raced \cap {"twice", "orphan"} = {}
    => \A t, u \in Tasks : Stepping(t) /\ Stepping(u) => t = u

(* A message to a bot or a run of the ACP server is answered where it came *)
(* from, whichever turns, commands and tasks of the scheduler use the same *)
(* loop meanwhile.                                                         *)
AnswersSender ==
  \A t \in Tasks :
    Stepping(t) /\ kind[t] \in {"chat", "acp"} => Mine(t).output = t

(* Once cancel_session has stored the flag, no turn goes on unaware that   *)
(* was running when the cancellation began, unless the session has, or     *)
(* had, more than one loop.                                                *)
CancelReaches ==
  raced \cap {"twice", "orphan"} = {}
    => \A t \in Tasks :
         pc[t] \in {"probe", "abort", "remove", "clear"}
           => \A u \in aimed[t] : Stepping(u) => Mine(u).flag

(* What a reset has erased while nobody used the session does not return,  *)
(* not in the transcript, not in the memory of a loop, and once the        *)
(* command is through, not as the task plan.                               *)
ResetForgets ==
  "orphan" \notin raced
    => /\ file \cap erased = {}
       /\ plan \in erased => \E t \in Tasks : pc[t] = "clear"
       /\ entry # Nil => loop[entry].memory \cap erased = {}
       /\ \A t \in Tasks : Stepping(t) => Mine(t).memory \cap erased = {}

(* When no change of the model is under way, the session's loop and the    *)
(* sub-agent runtime use the model that was selected last, unless changes  *)
(* overlapped with each other or with the building of a loop.              *)
ModelTakesEffect ==
  (\A t \in Tasks : ~ChangesModel(t)) /\ "model" \notin raced
    => /\ entry # Nil => loop[entry].llm = llm
       /\ runtime \in {llm, Nil}

(* A session in the map is listed by /session, with its transcript's path, *)
(* unless a reset removed its line between its entry and its insertion.    *)
Listed == entry # Nil /\ "orphan" \notin raced => line # Nil /\ line.path

(* The map, the loops and the list of a session agree (session_manager.rs):*)
(* one turn at a time, one line for each session.                          *)
SessionsSound == TypeOK /\ OneTurn /\ Listed

(* Whoever takes the permit for a turn gives it back: the turn ends,       *)
(* cannot be taken, or gives up waiting for the loop.                      *)
PermitReturned ==
  \A t \in Tasks : permit = t /\ kind[t] # "shell" ~> permit # t

-----------------------------------------------------------------------------
(* What the source says and the code does not do.                          *)

(* acp/output.rs, CancelGuard: "ACP client disconnected, requested         *)
(* cancellation": the guard of a run stops what is running only when its   *)
(* client has left.                                                        *)
OnlyLostClients ==
  \A t \in Tasks :
    kind[t] = "guard" /\ pc[t] = "probe" /\ (\E u \in aimed[t] : Stepping(u))
      => cause[t] \in gone

(* shell_escape.rs: no "background child process survived cancellation";   *)
(* and session_manager.rs tells the next user to "wait for it to finish or *)
(* cancel it first".                                                       *)
CancelFreesShell ==
  \A t \in Tasks :
    permit = t /\ kind[t] = "shell" /\ t \in tokens ~> permit # t

(* main.rs: "Registering the tool here is safe because no sessions have    *)
(* been created yet".                                                      *)
EveryLoopHasTool == \A t \in Tasks : loop[t] # Nil => loop[t].tools
=============================================================================
