------------------------------ MODULE AgentTurn ------------------------------
(***************************************************************************)
(* The agent loop: AgentLoop::step (src/src/core.rs) with its helpers      *)
(* (core/step_helpers.rs), the executor of tool calls                      *)
(* (tools/invocation.rs) and what it writes to the conversation            *)
(* (context/turns.rs, context/history.rs, context/transcript.rs).          *)
(*                                                                         *)
(* A step answers one input.  It asks the model, runs the tools the model  *)
(* calls, and asks again until one of its exits is reached.  While it      *)
(* waits for the model or for a tool a user may cancel it, in two steps:   *)
(* a flag is stored, then whoever waits is woken.  The process may be      *)
(* killed at any step and reloads the conversation from the transcript.    *)
(*                                                                         *)
(* An answer of the model is its calls and what can be seen of its text; a *)
(* call is its kind.  Prompts, results, skills and notices are left out.   *)
(* A definition marked "Mutant" is a mistake its neighbour could contain   *)
(* and that a property must notice; nothing uses it.                       *)
(***************************************************************************)
EXTENDS Integers, Sequences, FiniteSets

CONSTANTS
  Modes,        \* loops considered: "main", "auto" (autopilot), "sub"
  Kinds,        \* kinds of calls the model makes
  Budget,       \* initial_energy_budget
  Energy,       \* INITIAL_ENERGY, given when autopilot has made progress
  MaxAttempts,  \* MAX_LLM_RECOVERY_ATTEMPTS
  MaxEmpty,     \* MAX_CONSECUTIVE_EMPTY_RESPONSES
  Repeats,      \* equal outcomes in a row that make a strike
  Keep,         \* keep_turns of the compaction when energy is given anew
  MaxTurns,     \* bound: inputs
  MaxCalls,     \* bound: calls in an answer
  MaxTodos,     \* bound: items in TODOS.md
  MaxRestarts   \* bound: how often the process is killed

AllModes == {"main", "auto", "sub"}

(* A tool without effects, one with effects, one that may write TODOS.md,  *)
(* the question to the user, code mode, and a call with no name or of an   *)
(* unknown tool.                                                           *)
AllKinds == {"read", "edit", "todo", "ask", "exec", "ghost"}

ASSUME AgentAssumption ==
  /\ Modes \subseteq AllModes /\ Kinds \subseteq AllKinds
  /\ {Budget, Energy, MaxAttempts, MaxEmpty, Repeats} \subseteq Nat \ {0}
  /\ {Keep, MaxTurns, MaxCalls, MaxTodos, MaxRestarts} \subseteq Nat

VARIABLES
  mode,        \* is_autopilot and is_subagent
  pc,          \* where step() stands
  exit,        \* what the last step() returned
  cancelled,   \* the flag
  ringing,     \* a canceller has stored the flag, and not yet woken anybody
  woken,       \* the pending notified() of the loop is ready
  energy,      \* energy_points
  empties,     \* consecutive_empty_responses
  checked,     \* compaction_checked
  attempts,    \* llm_attempts
  calls,       \* tool_calls_accumulated, and what is left of them in a round
  budget,      \* the round's StepBudgetHandle
  answered,    \* how many response_parts the round has
  skip,        \* skip_remaining
  asking,      \* should_yield_to_user
  melted,      \* a response carries the signal autopilot_meltdown
  last, run,   \* action_history: the latest key, how often in a row
  strike,      \* reflection_strike
  turn,        \* current_turn: its number, or 0
  owed,        \* calls recorded in it that have no response yet
  dialogue,    \* dialogue_history
  transcript,  \* the .jsonl file
  todos,       \* TODOS.md: whether it exists, items done and open
  baseline,    \* autopilot_todos_completed_count
  turns,       \* history: how many turns were started
  from,        \* history: baseline when the step began
  asks,        \* history: iterations of the step that asked the model
  late,        \* history: waits the step began with the flag set
  restarts     \* history

envVars     == <<mode, turns, restarts>>
cancelVars  == <<cancelled, ringing>>
roundVars   == <<budget, answered, skip, asking, melted>>
guardVars   == <<last, run, strike>>
historyVars == <<turn, owed, dialogue, transcript>>
auditVars   == <<baseline, from, asks>>
vars == <<envVars, pc, exit, cancelVars, woken, energy, empties, checked,
          attempts, calls, roundVars, guardVars, historyVars, todos,
          auditVars, late>>

NoKey == <<"none", FALSE>>
NoTodos == [exists |-> FALSE, done |-> 0, open |-> 0]

(* The contents TODOS.md may have.                                         *)
Todos == {t \in [exists : BOOLEAN,
                  done : 0 .. MaxTodos, open : 0 .. MaxTodos] :
            /\ t.done + t.open <= MaxTodos
            /\ ~t.exists => t = NoTodos}

(* A turn that was kept: the inputs it stands for, more than one if it is  *)
(* a summary, and how many of its calls have no response.                  *)
Turn == [of : SUBSET (1 .. MaxTurns), owed : 0 .. MaxCalls]

(* The inputs that a conversation remembers.                               *)
Told(s) == UNION {s[i].of : i \in DOMAIN s}

-----------------------------------------------------------------------------
Init ==
  /\ mode \in Modes
  /\ pc = "idle" /\ exit = "none"
  /\ cancelled = FALSE /\ ringing = FALSE /\ woken = FALSE
  /\ energy = Budget /\ empties = 0 /\ checked = FALSE /\ attempts = 0
  /\ calls = <<>>
  /\ budget = 0 /\ answered = 0
  /\ skip = FALSE /\ asking = FALSE /\ melted = FALSE
  /\ last = NoKey /\ run = 0 /\ strike = 0
  /\ turn = 0 /\ owed = 0 /\ dialogue = <<>> /\ transcript = <<>>
  /\ todos = NoTodos /\ baseline = 0
  /\ turns = 0 /\ from = 0 /\ asks = 0 /\ late = 0 /\ restarts = 0

Autopilot == mode = "auto"

(* A wait begins: of the model or of a tool, with a fresh notified().      *)
Wait(place) ==
  /\ pc' = place /\ woken' = FALSE
  /\ late' = IF cancelled THEN late + 1 ELSE late

(* step() returns.  Its local state is gone.                               *)
Leave(e) ==
  /\ pc' = "idle" /\ exit' = e
  /\ energy' = Budget /\ empties' = 0 /\ checked' = FALSE /\ attempts' = 0
  /\ calls' = <<>> /\ woken' = FALSE
  /\ budget' = 0 /\ answered' = 0
  /\ skip' = FALSE /\ asking' = FALSE /\ melted' = FALSE

(* Mutant: the turn is remembered but not appended to the file.            *)
EndTurnUnsaved(unanswered) ==
  /\ dialogue' = Append(dialogue, [of |-> {turn}, owed |-> unanswered])
  /\ turn' = 0 /\ owed' = 0
  /\ UNCHANGED transcript

(* end_turn, with the given number of calls still without a response.      *)
EndTurn(unanswered) ==
  LET kept == [of |-> {turn}, owed |-> unanswered]
  IN /\ transcript' = Append(transcript, kept)
     /\ dialogue' = Append(dialogue, kept)
     /\ turn' = 0 /\ owed' = 0

Finish(e) == EndTurn(owed) /\ Leave(e)

(* Mutant: the compacted turns are dropped without a summary.              *)
CompactAway(n) ==
  IF n = 0 THEN UNCHANGED historyVars
  ELSE /\ transcript' = transcript \o SubSeq(dialogue, 1, n)
       /\ dialogue' = SubSeq(dialogue, n + 1, Len(dialogue))
       /\ UNCHANGED <<turn, owed>>

(* rule_based_compact of the n oldest turns, which archives them again.    *)
Compact(n) ==
  IF n = 0 THEN UNCHANGED historyVars
  ELSE /\ transcript' = transcript \o SubSeq(dialogue, 1, n)
       /\ dialogue' = <<[of |-> Told(SubSeq(dialogue, 1, n)), owed |-> 0]>>
                        \o SubSeq(dialogue, n + 1, Len(dialogue))
       /\ UNCHANGED <<turn, owed>>

-----------------------------------------------------------------------------
(* step(): from the input to the loop.                                     *)

Idle == pc = "idle"

(* A sub-agent shares its flag with its runtime and keeps it.              *)
Resets == cancelled' = (mode = "sub" /\ cancelled)

Audit == baseline' = IF Autopilot THEN todos.done ELSE baseline

(* An empty input, or one that an extension halts: no turn is started.     *)
Decline ==
  /\ Idle /\ turns < MaxTurns
  /\ exit' = "Yielded"
  /\ \/ UNCHANGED <<cancelled, baseline>>
     \/ ~(mode = "sub" /\ cancelled) /\ Resets /\ Audit
  /\ UNCHANGED <<envVars, pc, ringing, woken, energy, empties, checked,
                 attempts, calls, roundVars, guardVars, historyVars, todos,
                 from, asks, late>>

StartStopped ==
  /\ Idle /\ turns < MaxTurns /\ mode = "sub" /\ cancelled
  /\ exit' = "Stopped"
  /\ UNCHANGED <<envVars, pc, cancelVars, woken, energy, empties, checked,
                 attempts, calls, roundVars, guardVars, historyVars, todos,
                 auditVars, late>>

(* start_turn replaces the current turn, whatever it was.                  *)
Start ==
  /\ Idle /\ turns < MaxTurns /\ ~(mode = "sub" /\ cancelled)
  /\ pc' = "guard" /\ exit' = "none"
  /\ Resets /\ Audit /\ from' = baseline' /\ asks' = 0 /\ late' = 0
  /\ turns' = turns + 1 /\ turn' = turns' /\ owed' = 0
  /\ UNCHANGED <<mode, restarts, ringing, woken, energy, empties, checked,
                 attempts, calls, roundVars, guardVars, dialogue, transcript,
                 todos>>

-----------------------------------------------------------------------------
(* check_loop_guards, at the head of every iteration.                      *)

AtGuard == pc = "guard"

Stops ==
  /\ AtGuard /\ cancelled
  /\ Finish("Stopped")
  /\ UNCHANGED <<envVars, cancelVars, guardVars, todos, auditVars, late>>

Spend ==
  /\ AtGuard /\ ~cancelled /\ energy > 1
  /\ energy' = energy - 1 /\ pc' = "prepare"
  /\ UNCHANGED <<envVars, exit, cancelVars, woken, empties, checked, attempts,
                 calls, roundVars, guardVars, historyVars, todos, auditVars,
                 late>>

(* Mutant: what was done before the last audit counts again.               *)
AnyProgress == Autopilot /\ todos.done > 0

(* The physical audit: autopilot has finished items since the last one.    *)
Progress == Autopilot /\ todos.done > baseline

(* The budget is spent.  What follows is decided by the audit, and first   *)
(* the model is asked for a report, a request that no cancel interrupts.   *)
Exhausted ==
  /\ AtGuard /\ ~cancelled /\ energy = 1
  /\ pc' = "audit"
  /\ UNCHANGED <<envVars, exit, cancelVars, woken, energy, empties, checked,
                 attempts, calls, roundVars, guardVars, historyVars, todos,
                 auditVars, late>>

Report == late' = IF cancelled THEN late + 1 ELSE late

Refresh ==
  /\ pc = "audit" /\ Progress
  /\ Report
  /\ Compact(IF Len(dialogue) > Keep THEN Len(dialogue) - Keep ELSE 0)
  /\ energy' = Energy /\ baseline' = todos.done /\ pc' = "prepare"
  /\ UNCHANGED <<envVars, exit, cancelVars, woken, empties, checked, attempts,
                 calls, roundVars, guardVars, todos, from, asks>>

Deplete ==
  /\ pc = "audit" /\ ~Progress
  /\ Report
  /\ Finish("Depleted")
  /\ UNCHANGED <<envVars, cancelVars, guardVars, todos, auditVars>>

(* maybe_compact_history, once in a step: when the window is nearly full,  *)
(* two turns or as many as free enough of it.                              *)
Compactable ==
  {0} \cup (IF Len(dialogue) < 2 THEN {Len(dialogue)} ELSE 2 .. Len(dialogue))

Prepare ==
  /\ pc = "prepare"
  /\ IF checked THEN UNCHANGED historyVars
     ELSE \E n \in Compactable : Compact(n)
  /\ checked' = TRUE /\ attempts' = 1 /\ asks' = asks + 1
  /\ Wait("ask")
  /\ UNCHANGED <<envVars, exit, cancelVars, energy, empties, calls, roundVars,
                 guardVars, todos, baseline, from>>

-----------------------------------------------------------------------------
(* collect_stream_response.                                                *)

waitVars == <<envVars, exit, cancelVars, energy, empties, checked, roundVars,
              guardVars, historyVars, todos, auditVars>>

Connect ==
  /\ pc = "ask"
  /\ pc' = "receive" /\ woken' = FALSE
  /\ UNCHANGED <<waitVars, attempts, calls, late>>

HearCall(k) ==
  /\ pc = "receive" /\ Len(calls) < MaxCalls
  /\ calls' = Append(calls, k)
  /\ woken' = FALSE
  /\ UNCHANGED <<waitVars, pc, attempts, late>>

StreamEnds ==
  /\ pc = "receive"
  /\ pc' = "reply" /\ woken' = FALSE /\ attempts' = 0
  /\ UNCHANGED <<waitVars, calls, late>>

(* Mutant: one attempt too many.                                           *)
RetriedOnceMore == attempts <= MaxAttempts

(* handle_llm_error: a transient error is retried after a pause.           *)
Retried == attempts < MaxAttempts

(* Mutant: the calls of the broken stream are kept.                        *)
RetryKeeping ==
  /\ pc \in {"ask", "receive"} /\ Retried
  /\ pc' = "backoff" /\ woken' = FALSE
  /\ UNCHANGED <<waitVars, attempts, calls, late>>

Retry ==
  /\ pc \in {"ask", "receive"} /\ Retried
  /\ pc' = "backoff" /\ woken' = FALSE
  /\ calls' = <<>>
  /\ UNCHANGED <<waitVars, attempts, late>>

(* Any other error leaves step() with it, through `?`.                     *)
Fail ==
  /\ pc \in {"ask", "receive"}
  /\ Leave("Error")
  /\ UNCHANGED <<envVars, cancelVars, guardVars, historyVars, todos,
                 auditVars, late>>

Backoff ==
  /\ pc = "backoff"
  /\ attempts' = attempts + 1
  /\ Wait("ask")
  /\ UNCHANGED <<waitVars, calls>>

(* Mutant: returns without end_turn.                                       *)
StopWaitingOpen ==
  /\ pc \in {"ask", "receive"} /\ woken
  /\ Leave("Stopped")
  /\ UNCHANGED <<envVars, cancelVars, guardVars, historyVars, todos,
                 auditVars, late>>

StopWaiting ==
  /\ pc \in {"ask", "receive"} /\ woken
  /\ Finish("Stopped")
  /\ UNCHANGED <<envVars, cancelVars, guardVars, todos, auditVars, late>>

-----------------------------------------------------------------------------
(* What the answer is: handle_empty_iteration_response,                    *)
(* record_model_turn_and_maybe_yield, resolve_text_command_tool_calls.     *)

AtReply == pc = "reply"

Again ==
  /\ pc' = "guard" /\ calls' = <<>>
  /\ UNCHANGED <<envVars, exit, cancelVars, woken, energy, checked, attempts,
                 roundVars, guardVars, historyVars, todos, auditVars, late>>

(* Neither text nor calls.                                                 *)
Empty ==
  /\ AtReply /\ calls = <<>>
  /\ \/ /\ empties + 1 < MaxEmpty
        /\ empties' = empties + 1 /\ Again
     \/ /\ empties + 1 >= MaxEmpty
        /\ Finish("Critical")
        /\ UNCHANGED <<envVars, cancelVars, guardVars, todos, auditVars, late>>

(* A leak of the canary, with or without calls, or hidden text alone.      *)
Yield ==
  /\ AtReply
  /\ Finish("Yielded")
  /\ UNCHANGED <<envVars, cancelVars, guardVars, todos, auditVars, late>>

(* Text alone is the final answer, which autopilot with open items denies. *)
Answer ==
  /\ AtReply /\ calls = <<>>
  /\ IF Autopilot /\ todos.open > 0
     THEN empties' = 0 /\ Again
     ELSE /\ Finish("Finished")
          /\ UNCHANGED <<envVars, cancelVars, guardVars, todos, auditVars,
                         late>>

(* A text-mode exec that breaks the protocol: every call of the answer is  *)
(* recorded and answered with the error.                                   *)
Garbled ==
  /\ AtReply /\ \E i \in DOMAIN calls : calls[i] = "exec"
  /\ empties' = 0 /\ Again

Round ==
  /\ AtReply /\ calls # <<>>
  /\ pc' = "call" /\ empties' = 0
  /\ owed' = Len(calls) /\ budget' = energy
  /\ UNCHANGED <<envVars, exit, cancelVars, woken, energy, checked, attempts,
                 calls, answered, skip, asking, melted, guardVars, turn,
                 dialogue, transcript, todos, auditVars, late>>

-----------------------------------------------------------------------------
(* execute_tool_round: the calls one after the other.                      *)

Current == Head(calls)
HasCall == pc = "call" /\ calls # <<>>

(* One more response part.                                                 *)
Respond == calls' = Tail(calls) /\ answered' = answered + 1

callVars == <<envVars, exit, cancelVars, energy, empties, checked, attempts,
              historyVars, auditVars>>

Skip ==
  /\ HasCall /\ skip
  /\ Respond
  /\ UNCHANGED <<callVars, pc, woken, budget, skip, asking, melted, guardVars,
                 todos, late>>

(* autopilot_denial_for_call: plan first.                                  *)
Denied(k) == Autopilot /\ ~todos.exists /\ k \in {"edit", "exec", "ghost"}

Refuse ==
  /\ HasCall /\ ~skip
  /\ Current = "ghost" \/ Denied(Current)
  /\ Respond
  /\ UNCHANGED <<callVars, pc, woken, budget, skip, asking, melted, guardVars,
                 todos, late>>

Runnable == HasCall /\ ~skip /\ Current # "ghost" /\ ~Denied(Current)

(* Mutant: the loop over the calls is left instead of skipping the rest.   *)
HaltBreaking ==
  /\ Runnable /\ cancelled
  /\ calls' = <<>> /\ answered' = answered + 1 /\ skip' = TRUE
  /\ UNCHANGED <<callVars, pc, woken, budget, asking, melted, guardVars,
                 todos, late>>

(* dispatch_tool_call_with_executor: the run was already cancelled.        *)
Halt ==
  /\ Runnable /\ cancelled
  /\ Respond /\ skip' = TRUE
  /\ UNCHANGED <<callVars, pc, woken, budget, asking, melted, guardVars,
                 todos, late>>

(* A step of the budget for every tool but code mode, whose calls have a   *)
(* budget of their own.                                                    *)
Costs == Current # "exec"

(* Mutant: try_consume spins until there is budget.                        *)
ExhaustSpinning ==
  /\ Runnable /\ ~cancelled /\ Costs /\ budget = 0
  /\ UNCHANGED vars

Exhaust ==
  /\ Runnable /\ ~cancelled /\ Costs /\ budget = 0
  /\ Respond
  /\ UNCHANGED <<callVars, pc, woken, budget, skip, asking, melted, guardVars,
                 todos, late>>

(* Mutant: the flag is not looked at before the tool is started.           *)
Careless == TRUE

Uncancelled == ~cancelled

(* The tool's context is prepared, awaiting the extensions.                *)
Launch ==
  /\ Runnable /\ Uncancelled /\ (Costs => budget > 0)
  /\ budget' = IF Costs THEN budget - 1 ELSE budget
  /\ pc' = "enter"
  /\ UNCHANGED <<callVars, calls, woken, answered, skip, asking, melted,
                 guardVars, todos, late>>

(* invoke_tool: the tool races with its timeout and the cancel.            *)
Enter ==
  /\ pc = "enter"
  /\ Wait("run")
  /\ UNCHANGED <<callVars, calls, roundVars, guardVars, todos>>

(* What the tool has done to TODOS.md, when it failed or was stopped too.  *)
Rewrites ==
  IF Autopilot /\ Current \in {"todo", "exec"}
  THEN todos' \in Todos ELSE UNCHANGED todos

(* How many in a row once the key is recorded.  The same key may have      *)
(* other arguments, and the calls that code mode has run came in between.  *)
RunOf(key) == IF key = last THEN {1, run + 1} ELSE {1}

Strikes == IF Current = "exec" THEN strike .. 2 ELSE {strike}

(* The outcome is the n-th in a row, with s strikes before it.             *)
Recorded(key, n, s, signal) ==
  IF n < Repeats
  THEN /\ signal = "none"
       /\ last' = key /\ run' = n /\ strike' = s
  ELSE /\ signal = IF s + 1 >= 2 THEN "meltdown" ELSE "warning"
       /\ last' = NoKey /\ run' = 0
       /\ strike' = IF s < 2 THEN s + 1 ELSE 2

(* ExecutionGuardState::record_action_outcome, in autopilot only, and the  *)
(* signals it may give.                                                    *)
Record(ok, signal) ==
  \/ ~Autopilot /\ signal = "none" /\ UNCHANGED guardVars
  \/ /\ Autopilot
     /\ \E n \in RunOf(<<Current, ok>>), s \in Strikes :
          Recorded(<<Current, ok>>, n, s, signal)

Signals == {"none", "warning", "meltdown"}

(* The tool returns, fails or times out.  A signal replaces its result,    *)
(* and with it the question to the user.                                   *)
Return(ok, signal) ==
  LET asked == ok /\ signal = "none" /\ Current = "ask"
  IN /\ pc = "run"
     /\ Record(ok, signal) /\ Rewrites
     /\ Respond /\ pc' = "call" /\ woken' = FALSE
     /\ skip' = asked /\ asking' = asked
     /\ melted' = (melted \/ signal = "meltdown")
     /\ UNCHANGED <<callVars, budget, late>>

(* Cancelled: the rest is skipped, unless a signal replaces this result.   *)
Interrupt(signal) ==
  /\ pc = "run" /\ woken
  /\ Record(FALSE, signal) /\ Rewrites
  /\ Respond /\ pc' = "call" /\ woken' = FALSE
  /\ skip' = (signal = "none")
  /\ melted' = (melted \/ signal = "meltdown")
  /\ UNCHANGED <<callVars, budget, asking, late>>

-----------------------------------------------------------------------------
(* The end of the round.                                                   *)

RoundEnds == pc = "call" /\ calls = <<>>

(* A meltdown returns before the responses are recorded.                   *)
Stall ==
  /\ RoundEnds /\ melted
  /\ Leave("Stalled")
  /\ UNCHANGED <<envVars, cancelVars, guardVars, historyVars, todos,
                 auditVars, late>>

YieldToUser ==
  /\ RoundEnds /\ ~melted /\ asking
  /\ EndTurn(owed - answered) /\ Leave("Yielded")
  /\ UNCHANGED <<envVars, cancelVars, guardVars, todos, auditVars, late>>

Iterate ==
  /\ RoundEnds /\ ~melted /\ ~asking
  /\ pc' = "guard" /\ owed' = owed - answered
  /\ budget' = 0 /\ answered' = 0 /\ skip' = FALSE
  /\ UNCHANGED <<envVars, exit, cancelVars, woken, energy, empties, checked,
                 attempts, calls, asking, melted, guardVars, turn, dialogue,
                 transcript, todos, auditVars, late>>

-----------------------------------------------------------------------------
(* Around the loop: who cancels, and the end of the process.               *)

loopVars == <<envVars, exit, energy, empties, checked, attempts, calls,
              roundVars, guardVars, historyVars, todos, auditVars, late>>

Cancel ==
  /\ ~ringing
  /\ cancelled' = TRUE /\ ringing' = TRUE
  /\ UNCHANGED <<loopVars, pc, woken>>

(* notify_waiters wakes only who is waiting now.                           *)
Notify ==
  /\ ringing /\ ringing' = FALSE
  /\ woken' = (woken \/ pc \in {"ask", "receive", "run"})
  /\ UNCHANGED <<loopVars, pc, cancelled>>

(* The process is killed and started again; the session's transcript is    *)
(* loaded when it is next used.  A sub-agent does not come back.           *)
Restart ==
  /\ mode # "sub" /\ restarts < MaxRestarts
  /\ restarts' = restarts + 1
  /\ Leave("none")
  /\ cancelled' = FALSE /\ ringing' = FALSE
  /\ last' = NoKey /\ run' = 0 /\ strike' = 0
  /\ turn' = 0 /\ owed' = 0 /\ dialogue' = transcript /\ baseline' = 0
  /\ from' = 0 /\ asks' = 0 /\ late' = 0
  /\ UNCHANGED <<mode, turns, transcript, todos>>

-----------------------------------------------------------------------------
GuardStep == Stops \/ Spend \/ Exhausted \/ Refresh \/ Deplete \/ Prepare
StreamStep == \/ Connect \/ StreamEnds \/ Retry \/ Fail \/ Backoff
              \/ StopWaiting \/ \E k \in Kinds : HearCall(k)
ReplyStep == Empty \/ Yield \/ Answer \/ Garbled \/ Round
CallStep ==
  \/ Skip \/ Refuse \/ Halt \/ Exhaust \/ Launch \/ Enter
  \/ \E ok \in BOOLEAN, signal \in Signals : Return(ok, signal)
  \/ \E signal \in Signals : Interrupt(signal)
EndStep == Stall \/ YieldToUser \/ Iterate

(* What step() does until it returns.                                      *)
Loop == GuardStep \/ StreamStep \/ ReplyStep \/ CallStep \/ EndStep

Next == Loop \/ Decline \/ StartStopped \/ Start \/ Cancel \/ Notify \/ Restart

Spec == Init /\ [][Next]_vars

(* The executor polls the loop; a request ends within the timeout of the   *)
(* HTTP client, a tool within the one of invoke_tool.                      *)
FairSpec == Spec /\ WF_vars(Loop)

-----------------------------------------------------------------------------
(* Types and ranges.                                                       *)
Pc == {"idle", "guard", "audit", "prepare", "ask", "receive", "backoff",
       "reply", "call", "enter", "run"}

Exits == {"none", "Finished", "Yielded", "Stopped", "Critical", "Stalled",
          "Depleted", "Error"}

Keys == {NoKey} \cup (Kinds \X BOOLEAN)

LoopTypes ==
  /\ mode \in Modes /\ pc \in Pc /\ exit \in Exits
  /\ energy \in 1 .. (IF Energy > Budget THEN Energy ELSE Budget)
  /\ empties \in 0 .. MaxEmpty - 1 /\ attempts \in 0 .. MaxAttempts

FlagTypes ==
  /\ cancelled \in BOOLEAN /\ ringing \in BOOLEAN /\ woken \in BOOLEAN
  /\ checked \in BOOLEAN /\ skip \in BOOLEAN /\ asking \in BOOLEAN
  /\ melted \in BOOLEAN

RoundTypes ==
  /\ calls \in Seq(Kinds) /\ Len(calls) <= MaxCalls
  /\ budget \in Nat /\ answered \in Nat

GuardTypes == last \in Keys /\ run \in 0 .. Repeats - 1 /\ strike \in 0 .. 2

HistoryTypes ==
  /\ turns \in 0 .. MaxTurns /\ restarts \in 0 .. MaxRestarts
  /\ turn \in 0 .. MaxTurns /\ owed \in 0 .. MaxCalls
  /\ dialogue \in Seq(Turn) /\ transcript \in Seq(Turn)

AuditTypes ==
  /\ todos \in Todos /\ baseline \in 0 .. MaxTodos /\ from \in 0 .. MaxTodos
  /\ asks \in Nat /\ late \in Nat

(* Type correctness of the variables of the loop (src/src/core.rs:249) and *)
(* of step(): no counter leaves the range of its limit.                    *)
TypeOK ==
  /\ LoopTypes /\ FlagTypes /\ RoundTypes
  /\ GuardTypes /\ HistoryTypes /\ AuditTypes

(* Every call in the conversation has its response, in every turn that is  *)
(* kept and in every request to the model: whatever was skipped, refused,  *)
(* interrupted or replaced (step_helpers.rs:1120).  Providers reject a     *)
(* conversation in which a call has none.                                  *)
HistoryPaired ==
  /\ \A i \in DOMAIN dialogue : dialogue[i].owed = 0
  /\ \A i \in DOMAIN transcript : transcript[i].owed = 0
  /\ pc \in {"ask", "receive", "backoff"} => owed = 0

(* What the conversation remembers is in the file, so that a restart       *)
(* brings it back: end_turn (context/turns.rs:27) and rule_based_compact   *)
(* (context/history.rs:108) both change the two.                           *)
MemoryOnDisk == Told(dialogue) \subseteq Told(transcript)

(* No turn drops out of the conversation: not when it is compacted, where  *)
(* a summary, however short, stands for it, not when energy is given anew, *)
(* not when the process is restarted (docs/rusty-claw-design.md:94).       *)
Remembers == [][Told(dialogue) \subseteq Told(dialogue')]_vars

(* A step asks the model at most as often as its budget allows, plus the   *)
(* renewals, each of which autopilot has paid for with an item that was    *)
(* not done before (check_loop_guards, step_helpers.rs:614).               *)
EnergyAudit ==
  pc # "idle" => asks <= (Budget - 1) + Energy * (baseline - from)

(* Once the flag is set, and though the wakeup may be lost, the step waits *)
(* for no more than one request and its retries, or for one tool that had  *)
(* just been let in (core.rs:346, step_helpers.rs:922), and where          *)
(* autopilot reports its progress for that request too.                    *)
PromptCancel == late <= MaxAttempts + (IF Autopilot THEN 1 ELSE 0)

(* A request starts without the calls that an earlier attempt received     *)
(* before it failed: none of them is run (step_helpers.rs:252).            *)
FreshStream == pc \in {"prepare", "backoff", "ask"} => calls = <<>>

(* The conversation is sound whenever it is kept, written or sent: no call *)
(* without its response, no turn without its line in the file, no call of  *)
(* a failed attempt in a later one (collect_stream_response, end_turn).    *)
HistorySound ==
  /\ TypeOK
  /\ HistoryPaired
  /\ MemoryOnDisk
  /\ FreshStream

(* A step that returns leaves its turn open, out of the conversation and   *)
(* of the file, only after an error of the model or a meltdown: the two    *)
(* returns of step() that reach no end_turn.                               *)
ClosedOnExit ==
  [][pc # "idle" /\ pc' = "idle" /\ turn' # 0
       => exit' \in {"Error", "Stalled"}]_vars

(* Turns are neither lost when a step returns nor later (end_turn,         *)
(* rule_based_compact), but those of the two returns above.                *)
TurnsKept == ClosedOnExit /\ Remembers

(* Every input is answered: the step returns, however often the model      *)
(* fails, says nothing, repeats itself or claims progress.                 *)
TurnEnds == [](pc # "idle" => <>(pc = "idle"))

(* "Every turn is serialized to a .jsonl transcript file"                  *)
(* (docs/rusty-claw-design.md:93), and while the process lives: refuted,   *)
(* the next input overwrites a turn that an error left open.               *)
TurnsSerialized ==
  \A t \in 1 .. turns : t = turn \/ t \in Told(transcript)

=============================================================================
