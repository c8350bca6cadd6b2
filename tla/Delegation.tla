----------------------------- MODULE Delegation -----------------------------
(***************************************************************************)
(* Skills, delegation and what a turn hears of it: the SkillRuntime of a   *)
(* session (src/src/skills), the subagent tool (tools/subagent.rs) with    *)
(* the call chain it keeps (call_chain.rs), the session it builds          *)
(* (session/factory.rs) and the extension that tells a turn about its      *)
(* background jobs (subagent_notification.rs), as AgentLoop::step calls    *)
(* them.                                                                   *)
(*                                                                         *)
(* A tree of sessions: session 0 is the user's, every other is delegated   *)
(* by a tool call of its parent, in the foreground, where the parent       *)
(* waits, or as a background job.  Jobs and their parents run at the same  *)
(* time.  The jobs' own life, with slots, cancellation and removal, is the *)
(* matter of SubagentRuntime; here a job occupies a slot until it ends.    *)
(* The definitions marked "Mutant" are mistakes that their neighbours      *)
(* could contain and that a property must notice; nothing uses them.       *)
(***************************************************************************)
EXTENDS Naturals, Sequences, FiniteSets

CONSTANTS
  N,          \* delegated sessions: 1..N
  Skills,     \* the names in the registry
  Def,        \* for a skill, its allowed tools and its trigger
  NotASkill,  \* a name the registry does not have, or a plain text
  MaxCalls,   \* MAX_CALL_CHAIN_CALLS_PER_ROOT_REQUEST (6)
  MaxDepth,   \* MAX_CALL_CHAIN_DEPTH (3)
  Energy,     \* the energy of a turn of the user's session
  Slots,      \* background jobs at a time
  Turns,      \* bound: turns of the user's session
  Requested,  \* the max_steps a call may ask for
  Nil         \* no value

Tools == {"ask_user_question", "subagent", "edit"}

Sessions == 0..N
Names == Skills \cup {NotASkill}

(* The number of a root: the session that made it, or the turn of the      *)
(* user's session, counted on from N.                                      *)
Roots == 1..(N + Turns)

(* CallChainContext: what was called from the root to here; the counter it *)
(* shares with every context of the same root is totals[root].             *)
Chain == [root : Roots, lineage : Seq(Skills)]

(* SkillInvocation.                                                        *)
Invocation == [name : Skills, chain : Chain, pending : BOOLEAN]

(* SubagentExecutionRequest, made and not yet registered.                  *)
Request == [input : Names, skill : BOOLEAN, chain : Chain \cup {Nil},
            steps : Nat, sync : BOOLEAN]

ASSUME DelegationAssumption ==
  /\ N \in Nat \ {0} /\ MaxCalls \in Nat \ {0} /\ MaxDepth \in Nat \ {0}
  /\ Energy \in Nat \ {0} /\ Turns \in Nat /\ Slots \in Nat
  /\ Requested \subseteq Nat \ {0}
  /\ Def \in [Skills -> [allowed : SUBSET Tools, suggest_only : BOOLEAN,
                       parameters : BOOLEAN]]
  /\ {Nil, NotASkill} \cap Skills = {}
  /\ Nil \notin Chain \cup Invocation \cup Request

(* Where a session stands: not there; built; before the guards of an       *)
(* iteration; before its prompt; at its tools; between the check and the   *)
(* registration of a call; waiting for a call; between turns; ended.       *)
Phases == {"absent", "built", "guard", "prompt", "tools", "checked",
           "waiting", "idle", "ended"}

VARIABLES
  phase,     \* where each session stands
  parent,    \* the session that delegated to it
  given,     \* the request it was built from
  energy,    \* energy_points of its turn
  active,    \* SkillRuntime::invocation
  req,       \* the request a session is about to register
  totals,    \* total_calls of a root
  turn,      \* turns of the user's session so far
  queue,     \* background jobs that ended and are to be announced
  notice,    \* pending_notice of the user's session
  told       \* the jobs whose notice stood in a prompt

vars == <<phase, parent, given, energy, active, req, totals, turn, queue,
          notice, told>>

TypeOK ==
  /\ phase \in [Sessions -> Phases]
  /\ parent \in [Sessions -> Sessions]
  /\ given \in [Sessions -> Request \cup {Nil}]
  /\ energy \in [Sessions -> Nat]
  /\ active \in [Sessions -> Invocation \cup {Nil}]
  /\ req \in [Sessions -> Request \cup {Nil}]
  /\ totals \in [Roots -> Nat]
  /\ turn \in 0..Turns
  /\ queue \subseteq Sessions /\ notice \subseteq Sessions
  /\ told \subseteq Sessions

Init ==
  /\ phase = [s \in Sessions |-> IF s = 0 THEN "idle" ELSE "absent"]
  /\ parent = [s \in Sessions |-> 0]
  /\ given = [s \in Sessions |-> Nil]
  /\ energy = [s \in Sessions |-> 0]
  /\ active = [s \in Sessions |-> Nil]
  /\ req = [s \in Sessions |-> Nil]
  /\ totals = [r \in Roots |-> 0]
  /\ turn = 0
  /\ queue = {} /\ notice = {} /\ told = {}

AtLeastOne(n) == IF n = 0 THEN 1 ELSE n
Smaller(m, n) == IF m < n THEN m ELSE n

-----------------------------------------------------------------------------
(* The chain of calls.                                                     *)

NewRoot(r) == [root |-> r, lineage |-> <<>>]

AppendFrame(chain, name) == [chain EXCEPT !.lineage = Append(@, name)]

Contains(chain, name) ==
  \E i \in DOMAIN chain.lineage : chain.lineage[i] = name

(* What a session inherits, CallChainSeed::inherited_context.              *)
Inherited(s) == IF given[s] = Nil THEN Nil ELSE given[s].chain

(* enrich_tool_context: the context a tool call of the session carries.    *)
ContextOf(s) == IF active[s] # Nil THEN active[s].chain ELSE Inherited(s)

(* The root that a session without a chain starts: the user's session has  *)
(* one for each turn.                                                      *)
OwnRoot(s, t) == IF s = 0 THEN N + t ELSE s

(* Mutant: the whole of the remaining steps is handed down.                *)
ChildStepsAll(asked, left) == Smaller(asked, AtLeastOne(left))

(* effective_limits: a call gets what it asks for, at most half of what    *)
(* its parent has left.  Timeouts are passed down the same way, without    *)
(* the halving.                                                            *)
ChildSteps(asked, left) ==
  Smaller(asked, AtLeastOne(AtLeastOne(left) \div 2))

-----------------------------------------------------------------------------
(* Activation of a skill.                                                  *)

(* Mutant: the inherited lineage is not searched.                          *)
RefusedDepth(s, name, chain) ==
  \/ Len(chain.lineage) + 1 > MaxDepth
  \/ Inherited(s) # Nil /\ "ask_user_question" \in Def[name].allowed

(* What follows the name: nothing, a text, a JSON object that fits the     *)
(* skill's parameters or does not, or a text that begins like an object    *)
(* and is none.                                                            *)
Arguments == {"none", "text", "object", "misfit", "garbled"}

(* parse_invocation_args.                                                  *)
Unparsed(args) == args = "garbled"

(* validate_json_args: only an object is held against the parameters, so   *)
(* that a text does without the required ones.                             *)
Unfit(name, args) == Def[name].parameters /\ args = "misfit"

(* activate_skill, after the arguments: cycle, depth, interaction.         *)
Refused(s, name, chain) ==
  \/ Contains(chain, name)
  \/ Len(chain.lineage) + 1 > MaxDepth
  \/ Inherited(s) # Nil /\ "ask_user_question" \in Def[name].allowed

ParentChain(s, t) ==
  IF Inherited(s) # Nil THEN Inherited(s) ELSE NewRoot(OwnRoot(s, t))

(* activate_skill_from_command: a name that the registry does not have is  *)
(* an ordinary text.                                                       *)
Halts(s, name, args, t) ==
  /\ name \in Skills
  /\ \/ Def[name].suggest_only
     \/ Unparsed(args)
     \/ Unfit(name, args)
     \/ Refused(s, name, ParentChain(s, t))

ActiveAfter(s, name, t) ==
  IF name \in Skills
  THEN [name |-> name, chain |-> AppendFrame(ParentChain(s, t), name),
        pending |-> FALSE]
  ELSE active[s]

(* Mutant: a command in the reply is obeyed.                               *)
AskedNothing(s) == FALSE

(* consume_pending_interaction: the reply belongs to the skill that asked, *)
(* and a command in it is not looked at.                                   *)
Asked(s) == active[s] # Nil /\ active[s].pending

Resumed(inv) == [inv EXCEPT !.pending = FALSE]

(* SkillRuntime::before_turn_start.                                        *)
SkillAtStart(s, input, t) ==
  active' = [active EXCEPT ![s] =
               IF Asked(s) THEN Resumed(@) ELSE ActiveAfter(s, input, t)]

-----------------------------------------------------------------------------
(* Tools.                                                                  *)

(* filter_subagent_tools: what a delegated session is built with, if the   *)
(* tools it is handed hold the subagent tool.                              *)
Base(s) ==
  IF s = 0 THEN Tools
  ELSE Tools \ ({"ask_user_question"}
                 \cup (IF given[s].skill THEN {} ELSE {"subagent"}))

(* filter_tools_by_allowed_names: no names allow everything.               *)
Filter(tools, allowed) == IF allowed = {} THEN tools ELSE tools \cap allowed

(* before_tool_resolution.                                                 *)
Visible(s) ==
  IF active[s] = Nil THEN Base(s) ELSE Filter(Base(s), Def[active[s].name].allowed)

-----------------------------------------------------------------------------
(* The turns of a session.                                                 *)

Running(s) == phase[s] \notin {"absent", "built", "idle", "ended"}

(* The sessions that end with s: it and the calls it waits for, whose      *)
(* futures are dropped with its own.                                       *)
Awaits(p, c) == phase[p] = "waiting" /\ parent[c] = p /\ c # 0
                /\ given[c] # Nil /\ given[c].sync /\ phase[c] # "ended"

Closed(S) == \A p \in S, c \in Sessions : Awaits(p, c) => c \in S

Dropped(s) ==
  {c \in Sessions \ {s} :
     \A S \in SUBSET Sessions : s \in S /\ Closed(S) => c \in S}

(* Mutant: the parent of a foreground call is told only of the calls that  *)
(* took a turn.                                                            *)
PhasesAfterTurn(s) ==
  [q \in Sessions |->
     IF q = s THEN (IF s = 0 THEN "idle" ELSE "ended")
     ELSE IF q \in Dropped(s) THEN "ended"
     ELSE IF s # 0 /\ given[s].sync /\ q = parent[s] /\ phase[s] # "built"
     THEN "tools"
     ELSE phase[q]]

(* What follows the end of session s for the others.  A foreground call    *)
(* hands its result to its parent; a background job is announced in the    *)
(* session of its parent, and only the user's session listens.             *)
PhasesAfter(s) ==
  [q \in Sessions |->
     IF q = s THEN (IF s = 0 THEN "idle" ELSE "ended")
     ELSE IF q \in Dropped(s) THEN "ended"
     ELSE IF s # 0 /\ given[s].sync /\ q = parent[s] THEN "tools"
     ELSE phase[q]]

(* The loop of a delegated session is dropped with all it holds; that of   *)
(* the user's keeps what its skill runtime has, inv.                       *)
End(s, inv) ==
  LET gone == Dropped(s) \cup {s}
  IN  /\ phase' = PhasesAfter(s)
      /\ queue' = queue \cup {c \in {s} \ {0} : ~given[c].sync /\ parent[c] = 0}
      /\ energy' = [q \in Sessions |-> IF q \in gone THEN 0 ELSE energy[q]]
      /\ active' = [q \in Sessions |->
                      IF q \notin gone THEN active[q]
                      ELSE IF q = 0 THEN inv ELSE Nil]

(* step of the user's session.  The skills come first; when they halt the  *)
(* turn the notices stay in their inbox.  SubagentNotificationExtension    *)
(* takes what is there and puts it in the place of an earlier notice.      *)
UserTurn(input, args) ==
  /\ phase[0] = "idle" /\ turn < Turns
  /\ turn' = turn + 1
  /\ IF ~Asked(0) /\ Halts(0, input, args, turn')
     THEN UNCHANGED <<phase, energy, active, queue, notice>>
     ELSE /\ SkillAtStart(0, input, turn')
          /\ energy' = [energy EXCEPT ![0] = Energy]
          /\ phase' = [phase EXCEPT ![0] = "guard"]
          /\ notice' = IF queue = {} THEN notice ELSE queue
          /\ queue' = {}
  /\ UNCHANGED <<parent, given, req, totals, told>>

(* The one turn of a delegated session: /skill arguments, or the goal.  A  *)
(* turn that a skill halts has yielded, which its parent learns.           *)
DelegatedTurn(s, args) ==
  /\ s # 0 /\ phase[s] = "built"
  /\ IF Halts(s, given[s].input, args, turn)
     THEN End(s, Nil)
     ELSE /\ SkillAtStart(s, given[s].input, turn)
          /\ energy' = [energy EXCEPT ![s] = AtLeastOne(given[s].steps)]
          /\ phase' = [phase EXCEPT ![s] = "guard"]
          /\ UNCHANGED queue
  /\ UNCHANGED <<parent, given, req, totals, turn, notice, told>>

(* check_loop_guards: an iteration costs a point, and the last point is    *)
(* the end of the turn.                                                    *)
Guard(s) ==
  /\ phase[s] = "guard"
  /\ IF energy[s] = 1
     THEN End(s, active[s])
     ELSE /\ energy' = [energy EXCEPT ![s] = @ - 1]
          /\ phase' = [phase EXCEPT ![s] = "prompt"]
          /\ UNCHANGED <<active, queue>>
  /\ UNCHANGED <<parent, given, req, totals, turn, notice, told>>

(* collect_iteration_response: the extensions draft the prompt, and the    *)
(* notice is taken from its place.                                         *)
Prompt(s) ==
  /\ phase[s] = "prompt"
  /\ phase' = [phase EXCEPT ![s] = "tools"]
  /\ IF s = 0 THEN told' = told \cup notice /\ notice' = {}
     ELSE UNCHANGED <<told, notice>>
  /\ UNCHANGED <<parent, given, energy, active, req, totals, turn, queue>>

(* The round is over and the model is asked again.                         *)
NextIteration(s) ==
  /\ phase[s] = "tools"
  /\ phase' = [phase EXCEPT ![s] = "guard"]
  /\ UNCHANGED <<parent, given, energy, active, req, totals, turn, queue, notice, told>>

(* The model's answer ends the turn: on_finish_committed deactivates the   *)
(* skill.                                                                  *)
Finish(s) ==
  /\ phase[s] = "tools"
  /\ End(s, Nil)
  /\ UNCHANGED <<parent, given, req, totals, turn, notice, told>>

(* The turn ends in another way: the user stops it, a time limit, an error *)
(* of the model, a stall.  No hook is called, and the skill stays active.  *)
(* A call that is waited for ends with it.                                 *)
Stop(s) ==
  /\ Running(s) /\ phase[s] # "checked"
  /\ End(s, active[s])
  /\ UNCHANGED <<parent, given, req, totals, turn, notice, told>>

(* ask_user_question, and after_tool_result: the question is the active    *)
(* skill's, and the turn yields.                                           *)
AskUser(s) ==
  /\ phase[s] = "tools" /\ "ask_user_question" \in Visible(s)
  /\ End(s, IF active[s] = Nil THEN Nil ELSE [active[s] EXCEPT !.pending = TRUE])
  /\ UNCHANGED <<parent, given, req, totals, turn, notice, told>>

-----------------------------------------------------------------------------
(* The subagent tool.                                                      *)

(* validate_nested_budget: calls outside any chain are not counted.        *)
WithinBudget(s) == ContextOf(s) # Nil => totals[ContextOf(s).root] < MaxCalls

(* Mutant: a goal is delegated without the lineage, as if none of the      *)
(* skills above could be called again.                                     *)
RawRequestFresh(s, goal, asked, sync) ==
  [input |-> goal, skill |-> FALSE, chain |-> Nil,
   steps |-> ChildSteps(asked, energy[s]), sync |-> sync]

(* make_raw_execution_request: the call inherits the chain, if there is    *)
(* one.                                                                    *)
RawRequest(s, goal, asked, sync) ==
  [input |-> goal, skill |-> FALSE, chain |-> ContextOf(s),
   steps |-> ChildSteps(asked, energy[s]), sync |-> sync]

(* make_skill_execution_request: without a chain the call has a root of    *)
(* its own, which is named after the session it will become.               *)
SkillRequest(s, name, asked, sync) ==
  [input |-> name, skill |-> TRUE, chain |-> ContextOf(s),
   steps |-> ChildSteps(asked, energy[s]), sync |-> sync]

In(p) == {s \in Sessions : phase[s] = p}

NextSession == CHOOSE c \in In("absent") : TRUE

RoomForOne == Cardinality(In("checked")) < Cardinality(In("absent"))

(* execute, run: the budget is read and the request made.                  *)
Check(s) ==
  /\ phase[s] = "tools" /\ "subagent" \in Visible(s)
  /\ RoomForOne                                 \* bound: sessions
  /\ WithinBudget(s)
  /\ \E input \in Names, asked \in Requested, sync \in BOOLEAN :
       \/ req' = [req EXCEPT ![s] = RawRequest(s, input, asked, sync)]
       \/ req' = [req EXCEPT ![s] = SkillRequest(s, input, asked, sync)]
  /\ phase' = [phase EXCEPT ![s] = "checked"]
  /\ UNCHANGED <<parent, given, energy, active, totals, turn, queue, notice, told>>

(* Mutant: a job is counted by the session that runs it.                   *)
CountSync(s) ==
  IF ContextOf(s) = Nil \/ ~req[s].sync THEN totals
  ELSE [totals EXCEPT ![ContextOf(s).root] = @ + 1]

(* register_call_chain_use counts the call before the runtime accepts it,  *)
(* and nothing takes that back.  The context is the one the check saw.     *)
Count(s) ==
  IF ContextOf(s) = Nil THEN totals
  ELSE [totals EXCEPT ![ContextOf(s).root] = @ + 1]

Jobs == {c \in Sessions \ {0} : given[c] # Nil /\ ~given[c].sync
                                /\ phase[c] \notin {"absent", "ended"}}

(* The rest of execute: the call is counted and becomes a session.  A job  *)
(* that finds no slot is refused.                                          *)
Register(s) ==
  /\ phase[s] = "checked"
  /\ totals' = Count(s)
  /\ req' = [req EXCEPT ![s] = Nil]
  /\ IF ~req[s].sync /\ Cardinality(Jobs) >= Slots
     THEN /\ phase' = [phase EXCEPT ![s] = "tools"]
          /\ UNCHANGED <<parent, given>>
     ELSE LET c == NextSession
              chain == IF req[s].skill /\ req[s].chain = Nil
                       THEN NewRoot(c) ELSE req[s].chain
          IN  /\ given' = [given EXCEPT ![c] = [req[s] EXCEPT !.chain = chain]]
              /\ parent' = [parent EXCEPT ![c] = s]
              /\ phase' = [phase EXCEPT ![c] = "built",
                                        ![s] = IF req[s].sync THEN "waiting" ELSE "tools"]
  /\ UNCHANGED <<energy, active, turn, queue, notice, told>>

Iterate(s) ==
  \/ \E args \in Arguments : DelegatedTurn(s, args)
  \/ Guard(s) \/ Prompt(s) \/ NextIteration(s) \/ Finish(s)
  \/ AskUser(s) \/ Check(s) \/ Register(s)

Next ==
  \/ \E input \in Names, args \in Arguments : UserTurn(input, args)
  \/ \E s \in Sessions : Iterate(s) \/ Stop(s)

Spec == Init /\ [][Next]_vars

-----------------------------------------------------------------------------
(* Properties.                                                             *)

(* No skill stands twice in a lineage, no lineage is longer than the       *)
(* maximum, and the lineage of an active skill ends with it, however the   *)
(* sessions call each other: in the foreground, as jobs, with a goal that  *)
(* is itself a command (SkillRuntime::activate_skill).                     *)
ChainSound ==
  \A s \in Sessions : active[s] # Nil =>
    LET l == active[s].chain.lineage
    IN  /\ \A i, j \in DOMAIN l : i # j => l[i] # l[j]
        /\ Len(l) <= MaxDepth
        /\ l[Len(l)] = active[s].name

(* The lineage below goes on where the one above ends.                     *)
Carries(below, above) ==
  /\ below # Nil /\ below.root = above.root
  /\ Len(above.lineage) <= Len(below.lineage)
  /\ \A i \in DOMAIN above.lineage : below.lineage[i] = above.lineage[i]

(* Whatever way a call takes, as a goal, as a skill or as a goal that is   *)
(* itself a command: as long as its caller waits, the session works with   *)
(* the whole lineage of its caller, so that no skill that is waiting above *)
(* can be started again below, at any depth (make_raw_execution_request,   *)
(* make_skill_execution_request, build_subagent_session, activate_skill).  *)
LineageCarried ==
  \A s, c \in Sessions :
    Awaits(s, c) /\ ContextOf(s) # Nil => Carries(ContextOf(c), ContextOf(s))

(* The steps a turn of the session begins with.                            *)
Budget(s) == IF s = 0 THEN Energy ELSE given[s].steps

(* Each level of delegation has at most half of the steps of the level     *)
(* above, and no less than one, whatever a call asks for and whenever in   *)
(* the turn it is made (effective_limits, from the energy that             *)
(* prepare_tool_context puts into the context).                            *)
StepsShrink ==
  \A s \in Sessions \ {0} : given[s] # Nil =>
    given[s].steps \in 1..AtLeastOne(Budget(parent[s]) \div 2)

(* Lineages are sound and handed down whole, and each edge of the tree of  *)
(* calls halves the steps (activate_skill, make_skill_execution_request,   *)
(* effective_limits); every variable is in its type.  A call takes nothing *)
(* from its caller's own steps, and one turn may make several, so the sum  *)
(* over a tree is not bounded by this.                                     *)
DelegationBounded == TypeOK /\ ChainSound /\ LineageCarried /\ StepsShrink

(* The budget of a root sees every call that was made inside its chain:    *)
(* foreground calls, jobs, goals and skills, at any depth and from any     *)
(* number of sessions that share the counter (register_call_chain_use).    *)
EveryCallCounted ==
  \A r \in Roots :
    Cardinality({c \in Sessions \ {r} : Inherited(c) # Nil /\ Inherited(c).root = r})
      <= totals[r]

(* The answer to a question goes to the skill that asked, whatever was     *)
(* typed (consume_pending_interaction comes before the command).           *)
ReplyResumes ==
  [][turn' # turn /\ active[0] # Nil /\ active[0].pending =>
       active'[0] = [active[0] EXCEPT !.pending = FALSE]]_vars

(* A session that waits waits for one call, and that call is still under   *)
(* way: one that a skill refuses, that runs out of steps, that is stopped  *)
(* or whose own callee is dropped lets its parent go on                    *)
(* (SubagentRuntime::run_sync).                                            *)
CalleeLives ==
  \A s \in Sessions : phase[s] = "waiting" =>
    Cardinality({c \in Sessions : Awaits(s, c)}) = 1

(* SUBAGENT_TOOL_CONSOLIDATION.md:84: a job can be waited for through the  *)
(* notice of the next turn.  A turn that ends before its first prompt      *)
(* keeps its notice for the next, which may put another in its place.      *)
NoticeReachesPrompt ==
  \A s \in Sessions \ {0} :
    phase[s] = "ended" /\ ~given[s].sync /\ parent[s] = 0 =>
      s \in queue \cup notice \cup told

(* call_chain.rs:6, the maximum of calls for a root request: two sessions  *)
(* of a root may both read the counter before either raises it.            *)
CallsWithinBudget == \A r \in Roots : totals[r] <= MaxCalls
=============================================================================
