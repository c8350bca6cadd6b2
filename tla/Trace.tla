------------------------------- MODULE Trace -------------------------------
(***************************************************************************)
(* The trace of a run: the bus every loop publishes its records on         *)
(* (trace/bus.rs), the file, the database (trace/sqlite.rs) and the        *)
(* summary they go to, the spans and events AgentLoop::step and the jobs   *)
(* of the sub-agent runtime publish, and what trace/query.rs answers from  *)
(* what was stored.                                                        *)
(*                                                                         *)
(* Actor 0 is the user's session: each of its turns begins a run.  Actors  *)
(* 1..Jobs are sub-agents; they publish in the run that spawned them, at   *)
(* the same time as their parent and also after that run has ended.  A     *)
(* record is published in two steps, under two locks: it is stored, and it *)
(* is counted in the summary.  Either write may fail; the code goes on.    *)
(* Times, attributes and the live feed are left out, and so are the events *)
(* that only remark on an iteration (a snapshot, a plan, a call heard).    *)
(***************************************************************************)
EXTENDS Naturals, Sequences, FiniteSets

CONSTANTS
  Jobs,      \* sub-agents: 1..Jobs
  Turns,     \* bound: turns of the user's session
  Iters,     \* bound, for each actor: iterations of a turn
  Attempts,  \* bound, for each actor: requests of an iteration
  Failures,  \* bound: writes that fail
  Nil        \* no value

Main == 0
Actors == 0..Jobs
Runs == 1..Turns
Settled == {"finished", "failed", "cancelled"}

(* Spans and records (TraceRecord), with the names they have in the trace. *)
SpanNames == {"run_started", "turn_started", "iteration_started",
              "llm_request_started", "tool_started", "subagent_spawned"}
RecordNames ==
  SpanNames \cup
  {"run_finished", "run_failed", "run_cancelled", "turn_finished",
   "iteration_finished", "llm_request_finished", "tool_finished",
   "subagent_finished", "llm_retry_scheduled", "llm_error", "energy_depleted",
   "yielded_to_user", "subagent_state_changed", "subagent_notification_enqueued"}

Spans == [actor : Actors, name : SpanNames, turn : Nat, iter : Nat, attempt : Nat]
TurnIds == Actors \X Nat
Places == [run : Runs, turn : TurnIds, iter : Nat, task : TurnIds]
Records == [run : Runs, turn : TurnIds, iter : Nat, task : TurnIds,
            name : RecordNames, kind : {"start", "end", "event"},
            span : Spans \cup {Nil}, parent : Spans \cup {Nil}]

(* TraceSeed, ActiveTrace, TraceRunSummary.                                *)
Seeds == [place : Places, parent : Spans]
ActiveTraces == [run : Runs, task : TurnIds, parent : Spans \cup {Nil},
                 runSpan : Spans \cup {Nil}, turnSpan : Spans]
Summaries == [events : Nat, spans : Nat, llm : Nat, tools : Nat, subagents : Nat,
              status : Settled \cup {"running"}, task : TurnIds \cup {Nil}]

ASSUME TraceAssumption ==
  /\ Jobs \in Nat /\ Turns \in Nat \ {0} /\ Failures \in Nat
  /\ Iters \in [0..Jobs -> Nat] /\ Attempts \in [0..Jobs -> Nat]
  /\ Nil \notin Spans /\ Nil \notin Records /\ Nil \notin Seeds
  /\ Nil \notin ActiveTraces /\ Nil \notin Summaries

(* Where a loop can be: between turns, in step, and, for a sub-agent,      *)
(* before and after it.                                                    *)
StepPlaces == {"guard", "llm", "stream", "reply", "calls", "tool", "round"}
JobPlaces == {"unborn", "spawned", "started", "returned", "done", "aborted"}
LoopPlaces == {"idle"} \cup StepPlaces \cup JobPlaces

VARIABLES
  at,        \* where the actor's loop is
  turn,      \* the turn the actor is in
  iter,      \* its iteration in that turn
  attempt,   \* its requests in that iteration
  seed,      \* TraceSeed of a sub-agent: its run, its span, its parent's place
  active,    \* ActiveTrace: the run, the task, the run's and the turn's span
  queue,     \* the records the actor is about to publish, in order
  publishing,  \* the record it has stored and not yet counted
  made,      \* how many records it has published: the record ids
  stored,    \* the lines of the files, with whether the database has them too
  cache,     \* summary_cache
  disk,      \* the summary files
  row,       \* the rows of the table runs
  failed,    \* writes that failed
  lost       \* for a run, the records no file has

loopVars == <<at, turn, iter, attempt, seed, active>>
busVars == <<stored, cache, disk, row, failed, lost>>
vars == <<loopVars, queue, publishing, made, busVars>>

-----------------------------------------------------------------------------
(* Spans and records.  A span's id is its actor, its name and which of the *)
(* actor's spans of that name it is.                                       *)

Span(a, name) ==
  [actor |-> a, name |-> name, turn |-> turn[a], iter |-> iter[a],
   attempt |-> attempt[a]]

SubagentSpan(j) ==
  [actor |-> j, name |-> "subagent_spawned", turn |-> 0, iter |-> 0, attempt |-> 0]

(* TraceContext::with_parent_span_id, with_iteration and build_record: what*)
(* a record of a says of where it belongs.                                 *)
Place(a) == [run |-> active[a].run, turn |-> <<a, turn[a]>>,
             iter |-> iter[a], task |-> active[a].task]

Record(place, name, kind, span, parent) ==
  [run |-> place.run, turn |-> place.turn, iter |-> place.iter,
   task |-> place.task, name |-> name, kind |-> kind, span |-> span,
   parent |-> parent]

(* start_span, TraceSpanHandle::finish and record_event.                   *)
Start(place, span, parent) == Record(place, span.name, "start", span, parent)
End(place, name, span, parent) == Record(place, name, "end", span, parent)
Event(place, name, parent) == Record(place, name, "event", Nil, parent)

(* What a loop publishes of its whole turn has no iteration.               *)
Whole(place) == [place EXCEPT !.iter = 0]

IterSpan(a) == [Span(a, "iteration_started") EXCEPT !.attempt = 0]
ToolSpan(a) == [Span(a, "tool_started") EXCEPT !.attempt = 0]
LlmSpan(a) == Span(a, "llm_request_started")

EndIteration(a) ==
  <<End(Place(a), "iteration_finished", IterSpan(a), active[a].turnSpan)>>

(* The exits that leave through YieldedToUser of record_model_turn_and_    *)
(* maybe_yield or of the round say so in an event.                         *)
Yielded(a) == <<Event(Place(a), "yielded_to_user", active[a].turnSpan)>>

(* The parent of a turn's span: the run's, or what the seed names.         *)
TurnParent(a) == IF active[a].runSpan # Nil THEN active[a].runSpan
                 ELSE active[a].parent

(* Mutant: the turn's span is left to whoever reads the trace.             *)
ClosingRunOnly(a, name) ==
  IF active[a].runSpan = Nil THEN <<>>
  ELSE <<End(Whole(Place(a)), name, active[a].runSpan, Nil)>>

(* finish_active_trace: the turn's span ends, then the run's, if the loop  *)
(* began it.                                                               *)
Closing(a, name) ==
  <<End(Whole(Place(a)), "turn_finished", active[a].turnSpan, TurnParent(a))>>
  \o IF active[a].runSpan = Nil THEN <<>>
     ELSE <<End(Whole(Place(a)), name, active[a].runSpan, Nil)>>

-----------------------------------------------------------------------------
(* The bus.  A loop goes on when all it had to publish is published.       *)

Quiet(a) == queue[a] = <<>> /\ publishing[a] = Nil

Publish(a, records) == queue' = [queue EXCEPT ![a] = records]

MayFail == failed < Failures

(* The line of a record, and whether the database has it: its errors are   *)
(* nobody's.                                                               *)
Line(a) == [id |-> <<a, made[a]>>, record |-> Head(queue[a])]

Insert(line, ok) == [line |-> line, indexed |-> ok]

(* persist_record: under the lock of the writers the line goes to the      *)
(* run's file and, if that worked, into the database.                      *)
Persist(a) ==
  /\ publishing[a] = Nil /\ queue[a] # <<>>
  /\ \/ stored' = stored \cup {Insert(Line(a), TRUE)} /\ UNCHANGED <<failed, lost>>
     \/ /\ MayFail /\ failed' = failed + 1
        /\ \/ stored' = stored \cup {Insert(Line(a), FALSE)} /\ UNCHANGED lost
           \/ /\ lost' = [lost EXCEPT ![Head(queue[a]).run] = @ + 1]
              /\ UNCHANGED stored
  /\ publishing' = [publishing EXCEPT ![a] = Head(queue[a])]
  /\ queue' = [queue EXCEPT ![a] = Tail(@)]
  /\ made' = [made EXCEPT ![a] = @ + 1]
  /\ UNCHANGED <<loopVars, cache, disk, row>>

NewSummary == [events |-> 0, spans |-> 0, llm |-> 0, tools |-> 0, subagents |-> 0,
               status |-> "running", task |-> Nil]

Outcome(name) == CASE name = "run_failed" -> "failed"
                   [] name = "run_cancelled" -> "cancelled"
                   [] OTHER -> "finished"

(* Mutant: the file is the summary; nothing is kept in memory.             *)
SummaryOfFile(run) == IF disk[run] # Nil THEN disk[run] ELSE NewSummary

(* The cached summary of a run, or the one its file has, or a new one.     *)
SummaryOf(run) == CASE cache[run] # Nil -> cache[run]
                    [] cache[run] = Nil /\ disk[run] # Nil -> disk[run]
                    [] OTHER -> NewSummary

Counts(record, name) == IF record.kind = "start" /\ record.name = name THEN 1 ELSE 0

Updated(summary, record) ==
  [events |-> summary.events + 1,
   spans |-> summary.spans + IF record.kind = "start" THEN 1 ELSE 0,
   llm |-> summary.llm + Counts(record, "llm_request_started"),
   tools |-> summary.tools + Counts(record, "tool_started"),
   subagents |-> summary.subagents + Counts(record, "subagent_spawned"),
   status |-> CASE record.name = "run_started" -> "running"
                [] record.name \in {"run_finished", "run_failed", "run_cancelled"}
                     -> Outcome(record.name)
                [] OTHER -> summary.status,
   task |-> IF record.task # Nil THEN record.task ELSE summary.task]

WriteFile(run, summary, ok) ==
  disk' = IF ok THEN [disk EXCEPT ![run] = summary] ELSE disk

WriteRow(run, summary, ok) ==
  row' = IF ok THEN [row EXCEPT ![run] = summary] ELSE row

(* update_summary, under the cache's lock to its end: the summary file and *)
(* the row are written from the cache, or stay as they were.               *)
Count(a) ==
  /\ publishing[a] # Nil
  /\ LET run == publishing[a].run
         new == Updated(SummaryOf(run), publishing[a])
     IN /\ cache' = [cache EXCEPT ![run] = new]
        /\ \/ WriteFile(run, new, TRUE) /\ WriteRow(run, new, TRUE) /\ UNCHANGED failed
           \/ /\ MayFail /\ failed' = failed + 1
              /\ \E file \in BOOLEAN : WriteFile(run, new, file) /\ WriteRow(run, new, ~file)
  /\ publishing' = [publishing EXCEPT ![a] = Nil]
  /\ UNCHANGED <<loopVars, queue, made, stored, lost>>

-----------------------------------------------------------------------------
(* AgentLoop::step, as far as the trace sees it.                           *)

Go(a, place, records) ==
  /\ at' = [at EXCEPT ![a] = place]
  /\ Publish(a, records)
  /\ UNCHANGED <<publishing, made, busVars>>

Ready(a, place) == at[a] = place /\ Quiet(a)

(* Where a loop is once step has returned.                                 *)
Back(a) == IF a = Main THEN "idle" ELSE "returned"

(* Mutant: a sub-agent opens a run too.                                    *)
AlwaysRunSpan(a) == TRUE

(* begin_trace_run.  A loop with a seed is part of the run of its parent   *)
(* and has no span for a run of its own; its task is its own all the same. *)
HasRunSpan(a) == seed[a] = Nil

Begin(a) ==
  /\ \/ a = Main /\ Ready(a, "idle") /\ turn[a] < Turns
     \/ a # Main /\ Ready(a, "started")
  /\ turn' = [turn EXCEPT ![a] = @ + 1]
  /\ iter' = [iter EXCEPT ![a] = 0]
  /\ attempt' = [attempt EXCEPT ![a] = 0]
  /\ LET t == turn[a] + 1
         span(name) == [actor |-> a, name |-> name, turn |-> t, iter |-> 0,
                        attempt |-> 0]
         base == [run |-> IF seed[a] = Nil THEN t ELSE seed[a].place.run,
                  turn |-> <<a, t>>, iter |-> 0, task |-> <<a, t>>]
         parent == IF seed[a] = Nil THEN Nil ELSE SubagentSpan(a)
         runSpan == IF HasRunSpan(a) THEN span("run_started") ELSE Nil
     IN /\ active' = [active EXCEPT ![a] =
              [run |-> base.run, task |-> base.task, parent |-> parent,
               runSpan |-> runSpan, turnSpan |-> span("turn_started")]]
        /\ Go(a, "guard",
              (IF runSpan = Nil THEN <<>> ELSE <<Start(base, runSpan, Nil)>>)
              \o <<Start(base, span("turn_started"),
                         IF runSpan = Nil THEN parent ELSE runSpan)>>)
  /\ UNCHANGED seed

(* finalize_exit and finalize_finished_run leave through                   *)
(* finish_active_trace, which takes the active trace; the other exits      *)
(* leave it where it is, for the next turn to overwrite.                   *)
Settle(a, before, name, after) ==
  /\ active' = [active EXCEPT ![a] = Nil]
  /\ Go(a, Back(a), before \o Closing(a, name) \o after)
  /\ UNCHANGED <<turn, iter, attempt, seed>>

Leave(a, records) ==
  /\ Go(a, Back(a), records)
  /\ UNCHANGED <<turn, iter, attempt, seed, active>>

Move(a, place, records) ==
  /\ Go(a, place, records)
  /\ UNCHANGED <<turn, iter, attempt, seed, active>>

(* check_loop_guards: the run was cancelled, or its energy is spent.       *)
Stopped(a) == Ready(a, "guard") /\ Settle(a, <<>>, "run_cancelled", <<>>)

Depleted(a) ==
  /\ Ready(a, "guard")
  /\ Settle(a, <<Event(Whole(Place(a)), "energy_depleted", active[a].turnSpan)>>,
            "run_failed", <<>>)

Iterate(a) ==
  /\ Ready(a, "guard") /\ iter[a] < Iters[a]
  /\ iter' = [iter EXCEPT ![a] = @ + 1]
  /\ attempt' = [attempt EXCEPT ![a] = 0]
  /\ LET place == [Place(a) EXCEPT !.iter = iter[a] + 1]
         span == [IterSpan(a) EXCEPT !.iter = iter[a] + 1]
     IN Go(a, "llm", <<Start(place, span, active[a].turnSpan)>>)
  /\ UNCHANGED <<turn, seed, active>>

(* collect_stream_response: a request, its end, and what may go wrong.     *)
Request(a) ==
  /\ Ready(a, "llm") /\ attempt[a] < Attempts[a]
  /\ attempt' = [attempt EXCEPT ![a] = @ + 1]
  /\ LET span == [LlmSpan(a) EXCEPT !.attempt = attempt[a] + 1]
     IN Go(a, "stream", <<Start(Place(a), span, IterSpan(a))>>)
  /\ UNCHANGED <<turn, iter, seed, active>>

EndLlm(a) == <<End(Place(a), "llm_request_finished", LlmSpan(a), IterSpan(a))>>

Answered(a) == Ready(a, "stream") /\ Move(a, "reply", EndLlm(a))

AnsweredWithCall(a) ==
  /\ Ready(a, "stream")
  /\ Move(a, "calls", EndLlm(a))

(* A cancelled stream returns StoppedByUser past finish_active_trace.      *)
StreamCancelled(a) ==
  /\ Ready(a, "stream") /\ Leave(a, EndLlm(a) \o EndIteration(a))

StreamRetried(a) ==
  /\ Ready(a, "stream") /\ attempt[a] < Attempts[a]
  /\ Move(a, "llm", EndLlm(a)
                    \o <<Event(Place(a), "llm_retry_scheduled", IterSpan(a))>>)

(* The error leaves step by "?": the iteration's span is dropped, not      *)
(* finished.  A transient error of the last attempt is said to be retried. *)
StreamFailed(a) ==
  /\ Ready(a, "stream")
  /\ \E name \in {"llm_error", "llm_retry_scheduled"} :
       /\ name = "llm_retry_scheduled" => attempt[a] = Attempts[a]
       /\ Leave(a, EndLlm(a) \o <<Event(Place(a), name, IterSpan(a))>>)

(* What step does with an answer: nothing in it, or nothing in it again;   *)
(* nothing to show, or the canary; a final answer, accepted or denied;     *)
(* calls.                                                                  *)
EmptyAnswer(a) == Ready(a, "reply") /\ Move(a, "guard", EndIteration(a))

EmptyAgain(a) ==
  /\ Ready(a, "reply") /\ Settle(a, <<>>, "run_failed", EndIteration(a))

YieldAnswer(a) ==
  /\ Ready(a, "reply") \/ Ready(a, "calls")
  /\ Leave(a, <<Event(Whole(Place(a)), "yielded_to_user", active[a].turnSpan)>>
              \o EndIteration(a))

FinalAnswer(a) ==
  /\ Ready(a, "reply") /\ Settle(a, <<>>, "run_finished", EndIteration(a))

AnswerDenied(a) == Ready(a, "reply") /\ Move(a, "guard", EndIteration(a))

StartTool(a) ==
  /\ Ready(a, "calls")
  /\ Move(a, "tool", <<Start(Place(a), ToolSpan(a), IterSpan(a))>>)

EndTool(a) ==
  /\ Ready(a, "tool")
  /\ Move(a, "round", <<End(Place(a), "tool_finished", ToolSpan(a), IterSpan(a))>>)

(* After the round: the task is finished, the guard gave up, the tool      *)
(* asked the user, or another iteration.                                   *)
RoundFinishes(a) ==
  /\ Ready(a, "round") /\ Settle(a, EndIteration(a), "run_finished", <<>>)

RoundStalls(a) == a = Main /\ Ready(a, "round") /\ Leave(a, <<>>)

RoundAsksUser(a) ==
  /\ a = Main /\ Ready(a, "round") /\ Leave(a, Yielded(a) \o EndIteration(a))

RoundGoesOn(a) == Ready(a, "round") /\ Move(a, "guard", EndIteration(a))

-----------------------------------------------------------------------------
(* The sub-agent runtime: prepare_child_context_and_trace in the parent's  *)
(* tool call, run_job and finish_job in the job.                           *)

Spawn(j) ==
  /\ Ready(Main, "tool") /\ at[j] = "unborn"
  /\ seed' = [seed EXCEPT ![j] = [place |-> Place(Main), parent |-> ToolSpan(Main)]]
  /\ at' = [at EXCEPT ![j] = "spawned"]
  /\ Publish(Main, <<Start(Place(Main), SubagentSpan(j), ToolSpan(Main))>>)
  /\ UNCHANGED <<turn, iter, attempt, active, publishing, made, busVars>>

(* The job is registered when its span has been published.                 *)
Registered(j) ==
  /\ \A i \in DOMAIN queue[Main] : queue[Main][i].span # SubagentSpan(j)
  /\ publishing[Main] # Nil => publishing[Main].span # SubagentSpan(j)

RunJob(j) ==
  /\ Ready(j, "spawned") /\ Registered(j)
  /\ Move(j, "started",
          <<Event(seed[j].place, "subagent_state_changed", SubagentSpan(j))>>)

(* What enqueue_notification publishes, in the place of the parent.        *)
Notice(j) == <<Event(seed[j].place, "subagent_notification_enqueued", seed[j].parent)>>

(* finish_job, after step has returned, or has been dropped by the job's   *)
(* timeout while it waited, with whatever spans it had open.  A job whose  *)
(* parent waits for it announces nothing.                                  *)
FinishJob(j) ==
  /\ Ready(j, "returned") \/ Ready(j, "stream") \/ Ready(j, "tool")
  /\ \E notice \in {<<>>, Notice(j)} :
       Move(j, "done",
            <<End(seed[j].place, "subagent_finished", SubagentSpan(j), seed[j].parent)>>
            \o notice)

(* cancel_job aborts the job's task wherever it waits and announces the    *)
(* job itself; the handle of the job's span is never finished.  The job is *)
(* gone: its canceller publishes in its place.                             *)
CancelJob(j) ==
  /\ at[j] \in {"spawned", "stream", "tool", "returned"} /\ Quiet(j) /\ Registered(j)
  /\ Move(j, "aborted", Notice(j))

Guarded(a) == Stopped(a) \/ Depleted(a) \/ Iterate(a)

Asked(a) == \/ Request(a) \/ Answered(a) \/ AnsweredWithCall(a)
            \/ StreamCancelled(a) \/ StreamRetried(a) \/ StreamFailed(a)

Judged(a) == \/ EmptyAnswer(a) \/ EmptyAgain(a) \/ YieldAnswer(a)
             \/ FinalAnswer(a) \/ AnswerDenied(a) \/ StartTool(a) \/ EndTool(a)

Concluded(a) == \/ RoundFinishes(a) \/ RoundStalls(a) \/ RoundAsksUser(a)
                \/ RoundGoesOn(a)

LoopInit ==
  /\ at = [a \in Actors |-> IF a = Main THEN "idle" ELSE "unborn"]
  /\ turn = [a \in Actors |-> 0]
  /\ iter = [a \in Actors |-> 0]
  /\ attempt = [a \in Actors |-> 0]
  /\ seed = [a \in Actors |-> Nil]
  /\ active = [a \in Actors |-> Nil]
  /\ queue = [a \in Actors |-> <<>>]
  /\ publishing = [a \in Actors |-> Nil]
  /\ made = [a \in Actors |-> 0]

BusInit ==
  /\ stored = {}
  /\ cache = [r \in Runs |-> Nil]
  /\ disk = [r \in Runs |-> Nil]
  /\ row = [r \in Runs |-> Nil]
  /\ failed = 0
  /\ lost = [r \in Runs |-> 0]

Init == LoopInit /\ BusInit

Next ==
  \/ \E a \in Actors : \/ Persist(a) \/ Count(a)
                       \/ Begin(a) \/ Guarded(a) \/ Asked(a) \/ Judged(a)
                       \/ Concluded(a)
  \/ \E j \in 1..Jobs : Spawn(j) \/ RunJob(j) \/ FinishJob(j) \/ CancelJob(j)

Spec == Init /\ [][Next]_vars

-----------------------------------------------------------------------------
(* What trace/query.rs answers.                                            *)

Filed(run) == {s \in stored : s.line.record.run = run}

Indexed(run) == {s \in Filed(run) : s.indexed}

(* get_records: the database's records, or the file's if it has none.      *)
GetRecords(run) ==
  {s.line.record : s \in IF Indexed(run) # {} THEN Indexed(run) ELSE Filed(run)}

(* get_run: the row, or the file if there is none.                         *)
GetRun(run) == IF row[run] # Nil THEN row[run] ELSE disk[run]

Nodes(run) == {r \in GetRecords(run) : r.kind = "start"}
NodeSpans(run) == {r.span : r \in Nodes(run)}

Ended(run) == {r.span : r \in {r \in GetRecords(run) : r.kind = "end"}}

(* Spans are nested no deeper: run, turn, iteration, tool, sub-agent, and  *)
(* the sub-agent's turn, iteration and request or tool.                    *)
Depth == 7

(* Mutant: a span with a parent is nobody's root.                          *)
RootsWithoutParent(run) == {n.span : n \in {n \in Nodes(run) : n.parent = Nil}}

(* The roots of get_tree: the spans that have no parent, and those whose   *)
(* parent is not among the nodes.                                          *)
Roots(run) ==
  LET nodes == Nodes(run)
      spans == {n.span : n \in nodes}
  IN {n.span : n \in {n \in nodes : n.parent = Nil \/ n.parent \notin spans}}

(* How often build_tree_node, called for every root, makes a node of span: *)
(* along the chain of its parents, as far as they are nodes.               *)
Above(nodes, span) == {n.parent : n \in {n \in nodes : n.span = span}}

Shown(nodes, roots, span) ==
  LET spans == {n.span : n \in nodes}
      times[d \in 0..Depth] ==
        [p \in spans |->
           (IF p \in roots THEN 1 ELSE 0)
           + IF d = 0 \/ Above(nodes, p) \cap spans = {} THEN 0
             ELSE times[d - 1][CHOOSE q \in Above(nodes, p) : TRUE]]
  IN times[Depth][span]

(* The counts of get_run_overview.                                         *)
TurnCount(run) == Cardinality({r.turn : r \in GetRecords(run)})

(* Mutant: an iteration is known by its number.                            *)
IterationNumber(r) == r.iter

IterationKey(r) == <<r.turn, r.iter>>

IterationCount(run) ==
  Cardinality({IterationKey(r) : r \in {r \in GetRecords(run) : r.iter # 0}})

-----------------------------------------------------------------------------
(* Properties.                                                             *)

(* Types: where a loop is and what it knows of its run ...                 *)
LoopTypes ==
  /\ at \in [Actors -> LoopPlaces]
  /\ turn \in [Actors -> Nat] /\ turn[Main] <= Turns
  /\ iter \in [Actors -> Nat] /\ attempt \in [Actors -> Nat]
  /\ \A a \in Actors : iter[a] <= Iters[a] /\ attempt[a] <= Attempts[a]
  /\ seed \in [Actors -> Seeds \cup {Nil}]
  /\ active \in [Actors -> ActiveTraces \cup {Nil}]

(* ... and what the bus holds and has written.                             *)
BusTypes ==
  /\ queue \in [Actors -> Seq(Records)]
  /\ publishing \in [Actors -> Records \cup {Nil}]
  /\ made \in [Actors -> Nat]
  /\ stored \subseteq [line : [id : Actors \X Nat, record : Records], indexed : BOOLEAN]
  /\ {cache, disk, row} \subseteq [Runs -> Summaries \cup {Nil}]
  /\ failed \in 0..Failures /\ lost \in [Runs -> Nat]

TypeOK == LoopTypes /\ BusTypes

(* update_summary, called by loops and jobs at the same time: whatever     *)
(* writes failed, the summary has counted each record of the run once,     *)
(* stored or lost, but those in between.                                   *)
CountsAgree ==
  \A r \in Runs :
    (IF cache[r] = Nil THEN 0 ELSE cache[r].events)
    + Cardinality({a \in Actors : publishing[a] # Nil /\ publishing[a].run = r})
      = Cardinality(Filed(r)) + lost[r]

(* update_summary: what a background job goes on to publish in a run never *)
(* reopens the run that has finished, failed or been cancelled.            *)
SettledStays ==
  [][\A r \in Runs : cache[r] # Nil /\ cache[r].status \in Settled =>
       cache'[r].status = cache[r].status]_vars

(* get_tree: every span whose beginning can be read is shown, once,        *)
(* wherever records above it were lost.                                    *)
TreeWhole ==
  \A r \in Runs :
    LET nodes == Nodes(r)
        roots == Roots(r)
    IN \A node \in nodes : Shown(nodes, roots, node.span) = 1

(* get_run_overview: when nothing was lost and nothing is under way, the   *)
(* overview of a run counts the turns and the iterations begun in it, its  *)
(* sub-agents' among them, each once.                                      *)
Begun(run, name) == {n.span : n \in {n \in Nodes(run) : n.span.name = name}}

OverviewCounts ==
  (failed = 0 /\ \A a \in Actors : Quiet(a)) =>
    \A r \in Runs : /\ TurnCount(r) = Cardinality(Begun(r, "turn_started"))
                    /\ IterationCount(r) = Cardinality(Begun(r, "iteration_started"))

(* What get_tree and get_run_overview answer is what was stored.           *)
QueriesTrue == TypeOK /\ TreeWhole /\ OverviewCounts

(* step and finish_active_trace: once the loop of a settled run has        *)
(* returned, and nothing was lost, no span that the loop opened in the run *)
(* is still running; nor is the span of a job that is done.                *)
SettledIsClosed ==
  failed = 0 =>
    /\ Ready(Main, "idle") =>
         \A r \in Runs : cache[r] # Nil /\ cache[r].status \in Settled =>
           \A span \in NodeSpans(r) : span.actor = Main => span \in Ended(r)
    /\ \A j \in 1..Jobs : Ready(j, "done") =>
         SubagentSpan(j) \in Ended(seed[j].place.run)

(* list_runs by task: a run is found by the task of the turn that began    *)
(* it, once all is published.                                              *)
TaskFindsRun ==
  (\A a \in Actors : Quiet(a)) =>
    \A r \in Runs : GetRun(r) # Nil => GetRun(r).task = <<Main, r>>
=============================================================================
