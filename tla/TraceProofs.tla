----------------------------- MODULE TraceProofs -----------------------------
(***************************************************************************)
(* Proofs about Trace, for any number of jobs, turns, iterations, requests *)
(* and failing writes.                                                     *)
(***************************************************************************)
EXTENDS Trace, FiniteSetTheorems, WellFoundedInduction, TLAPS

-----------------------------------------------------------------------------
(* What the spans of a run are, and what it means that an actor's state    *)
(* and its records fit the run they belong to.                             *)

SpanOf(a, name, t, i, k) ==
  [actor |-> a, name |-> name, turn |-> t, iter |-> i, attempt |-> k]

RunSpan(a, t) == SpanOf(a, "run_started", t, 0, 0)
TurnSpan(a, t) == SpanOf(a, "turn_started", t, 0, 0)

(* The run a turn belongs to: the user's n-th turn began run n.            *)
RunOf(id) == IF id[1] = Main THEN id[2] ELSE seed[id[1]].place.run

(* What ActiveTrace says in the actor's present turn.                      *)
TraceOf(a) == [run |-> RunOf(<<a, turn[a]>>), task |-> <<a, turn[a]>>,
               parent |-> IF a = Main THEN Nil ELSE SubagentSpan(a),
               runSpan |-> IF a = Main THEN RunSpan(a, turn[a]) ELSE Nil,
               turnSpan |-> TurnSpan(a, turn[a])]

(* A sub-agent's seed names an iteration of the user's turn, and a tool    *)
(* call in it.                                                             *)
SeedFits(s) ==
  /\ s.place.turn[1] = Main /\ s.place.run = s.place.turn[2] /\ s.place.iter > 0
  /\ s.parent = SpanOf(Main, "tool_started", s.place.turn[2], s.place.iter, 0)

SteadyAt(a) ==
  /\ a = Main => at[a] \in {"idle"} \cup StepPlaces /\ seed[a] = Nil
  /\ a # Main => at[a] \in JobPlaces \cup StepPlaces /\ (seed[a] = Nil <=> at[a] = "unborn")
  /\ a # Main /\ seed[a] = Nil => active[a] = Nil
  /\ at[a] \in StepPlaces => active[a] # Nil
  /\ active[a] # Nil => active[a] = TraceOf(a)
  /\ seed[a] # Nil => SeedFits(seed[a])
  /\ at[a] \in StepPlaces \ {"guard"} => iter[a] > 0

Steady == \A a \in Actors : SteadyAt(a)

-----------------------------------------------------------------------------
(* Sequences of records.                                                   *)

Elems(q) == {q[i] : i \in DOMAIN q}

(* What a sequence of records holds.                                       *)
LEMMA ElemsOf ==
  ASSUME NEW R
  PROVE  /\ <<>> \in Seq(R) /\ Elems(<<>>) = {}
         /\ \A x \in R : <<x>> \in Seq(R) /\ Elems(<<x>>) = {x}
         /\ \A x, y \in R : <<x, y>> \in Seq(R) /\ Elems(<<x, y>>) = {x, y}
         /\ \A s, t \in Seq(R) : s \o t \in Seq(R) /\ Elems(s \o t) = Elems(s) \cup Elems(t)
         /\ \A s \in Seq(R) : s # <<>> =>
              /\ Head(s) \in R /\ Tail(s) \in Seq(R)
              /\ Elems(s) = {Head(s)} \cup Elems(Tail(s))
<1>1. \A s, t \in Seq(R) : s \o t \in Seq(R) /\ Elems(s \o t) = Elems(s) \cup Elems(t)
  <2> SUFFICES ASSUME NEW s \in Seq(R), NEW t \in Seq(R)
               PROVE  s \o t \in Seq(R) /\ Elems(s \o t) = Elems(s) \cup Elems(t)
    OBVIOUS
  <2>1. /\ s \o t \in Seq(R) /\ Len(s \o t) = Len(s) + Len(t)
        /\ \A i \in DOMAIN s : i \in DOMAIN (s \o t) /\ (s \o t)[i] = s[i]
        /\ \A i \in DOMAIN t : i + Len(s) \in DOMAIN (s \o t) /\ (s \o t)[i + Len(s)] = t[i]
        /\ \A i \in DOMAIN (s \o t) : i \in DOMAIN s \/ i - Len(s) \in DOMAIN t
        /\ \A i \in DOMAIN (s \o t) : i \notin DOMAIN s => (s \o t)[i] = t[i - Len(s)]
    OBVIOUS
  <2>2. Elems(s \o t) \subseteq Elems(s) \cup Elems(t)
    <3> SUFFICES ASSUME NEW i \in DOMAIN (s \o t)
                 PROVE  (s \o t)[i] \in Elems(s) \cup Elems(t)
      BY DEF Elems
    <3>1. CASE i \in DOMAIN s
      BY <2>1, <3>1 DEF Elems
    <3>2. CASE i \notin DOMAIN s
      <4>1. i - Len(s) \in DOMAIN t /\ (s \o t)[i] = t[i - Len(s)]
        BY <2>1, <3>2
      <4>2. QED
        BY <4>1 DEF Elems
    <3>3. QED
      BY <3>1, <3>2
  <2>3. Elems(s) \subseteq Elems(s \o t)
    BY <2>1 DEF Elems
  <2>4. Elems(t) \subseteq Elems(s \o t)
    <3> SUFFICES ASSUME NEW i \in DOMAIN t PROVE t[i] \in Elems(s \o t)
      BY DEF Elems
    <3>1. i + Len(s) \in DOMAIN (s \o t) /\ (s \o t)[i + Len(s)] = t[i]
      BY <2>1
    <3>2. QED
      BY <3>1 DEF Elems
  <2>5. QED
    BY <2>1, <2>2, <2>3, <2>4
<1>2. \A s \in Seq(R) : s # <<>> =>
              /\ Head(s) \in R /\ Tail(s) \in Seq(R)
              /\ Elems(s) = {Head(s)} \cup Elems(Tail(s))
  <2> SUFFICES ASSUME NEW s \in Seq(R), s # <<>>
               PROVE  /\ Head(s) \in R /\ Tail(s) \in Seq(R)
                      /\ Elems(s) = {Head(s)} \cup Elems(Tail(s))
    OBVIOUS
  <2>1. /\ Head(s) = s[1] /\ 1 \in DOMAIN s /\ Head(s) \in R /\ Tail(s) \in Seq(R)
        /\ \A i \in DOMAIN Tail(s) : i + 1 \in DOMAIN s /\ Tail(s)[i] = s[i + 1]
        /\ \A i \in DOMAIN s : i = 1 \/ (i - 1 \in DOMAIN Tail(s) /\ Tail(s)[i - 1] = s[i])
    OBVIOUS
  <2>2. Elems(Tail(s)) \subseteq Elems(s) /\ Head(s) \in Elems(s)
    BY <2>1 DEF Elems
  <2>3. Elems(s) \subseteq {Head(s)} \cup Elems(Tail(s))
    <3> SUFFICES ASSUME NEW i \in DOMAIN s PROVE s[i] \in {Head(s)} \cup Elems(Tail(s))
      BY DEF Elems
    <3>1. CASE i = 1
      BY <2>1, <3>1
    <3>2. CASE i # 1
      <4>1. i - 1 \in DOMAIN Tail(s) /\ Tail(s)[i - 1] = s[i]
        BY <2>1, <3>2
      <4>2. QED
        BY <4>1 DEF Elems
    <3>3. QED
      BY <3>1, <3>2
  <2>4. QED
    BY <2>1, <2>2, <2>3
<1>3. \A x \in R : <<x>> \in Seq(R) /\ Elems(<<x>>) = {x}
  BY DEF Elems
<1>4. \A x, y \in R : <<x, y>> \in Seq(R) /\ Elems(<<x, y>>) = {x, y}
  <2> SUFFICES ASSUME NEW x \in R, NEW y \in R
               PROVE  <<x, y>> \in Seq(R) /\ Elems(<<x, y>>) = {x, y}
    OBVIOUS
  <2>1. /\ <<x, y>> \in Seq(R) /\ DOMAIN <<x, y>> = 1..2
        /\ <<x, y>>[1] = x /\ <<x, y>>[2] = y
    OBVIOUS
  <2>2. 1..2 = {1, 2}
    OBVIOUS
  <2>3. QED
    BY <2>1, <2>2 DEF Elems
<1>5. <<>> \in Seq(R) /\ Elems(<<>>) = {}
  BY DEF Elems
<1>6. QED
  BY <1>1, <1>2, <1>3, <1>4, <1>5

-----------------------------------------------------------------------------
(* Types.                                                                  *)

(* The user's session and the jobs.                                        *)
LEMMA ActorFacts ==
  /\ Main \in Actors /\ \A j \in 1..Jobs : j \in Actors /\ j # Main
  /\ \A a \in Actors : a # Main => a \in 1..Jobs
  /\ \A a \in Actors : Iters[a] \in Nat /\ Attempts[a] \in Nat
BY TraceAssumption DEF Actors, Main

(* The spans an actor opens.                                               *)
LEMMA SpanTypes ==
  ASSUME LoopTypes, NEW a \in Actors
  PROVE  /\ \A name \in SpanNames, t, i, k \in Nat : SpanOf(a, name, t, i, k) \in Spans
         /\ \A name \in SpanNames : Span(a, name) = SpanOf(a, name, turn[a], iter[a], attempt[a])
         /\ IterSpan(a) = SpanOf(a, "iteration_started", turn[a], iter[a], 0)
         /\ ToolSpan(a) = SpanOf(a, "tool_started", turn[a], iter[a], 0)
         /\ LlmSpan(a) = SpanOf(a, "llm_request_started", turn[a], iter[a], attempt[a])
         /\ SubagentSpan(a) = SpanOf(a, "subagent_spawned", 0, 0, 0)
         /\ {IterSpan(a), ToolSpan(a), LlmSpan(a), SubagentSpan(a)} \subseteq Spans
         /\ turn[a] \in Nat /\ iter[a] \in Nat /\ attempt[a] \in Nat
         /\ \A t \in Nat : RunSpan(a, t) \in Spans /\ TurnSpan(a, t) \in Spans
<1>1. turn[a] \in Nat /\ iter[a] \in Nat /\ attempt[a] \in Nat
  BY DEF LoopTypes
<1>2. \A name \in SpanNames, t, i, k \in Nat : SpanOf(a, name, t, i, k) \in Spans
  BY DEF SpanOf, Spans
<1>3. /\ \A name \in SpanNames : Span(a, name) = SpanOf(a, name, turn[a], iter[a], attempt[a])
      /\ IterSpan(a) = SpanOf(a, "iteration_started", turn[a], iter[a], 0)
      /\ ToolSpan(a) = SpanOf(a, "tool_started", turn[a], iter[a], 0)
      /\ LlmSpan(a) = SpanOf(a, "llm_request_started", turn[a], iter[a], attempt[a])
      /\ SubagentSpan(a) = SpanOf(a, "subagent_spawned", 0, 0, 0)
  BY DEF Span, SpanOf, IterSpan, ToolSpan, LlmSpan, SubagentSpan
<1>4. /\ "iteration_started" \in SpanNames /\ "tool_started" \in SpanNames
      /\ "llm_request_started" \in SpanNames /\ "subagent_spawned" \in SpanNames
      /\ "run_started" \in SpanNames /\ "turn_started" \in SpanNames
  BY DEF SpanNames
<1>5. \A t \in Nat : RunSpan(a, t) \in Spans /\ TurnSpan(a, t) \in Spans
  BY <1>2, <1>4 DEF RunSpan, TurnSpan
<1>6. QED
  BY <1>1, <1>2, <1>3, <1>4, <1>5

(* What is built from a place is a record.                                 *)
LEMMA RecordTypes ==
  ASSUME NEW place \in Places, NEW name \in RecordNames, NEW parent \in Spans \cup {Nil}
  PROVE  /\ \A span \in Spans : End(place, name, span, parent) \in Records
         /\ Event(place, name, parent) \in Records
         /\ \A span \in Spans : Start(place, span, parent) \in Records
         /\ Whole(place) \in Places
         /\ \A i \in Nat : [place EXCEPT !.iter = i] \in Places
<1>1. \A span \in Spans : End(place, name, span, parent) \in Records
  BY DEF End, Record, Records, Places
<1>2. Event(place, name, parent) \in Records
  BY DEF Event, Record, Records, Places
<1>3. \A span \in Spans : Start(place, span, parent) \in Records
  <2>1. \A span \in Spans : span.name \in RecordNames
    BY DEF Spans, RecordNames
  <2>2. QED
    BY <2>1 DEF Start, Record, Records, Places
<1>4. \A i \in Nat : [place EXCEPT !.iter = i] \in Places
  BY DEF Places
<1>5. Whole(place) \in Places
  BY DEF Whole, Places
<1>6. QED
  BY <1>1, <1>2, <1>3, <1>4, <1>5

(* Where an actor stands, when it is in a run.                             *)
LEMMA Standing ==
  ASSUME LoopTypes, Steady, NEW a \in Actors, active[a] # Nil
  PROVE  /\ active[a] = TraceOf(a)
         /\ Place(a) = [run |-> RunOf(<<a, turn[a]>>), turn |-> <<a, turn[a]>>,
                        iter |-> iter[a], task |-> <<a, turn[a]>>]
         /\ Place(a) \in Places
         /\ active[a].turnSpan = TurnSpan(a, turn[a]) /\ active[a].turnSpan \in Spans
         /\ active[a].runSpan = IF a = Main THEN RunSpan(a, turn[a]) ELSE Nil
         /\ TurnParent(a) = IF a = Main THEN RunSpan(a, turn[a]) ELSE SubagentSpan(a)
         /\ TurnParent(a) \in Spans
<1>1. active[a] = TraceOf(a) /\ active[a] \in ActiveTraces
  BY DEF Steady, SteadyAt, LoopTypes
<1>2. Place(a) = [run |-> RunOf(<<a, turn[a]>>), turn |-> <<a, turn[a]>>,
                  iter |-> iter[a], task |-> <<a, turn[a]>>]
  BY <1>1 DEF Place, TraceOf
<1>3. Place(a) \in Places
  BY <1>1, SpanTypes DEF Place, Places, ActiveTraces, TurnIds
<1>4. /\ active[a].turnSpan = TurnSpan(a, turn[a])
      /\ active[a].runSpan = IF a = Main THEN RunSpan(a, turn[a]) ELSE Nil
      /\ active[a].parent = IF a = Main THEN Nil ELSE SubagentSpan(a)
  BY <1>1 DEF TraceOf
<1>5. RunSpan(a, turn[a]) \in Spans /\ TurnSpan(a, turn[a]) \in Spans /\ SubagentSpan(a) \in Spans
  BY SpanTypes
<1>6. QED
  BY <1>1, <1>2, <1>3, <1>4, <1>5, TraceAssumption DEF TurnParent

(* A step of one loop.                                                     *)
OnlyLoop(a) ==
  /\ at' = [at EXCEPT ![a] = at'[a]] /\ turn' = [turn EXCEPT ![a] = turn'[a]]
  /\ iter' = [iter EXCEPT ![a] = iter'[a]] /\ attempt' = [attempt EXCEPT ![a] = attempt'[a]]
  /\ seed' = [seed EXCEPT ![a] = seed'[a]] /\ active' = [active EXCEPT ![a] = active'[a]]

(* A step of one loop keeps the types and what is steady of all of them.   *)
LEMMA LoopTypesOf ==
  ASSUME LoopTypes, Steady, NEW a \in Actors, OnlyLoop(a),
         at'[a] \in LoopPlaces, turn'[a] \in Nat, iter'[a] \in Nat, attempt'[a] \in Nat,
         iter'[a] <= Iters[a], attempt'[a] <= Attempts[a],
         seed'[a] \in Seeds \cup {Nil}, active'[a] \in ActiveTraces \cup {Nil},
         a = Main => turn'[a] <= Turns, SteadyAt(a)'
  PROVE  LoopTypes' /\ Steady'
<1>1. /\ at' \in [Actors -> LoopPlaces] /\ turn' \in [Actors -> Nat]
      /\ iter' \in [Actors -> Nat] /\ attempt' \in [Actors -> Nat]
      /\ seed' \in [Actors -> Seeds \cup {Nil}]
      /\ active' \in [Actors -> ActiveTraces \cup {Nil}]
  BY DEF LoopTypes, OnlyLoop
<1>2. \A b \in Actors : b # a =>
        /\ at'[b] = at[b] /\ turn'[b] = turn[b] /\ iter'[b] = iter[b]
        /\ attempt'[b] = attempt[b] /\ seed'[b] = seed[b] /\ active'[b] = active[b]
  BY DEF LoopTypes, OnlyLoop
<1>3. turn'[Main] <= Turns /\ \A b \in Actors : iter'[b] <= Iters[b] /\ attempt'[b] <= Attempts[b]
  BY <1>2, ActorFacts DEF LoopTypes
<1>4. ASSUME NEW b \in Actors, b # a PROVE SteadyAt(b)'
  <2>1. SteadyAt(b)
    BY DEF Steady
  <2>2. TraceOf(b)' = TraceOf(b)
    BY <1>2, <1>4 DEF TraceOf, RunOf, SubagentSpan
  <2>3. QED
    BY <1>2, <1>4, <2>1, <2>2 DEF SteadyAt, SeedFits
<1>5. QED
  BY <1>1, <1>3, <1>4 DEF LoopTypes, Steady

-----------------------------------------------------------------------------
(* The steps of the loops, told by what they publish.                      *)

RunNames == {"run_started", "run_finished", "run_failed", "run_cancelled"}

(* A record of a's that opens no span and is not about a run as a whole:   *)
(* it belongs to the turn and the iteration a is in, or to those its seed  *)
(* names.                                                                  *)
Own(a, x) ==
  \/ /\ at[a] \in StepPlaces
     /\ x.run = RunOf(<<a, turn[a]>>) /\ x.turn = <<a, turn[a]>>
     /\ x.iter = 0 \/ (at[a] # "guard" /\ x.iter = iter[a])
  \/ /\ a # Main /\ seed[a] # Nil
     /\ x.run = seed[a].place.run /\ x.turn = seed[a].place.turn
     /\ x.iter = seed[a].place.iter

Remark(a, x) == x.kind # "start" /\ x.name \notin RunNames /\ Own(a, x)

Remarked(a) == {s \in Seq(Records) : \A x \in Elems(s) : Remark(a, x)}

(* Remarks after remarks are remarks.                                      *)
LEMMA RemarksJoin ==
  ASSUME NEW a, NEW s \in Remarked(a), NEW t \in Remarked(a)
  PROVE  s \o t \in Remarked(a)
BY ElemsOf DEF Remarked

(* What a loop ends or remarks on inside a turn are remarks.               *)
LEMMA RemarksOf ==
  ASSUME LoopTypes, Steady, NEW a \in Actors, at[a] \in StepPlaces
  PROVE  /\ <<>> \in Remarked(a)
         /\ \A name \in RecordNames \ RunNames, span \in Spans, parent \in Spans \cup {Nil} :
              /\ <<End(Whole(Place(a)), name, span, parent)>> \in Remarked(a)
              /\ <<Event(Whole(Place(a)), name, parent)>> \in Remarked(a)
              /\ at[a] # "guard" =>
                   /\ <<End(Place(a), name, span, parent)>> \in Remarked(a)
                   /\ <<Event(Place(a), name, parent)>> \in Remarked(a)
<1>1. active[a] # Nil
  BY DEF Steady, SteadyAt
<1>2. /\ Place(a) = [run |-> RunOf(<<a, turn[a]>>), turn |-> <<a, turn[a]>>,
                     iter |-> iter[a], task |-> <<a, turn[a]>>]
      /\ Place(a) \in Places
  BY <1>1, Standing
<1>3. Whole(Place(a)) = [run |-> RunOf(<<a, turn[a]>>), turn |-> <<a, turn[a]>>,
                         iter |-> 0, task |-> <<a, turn[a]>>]
  BY <1>2 DEF Whole
<1>4. Whole(Place(a)) \in Places
  BY <1>2 DEF Whole, Places
<1>5. ASSUME NEW x \in Records, Remark(a, x) PROVE <<x>> \in Remarked(a)
  BY <1>5, ElemsOf DEF Remarked
<1>6. ASSUME NEW name \in RecordNames \ RunNames, NEW span \in Spans,
             NEW parent \in Spans \cup {Nil}
      PROVE  /\ <<End(Whole(Place(a)), name, span, parent)>> \in Remarked(a)
             /\ <<Event(Whole(Place(a)), name, parent)>> \in Remarked(a)
             /\ at[a] # "guard" =>
                  /\ <<End(Place(a), name, span, parent)>> \in Remarked(a)
                  /\ <<Event(Place(a), name, parent)>> \in Remarked(a)
  <2>1. /\ End(Whole(Place(a)), name, span, parent) \in Records
        /\ Event(Whole(Place(a)), name, parent) \in Records
        /\ End(Place(a), name, span, parent) \in Records
        /\ Event(Place(a), name, parent) \in Records
    BY <1>2, <1>4, RecordTypes
  <2>2. /\ Remark(a, End(Whole(Place(a)), name, span, parent))
        /\ Remark(a, Event(Whole(Place(a)), name, parent))
    BY <1>3 DEF Remark, Own, End, Event, Record
  <2>3. at[a] # "guard" => /\ Remark(a, End(Place(a), name, span, parent))
                           /\ Remark(a, Event(Place(a), name, parent))
    BY <1>2 DEF Remark, Own, End, Event, Record
  <2>4. QED
    BY <1>5, <2>1, <2>2, <2>3
<1>7. <<>> \in Remarked(a)
  BY ElemsOf DEF Remarked
<1>8. QED
  BY <1>6, <1>7

(* The records that the exits and the turns of the loop have in common.    *)
LEMMA CommonRemarks ==
  ASSUME LoopTypes, Steady, NEW a \in Actors, at[a] \in StepPlaces \ {"guard"}
  PROVE  /\ EndIteration(a) \in Remarked(a) /\ EndLlm(a) \in Remarked(a)
         /\ Yielded(a) \in Remarked(a)
         /\ <<Event(Place(a), "llm_retry_scheduled", IterSpan(a))>> \in Remarked(a)
         /\ <<Event(Place(a), "llm_error", IterSpan(a))>> \in Remarked(a)
         /\ <<Event(Whole(Place(a)), "yielded_to_user", active[a].turnSpan)>> \in Remarked(a)
         /\ <<End(Place(a), "tool_finished", ToolSpan(a), IterSpan(a))>> \in Remarked(a)
<1>1. /\ active[a].turnSpan \in Spans /\ IterSpan(a) \in Spans /\ LlmSpan(a) \in Spans
      /\ ToolSpan(a) \in Spans
  BY Standing, SpanTypes DEF Steady, SteadyAt
<1>2. {"iteration_finished", "llm_request_finished", "yielded_to_user", "llm_retry_scheduled",
       "llm_error", "tool_finished"} \subseteq RecordNames \ RunNames
  BY DEF RecordNames, SpanNames, RunNames
<1>3. QED
  BY <1>1, <1>2, RemarksOf DEF EndIteration, EndLlm, Yielded

(* A loop publishes remarks and moves on.                                  *)
Silent(a) ==
  /\ Quiet(a) /\ UNCHANGED <<publishing, made, busVars>>
  /\ queue' = [queue EXCEPT ![a] = queue'[a]] /\ queue'[a] \in Seq(Records)

Remarks(a) ==
  /\ OnlyLoop(a) /\ Silent(a) /\ UNCHANGED <<turn, iter, attempt, seed, active>>
  /\ at'[a] \in LoopPlaces /\ SteadyAt(a)'
  /\ at'[a] \in StepPlaces => at[a] \in StepPlaces \ {"guard"}
  /\ queue'[a] \in Remarked(a)

(* A loop that goes on leaves the bus alone.                               *)
LEMMA GoSilent ==
  ASSUME TypeOK, NEW a \in Actors, NEW place, NEW records \in Seq(Records), Quiet(a),
         Go(a, place, records)
  PROVE  /\ Silent(a) /\ at' = [at EXCEPT ![a] = at'[a]] /\ at'[a] = place
         /\ queue'[a] = records
BY DEF Silent, Go, Publish, TypeOK, LoopTypes, BusTypes

(* A loop that moves on publishes remarks.                                 *)
LEMMA MoveRemarks ==
  ASSUME TypeOK, Steady, NEW a \in Actors, NEW place \in LoopPlaces,
         NEW records \in Remarked(a), Quiet(a), Move(a, place, records),
         a = Main => place \in {"idle"} \cup StepPlaces,
         a # Main => seed[a] # Nil /\ place \in (JobPlaces \ {"unborn"}) \cup StepPlaces,
         place \in StepPlaces => at[a] \in StepPlaces \ {"guard"},
         place \in StepPlaces \ {"guard"} => iter[a] > 0
  PROVE  Remarks(a)
<1>1. /\ Silent(a) /\ at' = [at EXCEPT ![a] = at'[a]] /\ at'[a] = place
      /\ queue'[a] = records
  BY GoSilent DEF Move, Remarked
<1>2. UNCHANGED <<turn, iter, attempt, seed, active>>
  BY DEF Move
<1>3. OnlyLoop(a)
  BY <1>1, <1>2 DEF OnlyLoop, TypeOK, LoopTypes
<1>4. SteadyAt(a)
  BY DEF Steady
<1>5. TraceOf(a)' = TraceOf(a)
  BY <1>2 DEF TraceOf, RunOf, SubagentSpan
<1>6. SteadyAt(a)'
  <2>1. "unborn" \notin StepPlaces /\ "idle" \notin JobPlaces \cup StepPlaces
    BY DEF StepPlaces, JobPlaces
  <2>2. QED
    BY <1>1, <1>2, <1>4, <1>5, <2>1 DEF SteadyAt, SeedFits
<1>7. QED
  BY <1>1, <1>2, <1>3, <1>6 DEF Remarks

(* A turn ends: finish_active_trace, among remarks.                        *)
OutcomeNames == {"run_finished", "run_failed", "run_cancelled"}

Settles(a) ==
  /\ OnlyLoop(a) /\ Silent(a) /\ UNCHANGED <<turn, iter, attempt, seed>>
  /\ at[a] \in StepPlaces /\ at'[a] = Back(a) /\ active'[a] = Nil
  /\ SteadyAt(a)'
  /\ \E before, after \in Remarked(a), name \in OutcomeNames :
       queue'[a] = before \o Closing(a, name) \o after

(* An exit through finish_active_trace ends the turn.                      *)
LEMMA SettleSettles ==
  ASSUME TypeOK, Steady, NEW a \in Actors, NEW before \in Remarked(a), NEW after \in Remarked(a),
         NEW name \in OutcomeNames, at[a] \in StepPlaces, Quiet(a),
         Settle(a, before, name, after)
  PROVE  Settles(a)
<1>1. Closing(a, name) \in Seq(Records)
  <2>1. /\ Whole(Place(a)) \in Places /\ active[a].turnSpan \in Spans
        /\ TurnParent(a) \in Spans
        /\ active[a].runSpan = IF a = Main THEN RunSpan(a, turn[a]) ELSE Nil
    <3>1. active[a] # Nil
      BY DEF Steady, SteadyAt
    <3>2. Place(a) \in Places
      BY <3>1, Standing DEF TypeOK
    <3>3. "llm_error" \in RecordNames
      BY DEF RecordNames
    <3>4. Whole(Place(a)) \in Places
      BY <3>2, <3>3, RecordTypes
    <3>5. QED
      BY <3>1, <3>4, Standing DEF TypeOK
  <2>2. name \in RecordNames /\ "turn_finished" \in RecordNames
    BY DEF OutcomeNames, RecordNames
  <2>3. End(Whole(Place(a)), "turn_finished", active[a].turnSpan, TurnParent(a)) \in Records
    BY <2>1, <2>2, RecordTypes
  <2>4. active[a].runSpan # Nil =>
          End(Whole(Place(a)), name, active[a].runSpan, Nil) \in Records
    BY <2>1, <2>2, RecordTypes, SpanTypes DEF TypeOK
  <2>5. QED
    BY <2>3, <2>4, ElemsOf DEF Closing
<1>2. before \o Closing(a, name) \o after \in Seq(Records)
  BY <1>1, ElemsOf DEF Remarked
<1>3. /\ active' = [active EXCEPT ![a] = Nil]
      /\ UNCHANGED <<turn, iter, attempt, seed>>
      /\ Go(a, Back(a), before \o Closing(a, name) \o after)
  BY DEF Settle
<1>4. /\ Silent(a) /\ at' = [at EXCEPT ![a] = at'[a]] /\ at'[a] = Back(a)
      /\ queue'[a] = before \o Closing(a, name) \o after
  BY <1>2, <1>3, GoSilent
<1>5. OnlyLoop(a) /\ active'[a] = Nil
  BY <1>3, <1>4 DEF OnlyLoop, TypeOK, LoopTypes
<1>6. SteadyAt(a)'
  <2>1. /\ Back(a) \notin StepPlaces /\ a = Main => Back(a) = "idle"
    BY DEF Back, StepPlaces
  <2>2. SteadyAt(a)
    BY DEF Steady
  <2>3. a # Main => seed[a] # Nil /\ Back(a) \in JobPlaces /\ Back(a) # "unborn"
    BY <2>2 DEF SteadyAt, StepPlaces, Back, JobPlaces
  <2>4. a = Main => Back(a) = "idle"
    BY DEF Back
  <2>5. Back(a) \notin StepPlaces
    BY DEF Back, StepPlaces
  <2>6. QED
    BY <1>3, <1>4, <1>5, <2>2, <2>3, <2>4, <2>5 DEF SteadyAt, SeedFits
<1>7. QED
  BY <1>3, <1>4, <1>5, <1>6 DEF Settles

(* A span is opened inside the turn.                                       *)
Opens(a, span, parent, i) ==
  /\ OnlyLoop(a) /\ Silent(a) /\ UNCHANGED <<turn, seed, active>>
  /\ at[a] \in StepPlaces /\ at'[a] \in StepPlaces
  /\ iter'[a] = i /\ i > 0 /\ i <= Iters[a]
  /\ i \in Nat /\ attempt'[a] \in Nat /\ attempt'[a] <= Attempts[a]
  /\ span \in Spans /\ parent \in Spans
  /\ queue'[a] = <<Start([Place(a) EXCEPT !.iter = i], span, parent)>>

(* Opening a span keeps what is steady.                                    *)
LEMMA OpensSteady ==
  ASSUME TypeOK, Steady, NEW a \in Actors, NEW span, NEW parent, NEW i, Opens(a, span, parent, i)
  PROVE  SteadyAt(a)'
<1>1. TraceOf(a)' = TraceOf(a)
  BY DEF Opens, TraceOf, RunOf, SubagentSpan
<1>2. SteadyAt(a)
  BY DEF Steady
<1>3. "idle" \notin StepPlaces /\ "unborn" \notin StepPlaces
  BY DEF StepPlaces
<1>4. /\ at'[a] \in StepPlaces /\ at[a] \in StepPlaces /\ iter'[a] > 0
      /\ seed'[a] = seed[a] /\ active'[a] = active[a]
  BY DEF Opens
<1>5. active'[a] # Nil => active'[a] = TraceOf(a)'
  BY <1>1, <1>2, <1>4 DEF SteadyAt
<1>6. QED
  BY <1>2, <1>3, <1>4, <1>5 DEF SteadyAt

(* An iteration, a request and a tool call each open a span.               *)
LEMMA IterateOpens ==
  ASSUME TypeOK, Steady, NEW a \in Actors, Iterate(a)
  PROVE  /\ Opens(a, SpanOf(a, "iteration_started", turn[a], iter[a] + 1, 0),
                  TurnSpan(a, turn[a]), iter[a] + 1)
         /\ at[a] = "guard" /\ at'[a] = "llm"
<1> DEFINE i == iter[a] + 1
           span == [IterSpan(a) EXCEPT !.iter = i]
           place == [Place(a) EXCEPT !.iter = i]
<1>1. /\ Quiet(a) /\ at[a] = "guard" /\ at[a] \in StepPlaces /\ active[a] # Nil
      /\ iter[a] < Iters[a]
  BY DEF Iterate, Ready, Steady, SteadyAt, StepPlaces
<1>2. /\ active[a].turnSpan = TurnSpan(a, turn[a]) /\ TurnSpan(a, turn[a]) \in Spans
      /\ Place(a) \in Places /\ i \in Nat
  <2>1. LoopTypes
    BY DEF TypeOK
  <2>2. iter[a] \in Nat /\ turn[a] \in Nat
    BY <2>1, SpanTypes
  <2>3. active[a].turnSpan = TurnSpan(a, turn[a]) /\ active[a].turnSpan \in Spans
    BY <1>1, <2>1, Standing
  <2>4. Place(a) \in Places
    BY <1>1, <2>1, Standing
  <2>5. QED
    BY <2>2, <2>3, <2>4
<1>3. span = SpanOf(a, "iteration_started", turn[a], i, 0) /\ span \in Spans
  <2>1. IterSpan(a) = SpanOf(a, "iteration_started", turn[a], iter[a], 0)
    BY SpanTypes DEF TypeOK
  <2>2. span = SpanOf(a, "iteration_started", turn[a], i, 0)
    BY <2>1 DEF SpanOf
  <2>3. "iteration_started" \in SpanNames
    BY DEF SpanNames
  <2>4. SpanOf(a, "iteration_started", turn[a], i, 0) \in Spans
    BY <1>2, <2>3, SpanTypes DEF TypeOK
  <2>5. QED
    BY <2>2, <2>4
<1>4. <<Start(place, span, active[a].turnSpan)>> \in Seq(Records)
  <2>1. "llm_error" \in RecordNames
    BY DEF RecordNames
  <2>2. place \in Places
    BY <1>2, <2>1, RecordTypes
  <2>3. Start(place, span, active[a].turnSpan) \in Records
    BY <1>2, <1>3, <2>1, <2>2, RecordTypes
  <2>4. QED
    BY <2>3, ElemsOf
<1>5. Go(a, "llm", <<Start(place, span, active[a].turnSpan)>>)
  BY DEF Iterate
<1>6. /\ Silent(a) /\ at' = [at EXCEPT ![a] = at'[a]] /\ at'[a] = "llm"
      /\ queue'[a] = <<Start(place, span, active[a].turnSpan)>>
  BY <1>1, <1>4, <1>5, GoSilent
<1>7. /\ iter' = [iter EXCEPT ![a] = @ + 1] /\ attempt' = [attempt EXCEPT ![a] = 0]
      /\ UNCHANGED <<turn, seed, active>>
  BY DEF Iterate
<1>8. OnlyLoop(a) /\ iter'[a] = i /\ attempt'[a] = 0
  BY <1>6, <1>7 DEF OnlyLoop, TypeOK, LoopTypes
<1>9. i > 0 /\ i <= Iters[a] /\ 0 <= Attempts[a]
  BY <1>1, <1>2, ActorFacts DEF TypeOK, LoopTypes
<1>10. QED
  BY <1>1, <1>2, <1>3, <1>6, <1>7, <1>8, <1>9 DEF Opens, StepPlaces

(* A request opens a span.                                                 *)
LEMMA RequestOpens ==
  ASSUME TypeOK, Steady, NEW a \in Actors, Request(a)
  PROVE  /\ Opens(a, SpanOf(a, "llm_request_started", turn[a], iter[a], attempt[a] + 1),
                  IterSpan(a), iter[a])
         /\ at[a] = "llm" /\ at'[a] = "stream" /\ attempt'[a] = attempt[a] + 1
<1> DEFINE k == attempt[a] + 1
           span == [LlmSpan(a) EXCEPT !.attempt = k]
<1>1. /\ Quiet(a) /\ at[a] = "llm" /\ at[a] \in StepPlaces /\ active[a] # Nil
      /\ attempt[a] < Attempts[a] /\ iter[a] > 0
  BY DEF Request, Ready, Steady, SteadyAt, StepPlaces
<1>2. /\ Place(a) \in Places /\ k \in Nat /\ iter[a] \in Nat
      /\ IterSpan(a) \in Spans
      /\ [Place(a) EXCEPT !.iter = iter[a]] = Place(a)
  <2>0. LoopTypes
    BY DEF TypeOK
  <2>1. /\ Place(a) \in Places /\ Place(a).iter = iter[a]
    BY <1>1, <2>0, Standing DEF Place
  <2>2. k \in Nat /\ iter[a] \in Nat /\ IterSpan(a) \in Spans
    BY SpanTypes DEF TypeOK
  <2>3. QED
    BY <2>1, <2>2 DEF Places
<1>3. span = SpanOf(a, "llm_request_started", turn[a], iter[a], k) /\ span \in Spans
  <2>1. LlmSpan(a) = SpanOf(a, "llm_request_started", turn[a], iter[a], attempt[a])
    BY SpanTypes DEF TypeOK
  <2>2. span = SpanOf(a, "llm_request_started", turn[a], iter[a], k)
    BY <2>1 DEF SpanOf
  <2>3. "llm_request_started" \in SpanNames
    BY DEF SpanNames
  <2>4. SpanOf(a, "llm_request_started", turn[a], iter[a], k) \in Spans
    BY <1>2, <2>3, SpanTypes DEF TypeOK
  <2>5. QED
    BY <2>2, <2>4
<1>4. <<Start(Place(a), span, IterSpan(a))>> \in Seq(Records)
  <2>1. "llm_error" \in RecordNames
    BY DEF RecordNames
  <2>2. Start(Place(a), span, IterSpan(a)) \in Records
    BY <1>2, <1>3, <2>1, RecordTypes
  <2>3. QED
    BY <2>2, ElemsOf
<1>5. Go(a, "stream", <<Start(Place(a), span, IterSpan(a))>>)
  BY DEF Request
<1>6. /\ Silent(a) /\ at' = [at EXCEPT ![a] = at'[a]] /\ at'[a] = "stream"
      /\ queue'[a] = <<Start(Place(a), span, IterSpan(a))>>
  BY <1>1, <1>4, <1>5, GoSilent
<1>7. /\ attempt' = [attempt EXCEPT ![a] = @ + 1] /\ UNCHANGED <<turn, iter, seed, active>>
  BY DEF Request
<1>8. OnlyLoop(a) /\ iter'[a] = iter[a] /\ attempt'[a] = k
  BY <1>6, <1>7 DEF OnlyLoop, TypeOK, LoopTypes
<1>9. iter[a] <= Iters[a] /\ k <= Attempts[a]
  BY <1>1, <1>2, ActorFacts DEF TypeOK, LoopTypes
<1>10. QED
  BY <1>1, <1>2, <1>3, <1>6, <1>7, <1>8, <1>9 DEF Opens, StepPlaces

(* So does a tool call.                                                    *)
LEMMA StartToolOpens ==
  ASSUME TypeOK, Steady, NEW a \in Actors, StartTool(a)
  PROVE  /\ Opens(a, ToolSpan(a), IterSpan(a), iter[a])
         /\ at[a] = "calls" /\ at'[a] = "tool" /\ attempt' = attempt
<1>1. /\ Quiet(a) /\ at[a] = "calls" /\ at[a] \in StepPlaces /\ active[a] # Nil
      /\ iter[a] > 0
  BY DEF StartTool, Ready, Steady, SteadyAt, StepPlaces
<1>2. /\ Place(a) \in Places /\ iter[a] \in Nat
      /\ IterSpan(a) \in Spans /\ ToolSpan(a) \in Spans
      /\ [Place(a) EXCEPT !.iter = iter[a]] = Place(a)
  <2>0. LoopTypes
    BY DEF TypeOK
  <2>1. /\ Place(a) \in Places /\ Place(a).iter = iter[a]
    BY <1>1, <2>0, Standing DEF Place
  <2>2. iter[a] \in Nat /\ IterSpan(a) \in Spans /\ ToolSpan(a) \in Spans
    BY SpanTypes DEF TypeOK
  <2>3. QED
    BY <2>1, <2>2 DEF Places
<1>4. <<Start(Place(a), ToolSpan(a), IterSpan(a))>> \in Seq(Records)
  <2>1. "llm_error" \in RecordNames
    BY DEF RecordNames
  <2>2. Start(Place(a), ToolSpan(a), IterSpan(a)) \in Records
    BY <1>2, <2>1, RecordTypes
  <2>3. QED
    BY <2>2, ElemsOf
<1>5. /\ Go(a, "tool", <<Start(Place(a), ToolSpan(a), IterSpan(a))>>)
      /\ UNCHANGED <<turn, iter, attempt, seed, active>>
  BY DEF StartTool, Move
<1>6. /\ Silent(a) /\ at' = [at EXCEPT ![a] = at'[a]] /\ at'[a] = "tool"
      /\ queue'[a] = <<Start(Place(a), ToolSpan(a), IterSpan(a))>>
  BY <1>1, <1>4, <1>5, GoSilent
<1>8. OnlyLoop(a)
  BY <1>5, <1>6 DEF OnlyLoop, TypeOK, LoopTypes
<1>9. iter[a] <= Iters[a] /\ attempt[a] <= Attempts[a] /\ attempt[a] \in Nat
  BY <1>1, <1>2, ActorFacts DEF TypeOK, LoopTypes
<1>10. QED
  BY <1>1, <1>2, <1>5, <1>6, <1>8, <1>9 DEF Opens, StepPlaces

(* A turn begins, with a run of its own if it is the user's.               *)
TurnPlace(a, t) == [run |-> RunOf(<<a, t>>), turn |-> <<a, t>>, iter |-> 0, task |-> <<a, t>>]

Begins(a, t) ==
  /\ OnlyLoop(a) /\ Silent(a) /\ UNCHANGED seed
  /\ at[a] = IF a = Main THEN "idle" ELSE "started"
  /\ at'[a] = "guard" /\ t = turn[a] + 1 /\ turn'[a] = t /\ iter'[a] = 0 /\ attempt'[a] = 0
  /\ a = Main => t <= Turns
  /\ active'[a] \in ActiveTraces /\ SteadyAt(a)'
  /\ TurnPlace(a, t) \in Places
  /\ queue'[a] = IF a = Main
                 THEN <<Start(TurnPlace(a, t), RunSpan(a, t), Nil)>>
                      \o <<Start(TurnPlace(a, t), TurnSpan(a, t), RunSpan(a, t))>>
                 ELSE <<Start(TurnPlace(a, t), TurnSpan(a, t), SubagentSpan(a))>>

(* begin_trace_run begins a turn.                                          *)
LEMMA BeginBegins ==
  ASSUME TypeOK, Steady, NEW a \in Actors, Begin(a)
  PROVE  Begins(a, turn[a] + 1)
<1> DEFINE t == turn[a] + 1
           run == IF seed[a] = Nil THEN t ELSE seed[a].place.run
           base == [run |-> run, turn |-> <<a, t>>, iter |-> 0, task |-> <<a, t>>]
           parent == IF seed[a] = Nil THEN Nil ELSE SubagentSpan(a)
           runSpan == IF HasRunSpan(a) THEN RunSpan(a, t) ELSE Nil
           trace == [run |-> run, task |-> <<a, t>>, parent |-> parent,
                     runSpan |-> runSpan, turnSpan |-> TurnSpan(a, t)]
           records == (IF runSpan = Nil THEN <<>> ELSE <<Start(base, runSpan, Nil)>>)
                      \o <<Start(base, TurnSpan(a, t), IF runSpan = Nil THEN parent ELSE runSpan)>>
<1>1. /\ Quiet(a) /\ turn' = [turn EXCEPT ![a] = t] /\ iter' = [iter EXCEPT ![a] = 0]
      /\ attempt' = [attempt EXCEPT ![a] = 0] /\ UNCHANGED seed
      /\ at[a] = IF a = Main THEN "idle" ELSE "started"
      /\ a = Main => turn[a] < Turns
  BY DEF Begin, Ready
<1>2. active' = [active EXCEPT ![a] = trace] /\ Go(a, "guard", records)
  BY DEF Begin, RunSpan, TurnSpan, SpanOf
<1>3. LoopTypes /\ SteadyAt(a) /\ turn[a] \in Nat /\ t \in Nat /\ t # 0
  <2>1. LoopTypes /\ SteadyAt(a)
    BY DEF TypeOK, Steady
  <2>2. turn[a] \in Nat
    BY <2>1 DEF LoopTypes
  <2>3. QED
    BY <2>1, <2>2
<1>4. (a = Main <=> seed[a] = Nil) /\ run = RunOf(<<a, t>>)
  <2>1. a # Main => seed[a] # Nil
    BY <1>1, <1>3 DEF SteadyAt
  <2>2. a = Main => seed[a] = Nil
    BY <1>3 DEF SteadyAt
  <2>3. <<a, t>>[1] = a /\ <<a, t>>[2] = t
    OBVIOUS
  <2>4. QED
    BY <2>1, <2>2, <2>3 DEF RunOf
<1>5. run \in Runs
  <2>1. CASE a = Main
    BY <1>1, <1>3, <1>4, <2>1, TraceAssumption DEF Runs
  <2>2. CASE a # Main
    <3>1. seed[a] \in Seeds
      BY <1>3, <1>4, <2>2 DEF LoopTypes
    <3>2. seed[a].place \in Places
      BY <3>1 DEF Seeds
    <3>3. QED
      BY <1>4, <2>2, <3>2 DEF Places
  <2>3. QED
    BY <2>1, <2>2
<1>6. base = TurnPlace(a, t) /\ base \in Places
  <2>1. <<a, t>> \in TurnIds
    BY <1>3 DEF TurnIds
  <2>2. QED
    BY <1>4, <1>5, <2>1 DEF TurnPlace, Places
<1>7. /\ RunSpan(a, t) \in Spans /\ TurnSpan(a, t) \in Spans /\ SubagentSpan(a) \in Spans
      /\ RunSpan(a, t) # Nil
  BY <1>3, SpanTypes, TraceAssumption
<1>8. /\ parent = (IF a = Main THEN Nil ELSE SubagentSpan(a))
      /\ runSpan = (IF a = Main THEN RunSpan(a, t) ELSE Nil)
      /\ runSpan = Nil <=> a # Main
  BY <1>4, <1>7 DEF HasRunSpan
<1> HIDE DEF run, base, parent, runSpan
<1>9. /\ Start(base, RunSpan(a, t), Nil) \in Records
       /\ Start(base, TurnSpan(a, t), RunSpan(a, t)) \in Records
       /\ Start(base, TurnSpan(a, t), SubagentSpan(a)) \in Records
  <2>1. "llm_error" \in RecordNames
    BY DEF RecordNames
  <2>2. QED
    BY <1>6, <1>7, <2>1, RecordTypes
<1>10. records = IF a = Main
                THEN <<Start(base, RunSpan(a, t), Nil)>>
                     \o <<Start(base, TurnSpan(a, t), RunSpan(a, t))>>
                ELSE <<Start(base, TurnSpan(a, t), SubagentSpan(a))>>
  <2>1. CASE a = Main
    BY <1>8, <2>1
  <2>2. CASE a # Main
    <3>1. records = <<>> \o <<Start(base, TurnSpan(a, t), SubagentSpan(a))>>
      BY <1>8, <2>2
    <3>2. \A y \in Records : <<>> \o <<y>> = <<y>>
      OBVIOUS
    <3>3. QED
      BY <1>9, <2>2, <3>1, <3>2
  <2>3. QED
    BY <2>1, <2>2
<1> HIDE DEF records
<1>11. records \in Seq(Records)
  BY <1>10, <1>9, ElemsOf
<1>12. /\ Silent(a) /\ at' = [at EXCEPT ![a] = at'[a]] /\ at'[a] = "guard"
       /\ queue'[a] = records
  BY <1>1, <1>2, <1>11, GoSilent
<1>13. /\ OnlyLoop(a) /\ turn'[a] = t /\ iter'[a] = 0 /\ attempt'[a] = 0 /\ active'[a] = trace
  BY <1>1, <1>2, <1>3, <1>12 DEF OnlyLoop, LoopTypes
<1>14. trace \in ActiveTraces
  <2>1. <<a, t>> \in TurnIds /\ parent \in Spans \cup {Nil} /\ runSpan \in Spans \cup {Nil}
    BY <1>3, <1>7, <1>8 DEF TurnIds
  <2>2. QED
    BY <1>5, <1>7, <2>1 DEF ActiveTraces
<1>15. SteadyAt(a)'
  <2>1. RunOf(<<a, turn[a]>>)' = RunOf(<<a, t>>)
    <3>1. seed' = seed /\ turn'[a] = t
      BY <1>1, <1>13
    <3>2. QED
      BY <3>1 DEF RunOf
  <2>2. TraceOf(a)' = trace
    BY <1>4, <1>8, <1>13, <2>1 DEF TraceOf, SubagentSpan
  <2>3. trace # Nil /\ "guard" \in StepPlaces
    BY <1>14, TraceAssumption DEF StepPlaces
  <2>4. at[a] # "unborn"
    BY <1>1
  <2>5. QED
    BY <1>1, <1>3, <1>4, <1>12, <1>13, <2>2, <2>3, <2>4 DEF SteadyAt, SeedFits
<1>16. QED
  <2>1. a = Main => t <= Turns
    BY <1>1, <1>3, TraceAssumption
  <2>2. QED
    BY <1>1, <1>3, <1>6, <1>10, <1>12, <1>13, <1>14, <1>15, <2>1 DEF Begins

(* A job is spawned in a tool call of the user's turn.                     *)
Spawns(j) ==
  /\ OnlyLoop(j) /\ UNCHANGED <<turn, iter, attempt, active, publishing, made, busVars>>
  /\ Quiet(Main) /\ at[Main] = "tool" /\ at[j] = "unborn" /\ seed[j] = Nil /\ at'[j] = "spawned"
  /\ seed'[j] = [place |-> Place(Main), parent |-> ToolSpan(Main)] /\ seed'[j] \in Seeds
  /\ SteadyAt(j)'
  /\ queue' = [queue EXCEPT ![Main] = queue'[Main]] /\ queue'[Main] \in Seq(Records)
  /\ queue'[Main] = <<Start(Place(Main), SubagentSpan(j), ToolSpan(Main))>>

(* A spawn opens the span of the job.                                      *)
LEMMA SpawnSpawns ==
  ASSUME TypeOK, Steady, NEW j \in 1..Jobs, Spawn(j)
  PROVE  Spawns(j)
<1> DEFINE s == [place |-> Place(Main), parent |-> ToolSpan(Main)]
<1>1. LoopTypes /\ j \in Actors /\ j # Main /\ Main \in Actors /\ SteadyAt(j) /\ SteadyAt(Main)
  BY ActorFacts DEF TypeOK, Steady
<1>2. /\ Quiet(Main) /\ at[Main] = "tool" /\ at[j] = "unborn" /\ seed[j] = Nil
      /\ active[Main] # Nil /\ iter[Main] > 0
  BY <1>1 DEF Spawn, Ready, SteadyAt, StepPlaces
<1>3. /\ seed' = [seed EXCEPT ![j] = s] /\ at' = [at EXCEPT ![j] = "spawned"]
      /\ queue' = [queue EXCEPT ![Main] = <<Start(Place(Main), SubagentSpan(j), ToolSpan(Main))>>]
      /\ UNCHANGED <<turn, iter, attempt, active, publishing, made, busVars>>
  BY DEF Spawn, Publish
<1>4. Place(Main) \in Places
  BY <1>1, <1>2, Standing
<1>5. /\ Place(Main) = [run |-> RunOf(<<Main, turn[Main]>>), turn |-> <<Main, turn[Main]>>,
                       iter |-> iter[Main], task |-> <<Main, turn[Main]>>]
  BY <1>1, <1>2, Standing
<1>6. ToolSpan(Main) \in Spans /\ SubagentSpan(j) \in Spans
  BY <1>1, SpanTypes
<1>7. ToolSpan(Main) = SpanOf(Main, "tool_started", turn[Main], iter[Main], 0)
  BY <1>1, SpanTypes
<1>8. SeedFits(s) /\ s \in Seeds
  <2>1. RunOf(<<Main, turn[Main]>>) = turn[Main]
    BY DEF RunOf
  <2>2. SeedFits(s)
    BY <1>2, <1>5, <1>7, <2>1 DEF SeedFits
  <2>3. QED
    BY <1>4, <1>6, <2>2 DEF Seeds
<1>9. OnlyLoop(j) /\ seed'[j] = s /\ at'[j] = "spawned"
  BY <1>1, <1>3 DEF OnlyLoop, LoopTypes
<1>10. SteadyAt(j)'
  <2>1. active'[j] = Nil
    BY <1>1, <1>2, <1>3 DEF SteadyAt
  <2>2. s # Nil
    BY <1>8, TraceAssumption
  <2>3. "spawned" \in JobPlaces /\ "spawned" \notin StepPlaces
    BY DEF JobPlaces, StepPlaces
  <2>4. QED
    BY <1>1, <1>8, <1>9, <2>1, <2>2, <2>3 DEF SteadyAt, SeedFits
<1>11. <<Start(Place(Main), SubagentSpan(j), ToolSpan(Main))>> \in Seq(Records)
  <2>1. "llm_error" \in RecordNames
    BY DEF RecordNames
  <2>2. Start(Place(Main), SubagentSpan(j), ToolSpan(Main)) \in Records
    BY <1>4, <1>6, <2>1, RecordTypes
  <2>3. QED
    BY <2>2, ElemsOf
<1>12. /\ queue'[Main] = <<Start(Place(Main), SubagentSpan(j), ToolSpan(Main))>>
       /\ queue' = [queue EXCEPT ![Main] = queue'[Main]]
  BY <1>1, <1>3 DEF TypeOK, BusTypes
<1>13. QED
  BY <1>2, <1>3, <1>8, <1>9, <1>10, <1>11, <1>12 DEF Spawns

-----------------------------------------------------------------------------
(* Every step of a loop or a job is one of these.                          *)

(* In step a loop moves from place to place ...                            *)
LEMMA StepRemarks ==
  ASSUME TypeOK, Steady, NEW a \in Actors, NEW place \in StepPlaces, NEW records \in Remarked(a),
         at[a] \in StepPlaces \ {"guard"}, Quiet(a), Move(a, place, records)
  PROVE  Remarks(a)
<1>1. SteadyAt(a)
  BY DEF Steady
<1>2. "unborn" \notin StepPlaces /\ StepPlaces \subseteq LoopPlaces
  BY DEF StepPlaces, LoopPlaces
<1>3. iter[a] > 0 /\ (a # Main => seed[a] # Nil)
  BY <1>1, <1>2 DEF SteadyAt
<1>4. QED
  BY <1>2, <1>3, MoveRemarks

(* ... and returns.                                                        *)
LEMMA LeaveRemarks ==
  ASSUME TypeOK, Steady, NEW a \in Actors, NEW records \in Remarked(a),
         at[a] \in StepPlaces, Quiet(a), Leave(a, records)
  PROVE  Remarks(a)
<1>1. SteadyAt(a)
  BY DEF Steady
<1>2. /\ "unborn" \notin StepPlaces /\ "idle" \notin StepPlaces /\ "returned" \notin StepPlaces
      /\ "returned" \in JobPlaces \ {"unborn"} /\ {"idle", "returned"} \subseteq LoopPlaces
  BY DEF StepPlaces, LoopPlaces, JobPlaces
<1>3. a # Main => seed[a] # Nil
  BY <1>1, <1>2 DEF SteadyAt
<1>4. Back(a) = IF a = Main THEN "idle" ELSE "returned"
  BY DEF Back
<1>5. Move(a, Back(a), records)
  BY DEF Move, Leave
<1>6. Back(a) \in LoopPlaces /\ Back(a) \notin StepPlaces
  BY <1>2, <1>4
<1>7. /\ a = Main => Back(a) \in {"idle"} \cup StepPlaces
      /\ a # Main => seed[a] # Nil /\ Back(a) \in (JobPlaces \ {"unborn"}) \cup StepPlaces
  BY <1>2, <1>3, <1>4
<1>8. QED
  BY <1>5, <1>6, <1>7, MoveRemarks

(* A job remarks on itself in the place its seed names.                    *)
LEMMA JobRemarks ==
  ASSUME TypeOK, Steady, NEW j \in 1..Jobs, NEW place \in {"started", "done", "aborted"},
         NEW records \in Remarked(j), at[j] # "unborn", Quiet(j), Move(j, place, records)
  PROVE  Remarks(j)
<1>1. j \in Actors /\ j # Main
  BY ActorFacts
<1>2. seed[j] # Nil
  BY <1>1 DEF Steady, SteadyAt
<1>3. place \in LoopPlaces /\ place \in JobPlaces \ {"unborn"} /\ place \notin StepPlaces
  BY DEF LoopPlaces, JobPlaces, StepPlaces
<1>4. QED
  BY <1>1, <1>2, <1>3, MoveRemarks

(* What a job publishes in the place of its parent are remarks.            *)
LEMMA SeedRemarks ==
  ASSUME TypeOK, Steady, NEW j \in 1..Jobs, at[j] # "unborn"
  PROVE  /\ <<Event(seed[j].place, "subagent_state_changed", SubagentSpan(j))>> \in Remarked(j)
         /\ Notice(j) \in Remarked(j) /\ <<>> \in Remarked(j)
         /\ <<End(seed[j].place, "subagent_finished", SubagentSpan(j), seed[j].parent)>>
              \in Remarked(j)
<1>1. LoopTypes /\ j \in Actors /\ j # Main /\ seed[j] # Nil
  BY ActorFacts DEF Steady, SteadyAt, TypeOK
<1>2. seed[j] \in Seeds
  BY <1>1 DEF LoopTypes
<1>3. /\ seed[j].place \in Places /\ seed[j].parent \in Spans /\ SubagentSpan(j) \in Spans
  BY <1>1, <1>2, SpanTypes DEF Seeds
<1>4. ASSUME NEW x \in Records, x.kind # "start", x.name \notin RunNames,
             x.run = seed[j].place.run, x.turn = seed[j].place.turn, x.iter = seed[j].place.iter
      PROVE  <<x>> \in Remarked(j)
  <2>1. Remark(j, x)
    BY <1>1, <1>4 DEF Remark, Own
  <2>2. QED
    BY <2>1, ElemsOf DEF Remarked
<1>5. ASSUME NEW name \in RecordNames \ RunNames, NEW parent \in Spans, NEW span \in Spans
      PROVE  /\ <<Event(seed[j].place, name, parent)>> \in Remarked(j)
             /\ <<End(seed[j].place, name, span, parent)>> \in Remarked(j)
  <2>1. /\ Event(seed[j].place, name, parent) \in Records
        /\ End(seed[j].place, name, span, parent) \in Records
    BY <1>3, RecordTypes
  <2>2. QED
    BY <1>4, <2>1 DEF Event, End, Record
<1>6. {"subagent_state_changed", "subagent_notification_enqueued", "subagent_finished"}
        \subseteq RecordNames \ RunNames
  BY DEF RecordNames, SpanNames, RunNames
<1>7. <<>> \in Remarked(j)
  BY ElemsOf DEF Remarked
<1>8. QED
  BY <1>3, <1>5, <1>6, <1>7 DEF Notice

OpensOwn(a) ==
  \/ /\ Opens(a, SpanOf(a, "iteration_started", turn[a], iter[a] + 1, 0),
              TurnSpan(a, turn[a]), iter[a] + 1)
     /\ at[a] = "guard" /\ at'[a] = "llm"
  \/ /\ Opens(a, SpanOf(a, "llm_request_started", turn[a], iter[a], attempt[a] + 1),
              IterSpan(a), iter[a])
     /\ at[a] = "llm" /\ at'[a] = "stream"
  \/ /\ Opens(a, ToolSpan(a), IterSpan(a), iter[a])
     /\ at[a] = "calls" /\ at'[a] = "tool"

Acts(a) == Remarks(a) \/ Settles(a) \/ OpensOwn(a)

(* The steps at the guard are such steps ...                               *)
LEMMA GuardedActs ==
  ASSUME TypeOK, Steady, NEW a \in Actors, Guarded(a)
  PROVE  Acts(a)
<1> USE DEF Acts
<1>1. CASE Iterate(a)
  BY <1>1, IterateOpens DEF OpensOwn
<1>2. CASE Stopped(a) \/ Depleted(a)
  <2>1. at[a] \in StepPlaces /\ Quiet(a) /\ active[a] # Nil /\ LoopTypes
    BY <1>2 DEF Stopped, Depleted, Ready, StepPlaces, Steady, SteadyAt, TypeOK
  <2>2. <<>> \in Remarked(a)
    BY <2>1, RemarksOf
  <2>3. active[a].turnSpan \in Spans
    BY <2>1, Standing
  <2>4. "energy_depleted" \in RecordNames \ RunNames
    BY DEF RecordNames, RunNames
  <2>5. <<Event(Whole(Place(a)), "energy_depleted", active[a].turnSpan)>> \in Remarked(a)
    BY <2>1, <2>3, <2>4, RemarksOf
  <2>6. {"run_cancelled", "run_failed"} \subseteq OutcomeNames
    BY DEF OutcomeNames
  <2>7. QED
    BY <1>2, <2>1, <2>2, <2>5, <2>6, SettleSettles DEF Stopped, Depleted
<1>3. QED
  BY <1>1, <1>2 DEF Guarded

(* ... and those of a request,                                             *)
LEMMA AskedActs ==
  ASSUME TypeOK, Steady, NEW a \in Actors, Asked(a)
  PROVE  Acts(a)
<1> USE DEF Acts
<1>1. CASE Request(a)
  BY <1>1, RequestOpens DEF OpensOwn
<1>2. CASE ~Request(a)
  <2>1. at[a] = "stream" /\ at[a] \in StepPlaces \ {"guard"} /\ Quiet(a) /\ LoopTypes
    BY <1>2 DEF Asked, Answered, AnsweredWithCall, StreamCancelled, StreamRetried, StreamFailed,
                Ready, StepPlaces, TypeOK
  <2>2. /\ EndLlm(a) \in Remarked(a) /\ EndLlm(a) \o EndIteration(a) \in Remarked(a)
        /\ EndLlm(a) \o <<Event(Place(a), "llm_retry_scheduled", IterSpan(a))>> \in Remarked(a)
        /\ EndLlm(a) \o <<Event(Place(a), "llm_error", IterSpan(a))>> \in Remarked(a)
    BY <2>1, CommonRemarks, RemarksJoin
  <2>3. {"reply", "calls", "llm"} \subseteq StepPlaces
    BY DEF StepPlaces
  <2>4. CASE Answered(a)
    BY <2>1, <2>2, <2>3, <2>4, StepRemarks DEF Answered
  <2>5. CASE AnsweredWithCall(a)
    BY <2>1, <2>2, <2>3, <2>5, StepRemarks DEF AnsweredWithCall
  <2>6. CASE StreamRetried(a)
    BY <2>1, <2>2, <2>3, <2>6, StepRemarks DEF StreamRetried
  <2>7. CASE StreamCancelled(a)
    BY <2>1, <2>2, <2>7, LeaveRemarks DEF StreamCancelled
  <2>8. CASE StreamFailed(a)
    <3>1. PICK name \in {"llm_error", "llm_retry_scheduled"} :
            Leave(a, EndLlm(a) \o <<Event(Place(a), name, IterSpan(a))>>)
      BY <2>8 DEF StreamFailed
    <3>2. EndLlm(a) \o <<Event(Place(a), name, IterSpan(a))>> \in Remarked(a)
      BY <2>2
    <3>3. QED
      BY <2>1, <3>1, <3>2, LeaveRemarks
  <2>9. QED
    BY <1>2, <2>4, <2>5, <2>6, <2>7, <2>8 DEF Asked
<1>3. QED
  BY <1>1, <1>2

(* of an answer and its calls,                                             *)
LEMMA JudgedActs ==
  ASSUME TypeOK, Steady, NEW a \in Actors, Judged(a)
  PROVE  Acts(a)
<1> USE DEF Acts
<1>1. CASE StartTool(a)
  BY <1>1, StartToolOpens DEF OpensOwn
<1>2. CASE ~StartTool(a)
  <2>1. at[a] \in {"reply", "calls", "tool"} /\ Quiet(a) /\ LoopTypes
    BY <1>2 DEF Judged, EmptyAnswer, EmptyAgain, YieldAnswer, FinalAnswer, AnswerDenied, EndTool,
                Ready, TypeOK
  <2>2. at[a] \in StepPlaces \ {"guard"}
    BY <2>1 DEF StepPlaces
  <2>3. /\ EndIteration(a) \in Remarked(a) /\ <<>> \in Remarked(a)
        /\ <<Event(Whole(Place(a)), "yielded_to_user", active[a].turnSpan)>> \o EndIteration(a)
             \in Remarked(a)
        /\ <<End(Place(a), "tool_finished", ToolSpan(a), IterSpan(a))>> \in Remarked(a)
    BY <2>1, <2>2, CommonRemarks, RemarksOf, RemarksJoin
  <2>4. /\ {"guard", "round"} \subseteq StepPlaces
        /\ {"run_failed", "run_finished"} \subseteq OutcomeNames
    BY DEF StepPlaces, OutcomeNames
  <2>5. CASE EmptyAnswer(a)
    BY <2>1, <2>2, <2>3, <2>4, <2>5, StepRemarks DEF EmptyAnswer
  <2>6. CASE AnswerDenied(a)
    BY <2>1, <2>2, <2>3, <2>4, <2>6, StepRemarks DEF AnswerDenied
  <2>7. CASE EndTool(a)
    BY <2>1, <2>2, <2>3, <2>4, <2>7, StepRemarks DEF EndTool
  <2>8. CASE YieldAnswer(a)
    BY <2>1, <2>2, <2>3, <2>8, LeaveRemarks DEF YieldAnswer
  <2>9. CASE EmptyAgain(a)
    BY <2>1, <2>2, <2>3, <2>4, <2>9, SettleSettles DEF EmptyAgain
  <2>10. CASE FinalAnswer(a)
    BY <2>1, <2>2, <2>3, <2>4, <2>10, SettleSettles DEF FinalAnswer
  <2>11. QED
    BY <1>2, <2>5, <2>6, <2>7, <2>8, <2>9, <2>10 DEF Judged
<1>3. QED
  BY <1>1, <1>2

(* of the end of a round,                                                  *)
LEMMA ConcludedActs ==
  ASSUME TypeOK, Steady, NEW a \in Actors, Concluded(a)
  PROVE  Acts(a)
<1> USE DEF Acts
<1>1. at[a] = "round" /\ at[a] \in StepPlaces \ {"guard"} /\ Quiet(a) /\ LoopTypes
  BY DEF Concluded, RoundFinishes, RoundStalls, RoundAsksUser, RoundGoesOn, Ready, StepPlaces, TypeOK
<1>2. /\ EndIteration(a) \in Remarked(a) /\ <<>> \in Remarked(a)
      /\ Yielded(a) \o EndIteration(a) \in Remarked(a)
  BY <1>1, CommonRemarks, RemarksOf, RemarksJoin
<1>3. "guard" \in StepPlaces /\ "run_finished" \in OutcomeNames
  BY DEF StepPlaces, OutcomeNames
<1>4. CASE RoundFinishes(a)
  BY <1>1, <1>2, <1>3, <1>4, SettleSettles DEF RoundFinishes
<1>5. CASE RoundStalls(a)
  BY <1>1, <1>2, <1>5, LeaveRemarks DEF RoundStalls
<1>6. CASE RoundAsksUser(a)
  BY <1>1, <1>2, <1>6, LeaveRemarks DEF RoundAsksUser
<1>7. CASE RoundGoesOn(a)
  BY <1>1, <1>2, <1>3, <1>7, StepRemarks DEF RoundGoesOn
<1>8. QED
  BY <1>4, <1>5, <1>6, <1>7 DEF Concluded

(* and of a job.                                                           *)
LEMMA JobActs ==
  ASSUME TypeOK, Steady, NEW j \in 1..Jobs, RunJob(j) \/ FinishJob(j) \/ CancelJob(j)
  PROVE  Remarks(j)
<1>1. at[j] # "unborn" /\ Quiet(j)
  BY DEF RunJob, FinishJob, CancelJob, Ready
<1>2. /\ <<Event(seed[j].place, "subagent_state_changed", SubagentSpan(j))>> \in Remarked(j)
      /\ Notice(j) \in Remarked(j) /\ <<>> \in Remarked(j)
      /\ <<End(seed[j].place, "subagent_finished", SubagentSpan(j), seed[j].parent)>>
           \in Remarked(j)
  BY <1>1, SeedRemarks
<1>3. CASE RunJob(j)
  BY <1>1, <1>2, <1>3, JobRemarks DEF RunJob
<1>4. CASE FinishJob(j)
  <2>1. PICK notice \in {<<>>, Notice(j)} :
          Move(j, "done",
               <<End(seed[j].place, "subagent_finished", SubagentSpan(j), seed[j].parent)>> \o notice)
    BY <1>4 DEF FinishJob
  <2>2. QED
    BY <1>1, <1>2, <2>1, JobRemarks, RemarksJoin
<1>5. CASE CancelJob(j)
  BY <1>1, <1>2, <1>5, JobRemarks DEF CancelJob
<1>6. QED
  BY <1>3, <1>4, <1>5

(* The bus, a loop or a job moves.                                         *)
LEMMA StepActs ==
  ASSUME TypeOK, Steady, Next
  PROVE  \/ \E a \in Actors : \/ Persist(a) \/ Count(a) \/ Acts(a)
                              \/ Begins(a, turn[a] + 1)
         \/ \E j \in 1..Jobs : Spawns(j)
<1>1. CASE \E a \in Actors : Persist(a) \/ Count(a)
  BY <1>1
<1>2. CASE \E a \in Actors : Begin(a) \/ Guarded(a) \/ Asked(a) \/ Judged(a) \/ Concluded(a)
  BY <1>2, BeginBegins, GuardedActs, AskedActs, JudgedActs, ConcludedActs
<1>3. CASE \E j \in 1..Jobs : Spawn(j) \/ RunJob(j) \/ FinishJob(j) \/ CancelJob(j)
  BY <1>3, SpawnSpawns, JobActs, ActorFacts DEF Acts
<1>4. QED
  BY <1>1, <1>2, <1>3 DEF Next

-----------------------------------------------------------------------------
(* Types and places hold in every state.                                   *)

(* A step that leaves the bus alone keeps its types.                       *)
LEMMA SilentTypes ==
  ASSUME TypeOK, NEW a \in Actors, Silent(a)
  PROVE  BusTypes'
<1>1. queue' \in [Actors -> Seq(Records)]
  BY DEF TypeOK, BusTypes, Silent
<1>2. QED
  BY <1>1 DEF TypeOK, BusTypes, Silent, busVars

(* A step of a loop keeps the types and what is steady.                    *)
LEMMA ActsTypes ==
  ASSUME TypeOK, Steady, NEW a \in Actors, Acts(a) \/ Begins(a, turn[a] + 1)
  PROVE  TypeOK' /\ Steady'
<1>1. LoopTypes
  BY DEF TypeOK
<1>2. /\ at[a] \in LoopPlaces /\ turn[a] \in Nat /\ iter[a] \in Nat /\ attempt[a] \in Nat
      /\ iter[a] <= Iters[a] /\ attempt[a] <= Attempts[a]
      /\ seed[a] \in Seeds \cup {Nil} /\ active[a] \in ActiveTraces \cup {Nil}
      /\ a = Main => turn[a] <= Turns
      /\ Iters[a] \in Nat /\ Attempts[a] \in Nat
  BY <1>1, ActorFacts DEF LoopTypes
<1>3. CASE Remarks(a)
  <2>1. Silent(a) /\ OnlyLoop(a) /\ SteadyAt(a)' /\ at'[a] \in LoopPlaces
        /\ UNCHANGED <<turn, iter, attempt, seed, active>>
    BY <1>3 DEF Remarks
  <2>2. LoopTypes' /\ Steady'
    BY <1>1, <1>2, <2>1, LoopTypesOf
  <2>3. QED
    BY <2>1, <2>2, SilentTypes DEF TypeOK
<1>4. CASE Settles(a)
  <2>1. Silent(a) /\ OnlyLoop(a) /\ SteadyAt(a)' /\ at'[a] = Back(a) /\ active'[a] = Nil
        /\ UNCHANGED <<turn, iter, attempt, seed>>
    BY <1>4 DEF Settles
  <2>2. Back(a) \in LoopPlaces
    BY DEF Back, LoopPlaces, JobPlaces
  <2>3. LoopTypes' /\ Steady'
    BY <1>1, <1>2, <2>1, <2>2, LoopTypesOf
  <2>4. QED
    BY <2>1, <2>3, SilentTypes DEF TypeOK
<1>5. CASE OpensOwn(a)
  <2>1. PICK span, parent, i : Opens(a, span, parent, i)
    BY <1>5 DEF OpensOwn
  <2>2. SteadyAt(a)'
    BY <2>1, OpensSteady
  <2>3. /\ Silent(a) /\ OnlyLoop(a) /\ at'[a] \in StepPlaces /\ UNCHANGED <<turn, seed, active>>
        /\ iter'[a] = i /\ i <= Iters[a] /\ i \in Nat
        /\ attempt'[a] \in Nat /\ attempt'[a] <= Attempts[a]
    BY <2>1 DEF Opens
  <2>4. StepPlaces \subseteq LoopPlaces
    BY DEF LoopPlaces
  <2>5. LoopTypes' /\ Steady'
    BY <1>1, <1>2, <2>2, <2>3, <2>4, LoopTypesOf
  <2>6. QED
    BY <2>3, <2>5, SilentTypes DEF TypeOK
<1>6. CASE Begins(a, turn[a] + 1)
  <2>1. /\ Silent(a) /\ OnlyLoop(a) /\ SteadyAt(a)' /\ UNCHANGED seed
        /\ at'[a] = "guard" /\ turn'[a] = turn[a] + 1 /\ iter'[a] = 0 /\ attempt'[a] = 0
        /\ a = Main => turn[a] + 1 <= Turns
        /\ active'[a] \in ActiveTraces
    BY <1>6 DEF Begins
  <2>2. "guard" \in LoopPlaces
    BY DEF LoopPlaces, StepPlaces
  <2>3. LoopTypes' /\ Steady'
    BY <1>1, <1>2, <2>1, <2>2, LoopTypesOf
  <2>4. QED
    BY <2>1, <2>3, SilentTypes DEF TypeOK
<1>7. QED
  BY <1>3, <1>4, <1>5, <1>6 DEF Acts

(* So does a spawn.                                                        *)
LEMMA SpawnsTypes ==
  ASSUME TypeOK, Steady, NEW j \in 1..Jobs, Spawns(j)
  PROVE  TypeOK' /\ Steady'
<1>1. LoopTypes /\ j \in Actors /\ j # Main /\ Main \in Actors
  BY ActorFacts DEF TypeOK
<1>2. /\ OnlyLoop(j) /\ at'[j] = "spawned" /\ seed'[j] \in Seeds /\ SteadyAt(j)'
      /\ UNCHANGED <<turn, iter, attempt, active, publishing, made, busVars>>
  BY DEF Spawns
<1>3. "spawned" \in LoopPlaces
  BY DEF LoopPlaces, JobPlaces
<1>4. /\ turn[j] \in Nat /\ iter[j] \in Nat /\ attempt[j] \in Nat
      /\ iter[j] <= Iters[j] /\ attempt[j] <= Attempts[j]
      /\ active[j] \in ActiveTraces \cup {Nil}
  BY <1>1 DEF LoopTypes
<1>5. LoopTypes' /\ Steady'
  BY <1>1, <1>2, <1>3, <1>4, LoopTypesOf
<1>6. queue' \in [Actors -> Seq(Records)]
  BY <1>1 DEF Spawns, TypeOK, BusTypes
<1>7. BusTypes'
  BY <1>2, <1>6 DEF TypeOK, BusTypes, busVars
<1>8. QED
  BY <1>5, <1>7 DEF TypeOK

(* A counted summary is a summary.                                         *)
LEMMA UpdatedTypes ==
  ASSUME NEW s \in Summaries, NEW x \in Records
  PROVE  Updated(s, x) \in Summaries
<1>1. \A name : Counts(x, name) \in Nat
  BY DEF Counts
<1>2. x.task \in TurnIds
  BY DEF Records
<1>3. (CASE x.name = "run_started" -> "running"
         [] x.name \in {"run_finished", "run_failed", "run_cancelled"} -> Outcome(x.name)
         [] OTHER -> s.status) \in Settled \cup {"running"}
  BY DEF Outcome, Settled, Summaries
<1>4. QED
  BY <1>1, <1>2, <1>3 DEF Updated, Summaries

(* So is the one that is counted in.                                       *)
LEMMA SummaryTypes ==
  ASSUME TypeOK, NEW r \in Runs
  PROVE  SummaryOf(r) \in Summaries
<1>1. cache[r] \in Summaries \cup {Nil} /\ disk[r] \in Summaries \cup {Nil}
  BY DEF TypeOK, BusTypes
<1>2. NewSummary \in Summaries
  BY DEF NewSummary, Summaries
<1>3. QED
  BY <1>1, <1>2 DEF SummaryOf

(* The bus stores a record ...                                             *)
Stores(a, ok) ==
  /\ stored' = stored \cup {Insert(Line(a), ok)} /\ UNCHANGED lost

Loses(a) ==
  /\ failed' = failed + 1 /\ UNCHANGED stored
  /\ lost' = [lost EXCEPT ![Head(queue[a]).run] = @ + 1]

(* Storing a record keeps the types.                                       *)
LEMMA PersistTypes ==
  ASSUME TypeOK, Steady, NEW a \in Actors, Persist(a)
  PROVE  /\ TypeOK' /\ Steady'
         /\ Head(queue[a]) \in Records /\ Tail(queue[a]) \in Seq(Records) /\ queue[a] # <<>>
         /\ publishing[a] = Nil /\ publishing' = [publishing EXCEPT ![a] = Head(queue[a])]
         /\ queue' = [queue EXCEPT ![a] = Tail(queue[a])]
         /\ made' = [made EXCEPT ![a] = made[a] + 1]
         /\ Insert(Line(a), TRUE) \in [line : [id : Actors \X Nat, record : Records],
                                       indexed : BOOLEAN]
         /\ \/ Stores(a, TRUE) /\ failed' = failed
            \/ Stores(a, FALSE) /\ failed' = failed + 1
            \/ Loses(a)
         /\ UNCHANGED <<loopVars, cache, disk, row>>
<1>1. /\ publishing[a] = Nil /\ queue[a] # <<>> /\ queue[a] \in Seq(Records)
      /\ made[a] \in Nat
  BY DEF Persist, TypeOK, BusTypes
<1>2. Head(queue[a]) \in Records /\ Tail(queue[a]) \in Seq(Records)
  BY <1>1, ElemsOf
<1>3. /\ publishing' = [publishing EXCEPT ![a] = Head(queue[a])]
      /\ queue' = [queue EXCEPT ![a] = Tail(queue[a])]
      /\ made' = [made EXCEPT ![a] = made[a] + 1]
      /\ UNCHANGED <<loopVars, cache, disk, row>>
  BY DEF Persist
<1>4. \/ Stores(a, TRUE) /\ failed' = failed
      \/ Stores(a, FALSE) /\ failed' = failed + 1 /\ failed < Failures
      \/ Loses(a) /\ failed < Failures
  BY DEF Persist, Stores, Loses, MayFail
<1>5. \A ok \in BOOLEAN : Insert(Line(a), ok) \in [line : [id : Actors \X Nat, record : Records],
                                                   indexed : BOOLEAN]
  BY <1>1, <1>2 DEF Insert, Line
<1>6. Head(queue[a]).run \in Runs
  BY <1>2 DEF Records
<1>7. /\ queue' \in [Actors -> Seq(Records)] /\ publishing' \in [Actors -> Records \cup {Nil}]
      /\ made' \in [Actors -> Nat]
  BY <1>1, <1>2, <1>3 DEF TypeOK, BusTypes
<1>8. stored' \subseteq [line : [id : Actors \X Nat, record : Records], indexed : BOOLEAN]
  <2>1. stored \subseteq [line : [id : Actors \X Nat, record : Records], indexed : BOOLEAN]
    BY DEF TypeOK, BusTypes
  <2>2. stored' = stored \/ \E ok \in BOOLEAN : stored' = stored \cup {Insert(Line(a), ok)}
    BY <1>4 DEF Stores, Loses
  <2>3. QED
    BY <1>5, <2>1, <2>2
<1>9. failed' \in 0..Failures /\ lost' \in [Runs -> Nat]
  <2>1. failed \in 0..Failures /\ lost \in [Runs -> Nat] /\ Failures \in Nat
    BY TraceAssumption DEF TypeOK, BusTypes
  <2>2. lost' \in [Runs -> Nat]
    <3>1. \/ lost' = lost
          \/ lost' = [lost EXCEPT ![Head(queue[a]).run] = lost[Head(queue[a]).run] + 1]
      BY <1>4 DEF Stores, Loses
    <3>2. lost[Head(queue[a]).run] + 1 \in Nat
      BY <1>6, <2>1
    <3>3. QED
      BY <2>1, <3>1, <3>2
  <2>3. failed' = failed \/ (failed' = failed + 1 /\ failed < Failures)
    BY <1>4 DEF Loses
  <2>4. QED
    BY <2>1, <2>2, <2>3
<1>10. BusTypes'
  BY <1>3, <1>7, <1>8, <1>9 DEF TypeOK, BusTypes
<1>11. LoopTypes' /\ Steady'
  <2>1. UNCHANGED <<at, turn, iter, attempt, seed, active>>
    BY <1>3 DEF loopVars
  <2>2. LoopTypes'
    BY <2>1 DEF TypeOK, LoopTypes
  <2>3. ASSUME NEW b \in Actors PROVE SteadyAt(b)'
    <3>1. SteadyAt(b)
      BY DEF Steady
    <3>2. TraceOf(b)' = TraceOf(b)
      BY <2>1 DEF TraceOf, RunOf, SubagentSpan
    <3>3. QED
      BY <2>1, <3>1, <3>2 DEF SteadyAt, SeedFits
  <2>4. QED
    BY <2>2, <2>3 DEF Steady
<1>12. QED
  BY <1>1, <1>2, <1>3, <1>4, <1>5, <1>10, <1>11 DEF TypeOK

(* ... and counts it.                                                      *)
LEMMA CountTypes ==
  ASSUME TypeOK, Steady, NEW a \in Actors, Count(a)
  PROVE  /\ TypeOK' /\ Steady'
         /\ publishing[a] \in Records /\ publishing[a].run \in Runs
         /\ SummaryOf(publishing[a].run) \in Summaries
         /\ cache' = [cache EXCEPT ![publishing[a].run] =
                        Updated(SummaryOf(publishing[a].run), publishing[a])]
         /\ publishing' = [publishing EXCEPT ![a] = Nil]
         /\ \A r \in Runs : r # publishing[a].run => disk'[r] = disk[r]
         /\ UNCHANGED <<loopVars, queue, made, stored, lost>>
         /\ failed' = failed \/ failed' = failed + 1
<1> DEFINE run == publishing[a].run
           new == Updated(SummaryOf(run), publishing[a])
<1>1. publishing[a] \in Records /\ run \in Runs
  <2>1. publishing[a] \in Records
    BY DEF Count, TypeOK, BusTypes
  <2>2. QED
    BY <2>1 DEF Records
<1>2. SummaryOf(run) \in Summaries /\ new \in Summaries
  BY <1>1, SummaryTypes, UpdatedTypes
<1>3. /\ cache' = [cache EXCEPT ![run] = new]
      /\ publishing' = [publishing EXCEPT ![a] = Nil]
      /\ UNCHANGED <<loopVars, queue, made, stored, lost>>
  BY DEF Count
<1>4. \/ WriteFile(run, new, TRUE) /\ WriteRow(run, new, TRUE) /\ failed' = failed
      \/ /\ failed < Failures /\ failed' = failed + 1
         /\ \E file \in BOOLEAN : WriteFile(run, new, file) /\ WriteRow(run, new, ~file)
  BY DEF Count, MayFail
<1> HIDE DEF new
<1>5. /\ disk' = disk \/ disk' = [disk EXCEPT ![run] = new]
      /\ row' = row \/ row' = [row EXCEPT ![run] = new]
  BY <1>4 DEF WriteFile, WriteRow
<1>6. cache \in [Runs -> Summaries \cup {Nil}] /\ disk \in [Runs -> Summaries \cup {Nil}]
      /\ row \in [Runs -> Summaries \cup {Nil}]
  BY DEF TypeOK, BusTypes
<1>7. /\ cache' \in [Runs -> Summaries \cup {Nil}] /\ disk' \in [Runs -> Summaries \cup {Nil}]
      /\ row' \in [Runs -> Summaries \cup {Nil}]
  BY <1>1, <1>2, <1>3, <1>5, <1>6
<1>8. publishing' \in [Actors -> Records \cup {Nil}]
  BY <1>3 DEF TypeOK, BusTypes
<1>9. failed' \in 0..Failures
  <2>1. failed \in 0..Failures /\ Failures \in Nat
    BY TraceAssumption DEF TypeOK, BusTypes
  <2>2. failed' = failed \/ (failed' = failed + 1 /\ failed < Failures)
    BY <1>4
  <2>3. QED
    BY <2>1, <2>2
<1>10. BusTypes'
  BY <1>3, <1>7, <1>8, <1>9 DEF TypeOK, BusTypes
<1>11. LoopTypes' /\ Steady'
  <2>1. UNCHANGED <<at, turn, iter, attempt, seed, active>>
    BY <1>3 DEF loopVars
  <2>2. LoopTypes'
    BY <2>1 DEF TypeOK, LoopTypes
  <2>3. ASSUME NEW b \in Actors PROVE SteadyAt(b)'
    <3>1. SteadyAt(b)
      BY DEF Steady
    <3>2. TraceOf(b)' = TraceOf(b)
      BY <2>1 DEF TraceOf, RunOf, SubagentSpan
    <3>3. QED
      BY <2>1, <3>1, <3>2 DEF SteadyAt, SeedFits
  <2>4. QED
    BY <2>2, <2>3 DEF Steady
<1>12. \A r \in Runs : r # run => disk'[r] = disk[r]
  BY <1>1, <1>5, <1>6
<1>13. failed' = failed \/ failed' = failed + 1
  BY <1>4
<1>14. QED
  BY <1>1, <1>2, <1>3, <1>10, <1>11, <1>12, <1>13 DEF TypeOK, new

(* The types and what is steady hold at first ...                          *)
LEMMA InitSteady ==
  ASSUME Init
  PROVE  TypeOK /\ Steady
<1> USE DEF Init, LoopInit, BusInit
<1>1. LoopTypes
  BY ActorFacts, TraceAssumption DEF LoopTypes, LoopPlaces, JobPlaces
<1>2. BusTypes
  <2>1. <<>> \in Seq(Records)
    BY ElemsOf
  <2>2. QED
    BY <2>1, TraceAssumption DEF BusTypes
<1>3. Steady
  BY DEF Steady, SteadyAt, JobPlaces, StepPlaces
<1>4. QED
  BY <1>1, <1>2, <1>3 DEF TypeOK

(* ... and every step keeps them.                                          *)
LEMMA StepSteady ==
  ASSUME TypeOK, Steady, [Next]_vars
  PROVE  TypeOK' /\ Steady'
<1>1. CASE Next
  <2>1. CASE \E a \in Actors : Persist(a) \/ Count(a)
    BY <2>1, PersistTypes, CountTypes
  <2>2. CASE \E a \in Actors : Acts(a) \/ Begins(a, turn[a] + 1)
    BY <2>2, ActsTypes
  <2>3. CASE \E j \in 1..Jobs : Spawns(j)
    BY <2>3, SpawnsTypes
  <2>4. QED
    BY <1>1, <2>1, <2>2, <2>3, StepActs
<1>2. CASE UNCHANGED vars
  BY <1>2 DEF vars, loopVars, busVars, TypeOK, LoopTypes, BusTypes, Steady, SteadyAt, SeedFits,
              TraceOf, RunOf, SubagentSpan, RunSpan, TurnSpan, SpanOf
<1>3. QED
  BY <1>1, <1>2

(* In every state the loops are where a loop can be and know no run but    *)
(* their own: ActiveTrace is what begin_trace_run made it.                 *)
THEOREM SteadyCorrect == Spec => [](TypeOK /\ Steady)
<1>1. Init => TypeOK /\ Steady
  BY InitSteady
<1>2. TypeOK /\ Steady /\ [Next]_vars => (TypeOK /\ Steady)'
  BY StepSteady
<1>3. QED
  BY <1>1, <1>2, PTL DEF Spec

-----------------------------------------------------------------------------
(* CountsAgree.  Two records never have the same id, so what is stored     *)
(* grows with every record; and a summary file is only ever written from   *)
(* the cache, so none is read for a run that is in memory.                 *)

Fresh == \A s \in stored : s.line.id[2] < made[s.line.id[1]]
DiskCached == \A r \in Runs : disk[r] # Nil => cache[r] # Nil

CountInv == Fresh /\ DiskCached /\ IsFiniteSet(stored) /\ CountsAgree

Publishers(r) == {a \in Actors : publishing[a] # Nil /\ publishing[a].run = r}
Events(r) == IF cache[r] = Nil THEN 0 ELSE cache[r].events

(* Loops and jobs leave to the bus what is the bus's.                      *)
LEMMA BusLeftAlone ==
  ASSUME NEW a, \/ Acts(a) \/ Begins(a, turn[a] + 1)
                \/ Spawns(a)
  PROVE  UNCHANGED <<publishing, made, stored, cache, disk, row, failed, lost>>
<1>1. UNCHANGED <<publishing, made, busVars>>
  BY DEF Acts, Remarks, Settles, OpensOwn, Opens, Begins, Spawns, Silent
<1>2. QED
  BY <1>1 DEF busVars

(* There are finitely many loops between the two writes.                   *)
LEMMA FinitePublishers ==
  ASSUME NEW r \in Runs
  PROVE  IsFiniteSet(Publishers(r))
<1>1. IsFiniteSet(Actors)
  BY FS_Interval, TraceAssumption DEF Actors
<1>2. QED
  BY <1>1, FS_Subset DEF Publishers

(* A stored record is one to be counted.                                   *)
LEMMA PersistCounts ==
  ASSUME TypeOK, Steady, CountInv, NEW a \in Actors, Persist(a)
  PROVE  CountInv'
<1> DEFINE x == Head(queue[a])
<1>1. /\ TypeOK' /\ x \in Records /\ publishing[a] = Nil
      /\ publishing' = [publishing EXCEPT ![a] = x]
      /\ made' = [made EXCEPT ![a] = made[a] + 1]
      /\ \/ Stores(a, TRUE) /\ failed' = failed
         \/ Stores(a, FALSE) /\ failed' = failed + 1
         \/ Loses(a)
      /\ UNCHANGED <<loopVars, cache, disk, row>>
  BY PersistTypes
<1>2. /\ publishing \in [Actors -> Records \cup {Nil}] /\ made \in [Actors -> Nat]
      /\ stored \subseteq [line : [id : Actors \X Nat, record : Records], indexed : BOOLEAN]
      /\ lost \in [Runs -> Nat] /\ cache \in [Runs -> Summaries \cup {Nil}]
  BY DEF TypeOK, BusTypes
<1>3. x.run \in Runs /\ x # Nil
  BY <1>1, TraceAssumption DEF Records
<1>4. \A ok : /\ Insert(Line(a), ok) \notin stored
              /\ Insert(Line(a), ok).line.id[1] = a /\ Insert(Line(a), ok).line.id[2] = made[a]
              /\ Insert(Line(a), ok).line.record = x
  BY <1>2 DEF CountInv, Fresh, Insert, Line
<1>5. Fresh'
  <2>1. SUFFICES ASSUME NEW s \in stored'
                 PROVE  s.line.id[2] < made'[s.line.id[1]]
    BY DEF Fresh
  <2>2. CASE s \in stored
    <3>1. s.line.id[1] \in Actors /\ s.line.id[2] \in Nat
      BY <1>2, <2>2
    <3>2. s.line.id[2] < made[s.line.id[1]]
      BY <2>2 DEF CountInv, Fresh
    <3>3. QED
      BY <1>1, <1>2, <3>1, <3>2
  <2>3. CASE s \notin stored
    <3>1. PICK ok : s = Insert(Line(a), ok)
      BY <1>1, <2>1, <2>3 DEF Stores, Loses
    <3>2. QED
      BY <1>1, <1>2, <1>4, <3>1
  <2>4. QED
    BY <2>2, <2>3
<1>6. DiskCached'
  BY <1>1 DEF CountInv, DiskCached
<1>7. IsFiniteSet(stored')
  BY <1>1, FS_AddElement DEF CountInv, Stores, Loses
<1>8. ASSUME NEW r \in Runs
      PROVE  Events(r)' + Cardinality(Publishers(r)') = Cardinality(Filed(r)') + lost'[r]
  <2>1. /\ Events(r) + Cardinality(Publishers(r)) = Cardinality(Filed(r)) + lost[r]
        /\ Events(r)' = Events(r) /\ Events(r) \in Nat
    <3>1. Events(r) + Cardinality(Publishers(r)) = Cardinality(Filed(r)) + lost[r]
      BY DEF CountInv, CountsAgree, Events, Publishers
    <3>2. cache' = cache
      BY <1>1
    <3>3. QED
      BY <1>2, <3>1, <3>2 DEF Events, Summaries
  <2>2. /\ IsFiniteSet(Publishers(r)) /\ Cardinality(Publishers(r)) \in Nat
        /\ IsFiniteSet(Filed(r)) /\ Cardinality(Filed(r)) \in Nat /\ lost[r] \in Nat
    <3>1. IsFiniteSet(Publishers(r))
      BY FinitePublishers
    <3>2. IsFiniteSet(Filed(r))
      BY FS_Subset DEF CountInv, Filed
    <3>3. QED
      BY <1>2, <3>1, <3>2, FS_CardinalityType
  <2>3. CASE r # x.run
    <3>1. Publishers(r)' = Publishers(r)
      BY <1>1, <1>2, <2>3 DEF Publishers
    <3>2. Filed(r)' = Filed(r) /\ lost'[r] = lost[r]
      <4>1. CASE Loses(a)
        BY <1>2, <1>3, <2>3, <4>1 DEF Filed, Loses
      <4>2. CASE \E ok : Stores(a, ok)
        <5>1. PICK ok : Stores(a, ok)
          BY <4>2
        <5>2. Insert(Line(a), ok).line.record.run # r
          BY <1>4, <2>3
        <5>3. QED
          BY <5>1, <5>2 DEF Filed, Stores
      <4>3. QED
        BY <1>1, <4>1, <4>2
    <3>3. QED
      BY <2>1, <3>1, <3>2
  <2>4. CASE r = x.run
    <3>1. Publishers(r)' = Publishers(r) \cup {a} /\ a \notin Publishers(r)
      BY <1>1, <1>2, <1>3, <2>4 DEF Publishers
    <3>2. Cardinality(Publishers(r)') = Cardinality(Publishers(r)) + 1
      BY <2>2, <3>1, FS_AddElement
    <3>3. Cardinality(Filed(r)') + lost'[r] = Cardinality(Filed(r)) + lost[r] + 1
      <4>1. CASE Loses(a)
        <5>1. Filed(r)' = Filed(r)
          BY <4>1 DEF Loses, Filed
        <5>2. lost'[r] = lost[r] + 1
          BY <1>2, <2>4, <4>1 DEF Loses
        <5>3. QED
          BY <2>2, <5>1, <5>2
      <4>2. CASE ~Loses(a)
        <5>1. PICK ok : Stores(a, ok)
          BY <1>1, <4>2
        <5>2. Filed(r)' = Filed(r) \cup {Insert(Line(a), ok)}
          BY <1>4, <2>4, <5>1 DEF Filed, Stores
        <5>3. Insert(Line(a), ok) \notin Filed(r)
          BY <1>4 DEF Filed
        <5>4. Cardinality(Filed(r)') = Cardinality(Filed(r)) + 1
          BY <2>2, <5>2, <5>3, FS_AddElement
        <5>5. QED
          BY <2>2, <5>1, <5>4 DEF Stores
      <4>3. QED
        BY <4>1, <4>2
    <3>4. QED
      BY <2>1, <2>2, <3>2, <3>3
  <2>5. QED
    BY <2>3, <2>4
<1>9. CountsAgree'
  BY <1>8 DEF CountsAgree, Events, Publishers
<1>10. QED
  BY <1>5, <1>6, <1>7, <1>9 DEF CountInv

(* A counted record is one less.                                           *)
LEMMA CountCounts ==
  ASSUME TypeOK, Steady, CountInv, NEW a \in Actors, Count(a)
  PROVE  CountInv'
<1> DEFINE x == publishing[a]
           new == Updated(SummaryOf(x.run), x)
<1>1. /\ x \in Records /\ x.run \in Runs /\ x # Nil
      /\ SummaryOf(x.run) \in Summaries
      /\ cache' = [cache EXCEPT ![x.run] = new]
      /\ publishing' = [publishing EXCEPT ![a] = Nil]
      /\ \A r \in Runs : r # x.run => disk'[r] = disk[r]
      /\ UNCHANGED <<loopVars, queue, made, stored, lost>>
  BY CountTypes, TraceAssumption
<1>2. /\ publishing \in [Actors -> Records \cup {Nil}] /\ lost \in [Runs -> Nat]
      /\ cache \in [Runs -> Summaries \cup {Nil}]
  BY DEF TypeOK, BusTypes
<1>3. new \in Summaries /\ new # Nil
  BY <1>1, UpdatedTypes, TraceAssumption
<1>4. SummaryOf(x.run).events = Events(x.run)
  <2>1. cache[x.run] = Nil => disk[x.run] = Nil
    BY <1>1 DEF CountInv, DiskCached
  <2>2. QED
    BY <2>1 DEF SummaryOf, Events, NewSummary
<1>5. new.events = Events(x.run) + 1
  BY <1>4 DEF Updated
<1> HIDE DEF new
<1>6. Fresh' /\ IsFiniteSet(stored')
  BY <1>1 DEF CountInv, Fresh
<1>7. DiskCached'
  BY <1>1, <1>2, <1>3 DEF CountInv, DiskCached
<1>8. ASSUME NEW r \in Runs
      PROVE  Events(r)' + Cardinality(Publishers(r)') = Cardinality(Filed(r)') + lost'[r]
  <2>1. /\ Events(r) + Cardinality(Publishers(r)) = Cardinality(Filed(r)) + lost[r]
        /\ Events(r) \in Nat
    <3>1. Events(r) + Cardinality(Publishers(r)) = Cardinality(Filed(r)) + lost[r]
      BY DEF CountInv, CountsAgree, Events, Publishers
    <3>2. QED
      BY <1>2, <3>1 DEF Events, Summaries
  <2>2. Filed(r)' = Filed(r) /\ lost'[r] = lost[r]
    BY <1>1 DEF Filed
  <2>3. CASE r # x.run
    <3>1. Publishers(r)' = Publishers(r)
      BY <1>1, <1>2, <2>3 DEF Publishers
    <3>2. Events(r)' = Events(r)
      BY <1>1, <1>2, <2>3 DEF Events
    <3>3. QED
      BY <2>1, <2>2, <3>1, <3>2
  <2>4. CASE r = x.run
    <3>1. Publishers(r)' = Publishers(r) \ {a} /\ a \in Publishers(r)
      BY <1>1, <1>2, <2>4 DEF Publishers
    <3>2. /\ Cardinality(Publishers(r)') = Cardinality(Publishers(r)) - 1
          /\ Cardinality(Publishers(r)) \in Nat
      BY <3>1, FinitePublishers, FS_RemoveElement, FS_CardinalityType
    <3>3. Events(r)' = Events(r) + 1
      BY <1>1, <1>2, <1>3, <1>5, <2>4 DEF Events
    <3>4. QED
      BY <2>1, <2>2, <3>2, <3>3
  <2>5. QED
    BY <2>3, <2>4
<1>9. CountsAgree'
  BY <1>8 DEF CountsAgree, Events, Publishers
<1>10. QED
  BY <1>6, <1>7, <1>9 DEF CountInv

(* Record ids are never used twice, a summary on disk is cached, and the   *)
(* counts agree.                                                           *)
THEOREM CountsInvariant == Spec => []CountInv
<1>1. Init => CountInv
  <2> SUFFICES ASSUME Init PROVE CountInv
    OBVIOUS
  <2>1. Fresh /\ DiskCached /\ IsFiniteSet(stored)
    BY FS_EmptySet DEF Init, BusInit, Fresh, DiskCached
  <2>2. ASSUME NEW r \in Runs PROVE Filed(r) = {} /\ Publishers(r) = {}
    BY DEF Init, BusInit, LoopInit, Filed, Publishers
  <2>3. CountsAgree
    <3>1. ASSUME NEW r \in Runs
          PROVE  Events(r) + Cardinality(Publishers(r)) = Cardinality(Filed(r)) + lost[r]
      <4>1. Events(r) = 0 /\ lost[r] = 0
        BY DEF Init, BusInit, Events
      <4>2. QED
        BY <2>2, <4>1, FS_EmptySet
    <3>2. QED
      BY <3>1 DEF CountsAgree, Events, Publishers
  <2>4. QED
    BY <2>1, <2>3 DEF CountInv
<1>2. TypeOK /\ Steady /\ CountInv /\ [Next]_vars => CountInv'
  <2>1. SUFFICES ASSUME TypeOK, Steady, CountInv, [Next]_vars PROVE CountInv'
    OBVIOUS
  <2>2. CASE UNCHANGED <<publishing, made, stored, cache, disk, row, failed, lost>>
    BY <2>1, <2>2 DEF CountInv, Fresh, DiskCached, CountsAgree, Filed
  <2>3. CASE Next
    BY <2>1, <2>2, <2>3, StepActs, BusLeftAlone, PersistCounts, CountCounts
  <2>4. CASE UNCHANGED vars
    BY <2>2, <2>4 DEF vars, busVars
  <2>5. QED
    BY <2>1, <2>3, <2>4
<1>3. QED
  BY <1>1, <1>2, SteadyCorrect, PTL DEF Spec

(* update_summary: whatever loops and jobs publish at the same time and    *)
(* whatever writes fail, the summary has counted every record of its run   *)
(* once, but those that are stored and not yet counted.                    *)
THEOREM CountsAgreeCorrect == Spec => []CountsAgree
<1>1. CountInv => CountsAgree
  BY DEF CountInv
<1>2. QED
  BY <1>1, CountsInvariant, PTL

-----------------------------------------------------------------------------
(* SettledStays.  Only the user's session publishes records about a run as *)
(* a whole, one at a time and about the run of its present turn; and when  *)
(* that run has settled there is none left to publish.                     *)

Pending(a) == Elems(queue[a]) \cup (IF publishing[a] = Nil THEN {} ELSE {publishing[a]})

NoRun(s) == \A x \in Elems(s) : x.name \notin RunNames
OneRun(s) == \A i, j \in DOMAIN s : s[i].name \in RunNames /\ s[j].name \in RunNames => i = j

IsSettled(r) == cache[r] # Nil /\ cache[r].status \in Settled

RunRecords ==
  /\ \A a \in Actors : a # Main => \A x \in Pending(a) : x.name \notin RunNames
  /\ OneRun(queue[Main])
  /\ publishing[Main] # Nil /\ publishing[Main].name \in RunNames => NoRun(queue[Main])
  /\ \A x \in Pending(Main) : x.name \in RunNames =>
       x.run = turn[Main] /\ (x.name # "run_started" => active[Main] = Nil)

SettledPast ==
  \A r \in Runs : IsSettled(r) =>
    /\ r <= turn[Main]
    /\ r = turn[Main] =>
         active[Main] = Nil /\ \A x \in Pending(Main) : x.name \notin RunNames

SettledInv == RunRecords /\ SettledPast /\ DiskCached

(* Records about the run, after others that are not.                       *)
LEMMA OneRunJoin ==
  ASSUME NEW s \in Seq(Records), NEW t \in Seq(Records),
         (NoRun(s) /\ OneRun(t)) \/ (OneRun(s) /\ NoRun(t))
  PROVE  OneRun(s \o t)
<1> SUFFICES ASSUME NEW i \in DOMAIN (s \o t), NEW j \in DOMAIN (s \o t),
                    (s \o t)[i].name \in RunNames, (s \o t)[j].name \in RunNames
             PROVE  i = j
  BY DEF OneRun
<1>1. \A k \in DOMAIN (s \o t) :
        \/ k \in DOMAIN s /\ (s \o t)[k] = s[k]
        \/ k - Len(s) \in DOMAIN t /\ (s \o t)[k] = t[k - Len(s)]
  OBVIOUS
<1>2. i \in Int /\ j \in Int /\ Len(s) \in Int
  OBVIOUS
<1>3. NoRun(s) => \A k \in DOMAIN s : s[k].name \notin RunNames
  BY DEF NoRun, Elems
<1>4. NoRun(t) => \A k \in DOMAIN t : t[k].name \notin RunNames
  BY DEF NoRun, Elems
<1>5. CASE NoRun(s) /\ OneRun(t)
  <2>1. /\ i - Len(s) \in DOMAIN t /\ t[i - Len(s)].name \in RunNames
        /\ j - Len(s) \in DOMAIN t /\ t[j - Len(s)].name \in RunNames
    BY <1>1, <1>3, <1>5
  <2>2. i - Len(s) = j - Len(s)
    BY <1>5, <2>1 DEF OneRun
  <2>3. QED
    BY <1>2, <2>2
<1>6. CASE OneRun(s) /\ NoRun(t)
  <2>1. i \in DOMAIN s /\ s[i].name \in RunNames /\ j \in DOMAIN s /\ s[j].name \in RunNames
    BY <1>1, <1>4, <1>6
  <2>2. QED
    BY <1>6, <2>1 DEF OneRun
<1>7. QED
  BY <1>5, <1>6

(* The rest of the queue has no more of them.                              *)
LEMMA OneRunTail ==
  ASSUME NEW s \in Seq(Records), s # <<>>, OneRun(s)
  PROVE  OneRun(Tail(s)) /\ (Head(s).name \in RunNames => NoRun(Tail(s)))
<1>1. /\ Head(s) = s[1] /\ 1 \in DOMAIN s
      /\ \A i \in DOMAIN Tail(s) : i + 1 \in DOMAIN s /\ Tail(s)[i] = s[i + 1] /\ i \in Nat /\ i > 0
  OBVIOUS
<1>2. OneRun(Tail(s))
  <2> SUFFICES ASSUME NEW i \in DOMAIN Tail(s), NEW j \in DOMAIN Tail(s),
                      Tail(s)[i].name \in RunNames, Tail(s)[j].name \in RunNames
               PROVE  i = j
    BY DEF OneRun
  <2>1. i + 1 = j + 1
    BY <1>1 DEF OneRun
  <2>2. QED
    BY <1>1, <2>1
<1>3. Head(s).name \in RunNames => NoRun(Tail(s))
  <2> SUFFICES ASSUME Head(s).name \in RunNames, NEW i \in DOMAIN Tail(s),
                      Tail(s)[i].name \in RunNames
               PROVE  FALSE
    BY DEF NoRun, Elems
  <2>1. i + 1 = 1
    BY <1>1 DEF OneRun
  <2>2. QED
    BY <1>1, <2>1
<1>4. QED
  BY <1>2, <1>3

(* A queue of one record, or of a record about the run and none.           *)
LEMMA OneRunShort ==
  /\ \A x : OneRun(<<x>>)
  /\ \A s : NoRun(s) => OneRun(s)
<1>1. \A x : OneRun(<<x>>)
  BY DEF OneRun
<1>2. \A s : NoRun(s) => OneRun(s)
  BY DEF NoRun, OneRun, Elems
<1>3. QED
  BY <1>1, <1>2

(* What the bus stores is still to be counted.                             *)
LEMMA PersistPending ==
  ASSUME TypeOK, Steady, NEW a \in Actors, Persist(a), NEW b \in Actors
  PROVE  Pending(b)' = Pending(b)
<1>1. /\ publishing[a] = Nil /\ publishing' = [publishing EXCEPT ![a] = Head(queue[a])]
      /\ queue' = [queue EXCEPT ![a] = Tail(queue[a])] /\ Head(queue[a]) \in Records
      /\ queue[a] # <<>>
  BY PersistTypes
<1>2. publishing \in [Actors -> Records \cup {Nil}] /\ queue \in [Actors -> Seq(Records)]
  BY DEF TypeOK, BusTypes
<1>3. CASE b = a
  <2>1. Elems(queue[a]) = {Head(queue[a])} \cup Elems(Tail(queue[a]))
    BY <1>1, <1>2, ElemsOf
  <2>2. publishing'[a] = Head(queue[a]) /\ queue'[a] = Tail(queue[a]) /\ Head(queue[a]) # Nil
    BY <1>1, <1>2, TraceAssumption
  <2>3. Elems(queue[a])' = Elems(queue'[a])
    BY DEF Elems
  <2>4. QED
    BY <1>1, <1>3, <2>1, <2>2, <2>3 DEF Pending
<1>4. CASE b # a
  <2>1. publishing'[b] = publishing[b] /\ queue'[b] = queue[b]
    BY <1>1, <1>2, <1>4
  <2>2. QED
    BY <2>1 DEF Pending, Elems
<1>5. QED
  BY <1>3, <1>4

(* A loop or a job that moves has nothing pending but what it publishes.   *)
LEMMA ActsPending ==
  ASSUME TypeOK, Steady, NEW a \in Actors, NEW b \in Actors,
         \/ (Acts(b) \/ Begins(b, turn[b] + 1)) /\ a = b
         \/ Spawns(b) /\ a = Main /\ b # Main
  PROVE  /\ Pending(a) = {} /\ Pending(a)' = Elems(queue'[a])
         /\ publishing'[a] = Nil /\ queue'[a] \in Seq(Records)
         /\ \A c \in Actors : c # a =>
              Pending(c)' = Pending(c) /\ queue'[c] = queue[c] /\ publishing'[c] = publishing[c]
<1>1. /\ Quiet(a) /\ publishing' = publishing /\ queue' = [queue EXCEPT ![a] = queue'[a]]
      /\ queue'[a] \in Seq(Records)
  BY DEF Acts, Remarks, Settles, OpensOwn, Opens, Begins, Spawns, Silent
<1>2. queue[a] = <<>> /\ publishing[a] = Nil /\ publishing'[a] = Nil
  BY <1>1 DEF Quiet
<1>3. Pending(a) = {}
  BY <1>2, ElemsOf DEF Pending
<1>4. Pending(a)' = Elems(queue'[a])
  BY <1>1, <1>2 DEF Pending, Elems
<1>5. ASSUME NEW c \in Actors, c # a
      PROVE  Pending(c)' = Pending(c) /\ queue'[c] = queue[c] /\ publishing'[c] = publishing[c]
  BY <1>1, <1>5 DEF Pending, Elems, TypeOK, BusTypes
<1>6. QED
  BY <1>1, <1>2, <1>3, <1>4, <1>5

(* What a move publishes about a run as a whole.                           *)
RunRecordsFit(a) ==
  /\ OneRun(queue'[a]) /\ (a # Main => NoRun(queue'[a]))
  /\ \A x \in Elems(queue'[a]) : x.name \in RunNames =>
       x.run = turn'[a] /\ (x.name # "run_started" => active'[a] = Nil)

(* Without records about the run there is not more than one.               *)
LEMMA NoRunFits ==
  ASSUME NEW a, NoRun(queue'[a])
  PROVE  RunRecordsFit(a)
BY OneRunShort DEF RunRecordsFit, NoRun

(* What two sequences of records hold together.                            *)
LEMMA Joined ==
  ASSUME NEW s \in Seq(Records), NEW t \in Seq(Records)
  PROVE  s \o t \in Seq(Records) /\ Elems(s \o t) = Elems(s) \cup Elems(t)
BY ElemsOf

(* No record about the run, after none.                                    *)
LEMMA NoRunJoin ==
  ASSUME NEW s \in Seq(Records), NEW t \in Seq(Records), NoRun(s), NoRun(t)
  PROVE  NoRun(s \o t)
BY ElemsOf DEF NoRun

(* The end of a turn publishes one record about the run.                   *)
LEMMA SettlesRunRecords ==
  ASSUME TypeOK, Steady, NEW a \in Actors, Settles(a)
  PROVE  RunRecordsFit(a)
<1>1. PICK before \in Remarked(a), after \in Remarked(a), name \in OutcomeNames :
        queue'[a] = before \o Closing(a, name) \o after
  BY DEF Settles
<1>2. /\ before \in Seq(Records) /\ after \in Seq(Records) /\ NoRun(before) /\ NoRun(after)
  BY DEF Remarked, Remark, NoRun
<1>3. active[a] # Nil /\ LoopTypes /\ active'[a] = Nil /\ turn'[a] = turn[a]
  BY DEF Settles, Steady, SteadyAt, TypeOK
<1>4. /\ Place(a) = [run |-> RunOf(<<a, turn[a]>>), turn |-> <<a, turn[a]>>,
                     iter |-> iter[a], task |-> <<a, turn[a]>>]
      /\ Place(a) \in Places /\ active[a].turnSpan \in Spans /\ TurnParent(a) \in Spans
      /\ active[a].runSpan = IF a = Main THEN RunSpan(a, turn[a]) ELSE Nil
  BY <1>3, Standing
<1>5. RunSpan(a, turn[a]) \in Spans /\ RunSpan(a, turn[a]) # Nil
  BY <1>3, SpanTypes, TraceAssumption
<1>6. name \in RecordNames /\ "turn_finished" \in RecordNames /\ "turn_finished" \notin RunNames
      /\ name # "run_started"
  BY DEF OutcomeNames, RecordNames, RunNames
<1> DEFINE e == End(Whole(Place(a)), "turn_finished", active[a].turnSpan, TurnParent(a))
           f == End(Whole(Place(a)), name, RunSpan(a, turn[a]), Nil)
<1>7. Whole(Place(a)) \in Places
  BY <1>4, <1>6, RecordTypes
<1>8. e \in Records /\ f \in Records
  BY <1>4, <1>5, <1>6, <1>7, RecordTypes
<1>9. e.name = "turn_finished" /\ f.run = RunOf(<<a, turn[a]>>) /\ f.name = name
  BY <1>4 DEF End, Record, Whole
<1> HIDE DEF e, f
<1>10. <<e>> \in Seq(Records) /\ Elems(<<e>>) = {e} /\ <<f>> \in Seq(Records) /\ Elems(<<f>>) = {f}
  BY <1>8, ElemsOf
<1>11. NoRun(<<e>>) /\ OneRun(<<f>>)
  BY <1>6, <1>9, <1>10, OneRunShort DEF NoRun
<1>12. CASE a = Main
  <2>1. Closing(a, name) = <<e>> \o <<f>>
    BY <1>4, <1>5, <1>12 DEF Closing, e, f
  <2>2. /\ <<e>> \o <<f>> \in Seq(Records) /\ before \o (<<e>> \o <<f>>) \in Seq(Records)
        /\ Elems(<<e>> \o <<f>>) = {e} \cup {f}
    <3> DEFINE u == <<e>>
               v == <<f>>
    <3>1. u \in Seq(Records) /\ v \in Seq(Records) /\ Elems(u) = {e} /\ Elems(v) = {f}
      BY <1>10
    <3> HIDE DEF u, v
    <3>2. u \o v \in Seq(Records) /\ Elems(u \o v) = {e} \cup {f}
      BY <3>1, Joined
    <3>3. before \o (u \o v) \in Seq(Records)
      BY <1>2, <3>2, Joined
    <3>4. QED
      BY <3>2, <3>3 DEF u, v
  <2>3. OneRun(<<e>> \o <<f>>)
    BY <1>10, <1>11, OneRunJoin
  <2>4. OneRun(before \o (<<e>> \o <<f>>))
    BY <1>2, <2>2, <2>3, OneRunJoin
  <2>5. OneRun(queue'[a])
    BY <1>1, <1>2, <2>1, <2>2, <2>4, OneRunJoin
  <2>6. Elems(queue'[a]) = Elems(before) \cup ({e} \cup {f}) \cup Elems(after)
    <3>1. /\ before \o (<<e>> \o <<f>>) \in Seq(Records)
          /\ Elems(before \o (<<e>> \o <<f>>)) = Elems(before) \cup ({e} \cup {f})
      BY <1>2, <2>2, Joined
    <3>2. queue'[a] = (before \o (<<e>> \o <<f>>)) \o after
      BY <1>1, <2>1
    <3>3. QED
      BY <1>2, <3>1, <3>2, Joined
  <2>7. \A x \in Elems(queue'[a]) : x.name \in RunNames => x = f
    BY <1>2, <1>6, <1>9, <2>6 DEF NoRun
  <2>8. f.run = turn[a]
    BY <1>9, <1>12 DEF RunOf
  <2>9. QED
    BY <1>3, <1>12, <2>5, <2>7, <2>8 DEF RunRecordsFit
<1>13. CASE a # Main
  <2>1. Closing(a, name) = <<e>> \o <<>>
    BY <1>4, <1>13 DEF Closing, e
  <2>2. <<>> \in Seq(Records) /\ NoRun(<<>>)
    BY ElemsOf DEF NoRun
  <2>3. <<e>> \o <<>> \in Seq(Records) /\ NoRun(<<e>> \o <<>>)
    BY <1>10, <1>11, <2>2, ElemsOf, NoRunJoin
  <2>4. before \o (<<e>> \o <<>>) \in Seq(Records) /\ NoRun(before \o (<<e>> \o <<>>))
    BY <1>2, <2>3, ElemsOf, NoRunJoin
  <2>5. NoRun(queue'[a])
    BY <1>1, <1>2, <2>1, <2>4, NoRunJoin
  <2>6. QED
    BY <2>5, NoRunFits
<1>14. QED
  BY <1>12, <1>13

(* So does the beginning of a turn of the user.                            *)
LEMMA BeginsRunRecords ==
  ASSUME TypeOK, Steady, NEW a \in Actors, Begins(a, turn[a] + 1)
  PROVE  RunRecordsFit(a)
<1> DEFINE t == turn[a] + 1
           e == Start(TurnPlace(a, t), RunSpan(a, t), Nil)
           f == Start(TurnPlace(a, t), TurnSpan(a, t), RunSpan(a, t))
           g == Start(TurnPlace(a, t), TurnSpan(a, t), SubagentSpan(a))
<1>1. /\ queue'[a] = IF a = Main THEN <<e>> \o <<f>> ELSE <<g>>
      /\ turn'[a] = t /\ queue'[a] \in Seq(Records)
  BY DEF Begins, Silent
<1>2. /\ e.name = "run_started" /\ e.run = RunOf(<<a, t>>)
      /\ f.name = "turn_started" /\ g.name = "turn_started"
  BY DEF Start, Record, RunSpan, TurnSpan, SpanOf, TurnPlace
<1>3. t \in Nat /\ LoopTypes /\ TurnPlace(a, t) \in Places
  BY DEF TypeOK, LoopTypes, Begins
<1>4. "turn_started" \notin RunNames /\ "llm_error" \in RecordNames
  BY DEF RunNames, RecordNames
<1>5. e \in Records /\ f \in Records /\ g \in Records
  BY <1>3, <1>4, SpanTypes, RecordTypes
<1> HIDE DEF e, f, g, t
<1>6. /\ <<e>> \in Seq(Records) /\ Elems(<<e>>) = {e}
      /\ <<f>> \in Seq(Records) /\ Elems(<<f>>) = {f}
      /\ <<g>> \in Seq(Records) /\ Elems(<<g>>) = {g}
  BY <1>5, ElemsOf
<1>7. NoRun(<<f>>) /\ NoRun(<<g>>) /\ OneRun(<<e>>)
  BY <1>2, <1>4, <1>6, OneRunShort DEF NoRun
<1>8. CASE a = Main
  <2>1. OneRun(<<e>> \o <<f>>) /\ Elems(<<e>> \o <<f>>) = {e} \cup {f}
    <3> DEFINE u == <<e>>
               v == <<f>>
    <3>1. /\ u \in Seq(Records) /\ v \in Seq(Records) /\ Elems(u) = {e} /\ Elems(v) = {f}
          /\ OneRun(u) /\ NoRun(v)
      BY <1>6, <1>7
    <3> HIDE DEF u, v
    <3>2. OneRun(u \o v) /\ Elems(u \o v) = {e} \cup {f}
      BY <3>1, OneRunJoin, Joined
    <3>3. QED
      BY <3>2 DEF u, v
  <2>2. e.run = t
    BY <1>2, <1>8 DEF RunOf
  <2>3. QED
    BY <1>1, <1>2, <1>4, <1>8, <2>1, <2>2 DEF RunRecordsFit
<1>9. CASE a # Main
  BY <1>1, <1>7, <1>9, NoRunFits
<1>10. QED
  BY <1>8, <1>9

(* Nothing else does.                                                      *)
LEMMA OtherRunRecords ==
  ASSUME TypeOK, Steady, NEW a \in Actors,
         Remarks(a) \/ OpensOwn(a) \/ (a = Main /\ \E j \in 1..Jobs : Spawns(j))
  PROVE  NoRun(queue'[a])
<1>1. CASE Remarks(a)
  BY <1>1 DEF Remarks, Remarked, Remark, NoRun
<1>2. CASE OpensOwn(a)
  <2>1. PICK i : \E span \in Spans, parent \in Spans :
          /\ queue'[a] = <<Start([Place(a) EXCEPT !.iter = i], span, parent)>>
          /\ span.name \in {"iteration_started", "llm_request_started", "tool_started"}
    <3>1. /\ \A i, k : SpanOf(a, "iteration_started", turn[a], i, k).name = "iteration_started"
          /\ \A i, k : SpanOf(a, "llm_request_started", turn[a], i, k).name = "llm_request_started"
          /\ ToolSpan(a).name = "tool_started"
      BY SpanTypes DEF SpanOf, TypeOK
    <3>2. QED
      BY <1>2, <3>1 DEF OpensOwn, Opens
  <2>2. "iteration_started" \notin RunNames /\ "llm_request_started" \notin RunNames
        /\ "tool_started" \notin RunNames
    BY DEF RunNames
  <2>3. QED
    BY <2>1, <2>2 DEF NoRun, Elems, Start, Record
<1>3. CASE a = Main /\ \E j \in 1..Jobs : Spawns(j)
  <2>1. PICK j \in 1..Jobs : queue'[a] = <<Start(Place(Main), SubagentSpan(j), ToolSpan(Main))>>
    BY <1>3 DEF Spawns
  <2>2. "subagent_spawned" \notin RunNames
    BY DEF RunNames
  <2>3. QED
    BY <2>1, <2>2 DEF NoRun, Elems, Start, Record, SubagentSpan
<1>4. QED
  BY <1>1, <1>2, <1>3

(* What a move of the user's loop does to its turn.                        *)
LEMMA MovesTurn ==
  ASSUME TypeOK, Steady, NEW a \in Actors,
         \/ Acts(a) \/ Begins(a, turn[a] + 1)
         \/ a = Main /\ \E j \in 1..Jobs : Spawns(j)
  PROVE  /\ RunRecordsFit(a)
         /\ \/ turn'[a] = turn[a] /\ (active[a] = Nil <=> active'[a] = Nil) /\ NoRun(queue'[a])
            \/ turn'[a] = turn[a] /\ active[a] # Nil /\ active'[a] = Nil
            \/ turn'[a] = turn[a] + 1
         /\ \A c \in Actors : c # a => turn'[c] = turn[c] /\ active'[c] = active[c]
<1>1. \A c \in Actors : c # a => turn'[c] = turn[c] /\ active'[c] = active[c]
  <2>1. CASE Acts(a) \/ Begins(a, turn[a] + 1)
    <3>1. OnlyLoop(a)
      BY <2>1 DEF Acts, Remarks, Settles, OpensOwn, Opens, Begins
    <3>2. QED
      BY <3>1 DEF OnlyLoop, TypeOK, LoopTypes
  <2>2. CASE a = Main /\ \E j \in 1..Jobs : Spawns(j)
    BY <2>2 DEF Spawns
  <2>3. QED
    BY <2>1, <2>2
<1>2. CASE Remarks(a) \/ OpensOwn(a) \/ (a = Main /\ \E j \in 1..Jobs : Spawns(j))
  <2>1. turn' = turn /\ active' = active
    BY <1>2 DEF Remarks, OpensOwn, Opens, Spawns
  <2>2. QED
    BY <1>1, <1>2, <2>1, OtherRunRecords, NoRunFits
<1>3. CASE Settles(a)
  <2>1. turn' = turn /\ active'[a] = Nil /\ active[a] # Nil
    BY <1>3 DEF Settles, Steady, SteadyAt
  <2>2. QED
    BY <1>1, <1>3, <2>1, SettlesRunRecords
<1>4. CASE Begins(a, turn[a] + 1)
  BY <1>1, <1>4, BeginsRunRecords DEF Begins
<1>5. QED
  BY <1>2, <1>3, <1>4 DEF Acts

(* A step of a loop keeps the invariant.                                   *)
LEMMA MoveSettled ==
  ASSUME TypeOK, Steady, SettledInv, NEW a \in Actors,
         \/ Acts(a) \/ Begins(a, turn[a] + 1)
         \/ a = Main /\ \E j \in 1..Jobs : Spawns(j)
  PROVE  SettledInv' /\ cache' = cache
<1>1. /\ Main \in Actors /\ turn[Main] \in Nat
  BY ActorFacts DEF TypeOK, LoopTypes
<1>2. /\ Pending(a) = {} /\ Pending(a)' = Elems(queue'[a])
      /\ publishing'[a] = Nil
      /\ \A c \in Actors : c # a =>
           Pending(c)' = Pending(c) /\ queue'[c] = queue[c] /\ publishing'[c] = publishing[c]
  <2>1. CASE Acts(a) \/ Begins(a, turn[a] + 1)
    BY <2>1, ActsPending
  <2>2. CASE a = Main /\ \E j \in 1..Jobs : Spawns(j)
    BY <2>2, ActsPending, ActorFacts
  <2>3. QED
    BY <2>1, <2>2
<1>3. UNCHANGED <<cache, disk>>
  BY BusLeftAlone
<1>4. /\ RunRecordsFit(a)
      /\ \/ turn'[a] = turn[a] /\ (active[a] = Nil <=> active'[a] = Nil) /\ NoRun(queue'[a])
         \/ turn'[a] = turn[a] /\ active[a] # Nil /\ active'[a] = Nil
         \/ turn'[a] = turn[a] + 1
      /\ \A c \in Actors : c # a => turn'[c] = turn[c] /\ active'[c] = active[c]
  BY MovesTurn
<1>5. DiskCached'
  BY <1>3 DEF SettledInv, DiskCached
<1>6. ASSUME NEW c \in Actors, c # Main
      PROVE  \A x \in Pending(c)' : x.name \notin RunNames
  <2>1. CASE c = a
    BY <1>2, <1>4, <1>6, <2>1 DEF RunRecordsFit, NoRun
  <2>2. CASE c # a
    BY <1>2, <1>6, <2>2 DEF SettledInv, RunRecords
  <2>3. QED
    BY <2>1, <2>2
<1>7. CASE a # Main
  <2>1. /\ queue'[Main] = queue[Main] /\ publishing'[Main] = publishing[Main]
        /\ Pending(Main)' = Pending(Main) /\ turn'[Main] = turn[Main]
        /\ active'[Main] = active[Main]
    BY <1>1, <1>2, <1>4, <1>7
  <2>2. RunRecords'
    BY <1>6, <2>1 DEF SettledInv, RunRecords, OneRun, NoRun, Elems
  <2>3. SettledPast'
    BY <1>3, <2>1 DEF SettledInv, SettledPast, IsSettled
  <2>4. QED
    BY <1>3, <1>5, <2>2, <2>3 DEF SettledInv
<1>8. CASE a = Main
  <2>1. /\ OneRun(queue'[Main]) /\ publishing'[Main] = Nil /\ Pending(Main)' = Elems(queue'[Main])
        /\ \A x \in Elems(queue'[Main]) : x.name \in RunNames =>
             x.run = turn'[Main] /\ (x.name # "run_started" => active'[Main] = Nil)
    BY <1>2, <1>4, <1>8 DEF RunRecordsFit
  <2>2. RunRecords'
    BY <1>6, <2>1 DEF RunRecords, OneRun, NoRun, Elems
  <2>3. SettledPast'
    <3>1. SUFFICES ASSUME NEW r \in Runs, IsSettled(r)
                   PROVE  /\ r <= turn'[Main]
                          /\ r = turn'[Main] =>
                               active'[Main] = Nil /\ \A x \in Pending(Main)' : x.name \notin RunNames
      BY <1>3 DEF SettledPast, IsSettled
    <3>2. r <= turn[Main] /\ (r = turn[Main] => active[Main] = Nil) /\ r \in Nat
      BY <3>1 DEF SettledInv, SettledPast, Runs
    <3>3. CASE turn'[Main] = turn[Main] + 1
      BY <1>1, <3>2, <3>3
    <3>4. CASE /\ turn'[Main] = turn[Main] /\ (active[Main] = Nil <=> active'[Main] = Nil)
               /\ NoRun(queue'[Main])
      BY <2>1, <3>2, <3>4 DEF NoRun
    <3>5. CASE turn'[Main] = turn[Main] /\ active[Main] # Nil
      BY <3>2, <3>5
    <3>6. QED
      BY <1>4, <1>8, <3>3, <3>4, <3>5
  <2>4. QED
    BY <1>3, <1>5, <2>2, <2>3 DEF SettledInv
<1>9. QED
  BY <1>7, <1>8

(* So does storing a record.                                               *)
LEMMA PersistSettled ==
  ASSUME TypeOK, Steady, SettledInv, NEW a \in Actors, Persist(a)
  PROVE  SettledInv' /\ cache' = cache
<1>1. /\ publishing[a] = Nil /\ publishing' = [publishing EXCEPT ![a] = Head(queue[a])]
      /\ queue' = [queue EXCEPT ![a] = Tail(queue[a])] /\ queue[a] # <<>>
      /\ UNCHANGED <<loopVars, cache, disk, row>>
  BY PersistTypes
<1>2. /\ publishing \in [Actors -> Records \cup {Nil}] /\ queue \in [Actors -> Seq(Records)]
      /\ Main \in Actors
  BY ActorFacts DEF TypeOK, BusTypes
<1>3. \A c \in Actors : Pending(c)' = Pending(c)
  BY PersistPending
<1>4. turn' = turn /\ active' = active /\ cache' = cache /\ disk' = disk
  BY <1>1 DEF loopVars
<1>5. OneRun(queue'[Main]) /\ (publishing'[Main] # Nil /\ publishing'[Main].name \in RunNames
                               => NoRun(queue'[Main]))
  <2>1. CASE a = Main
    <3>1. publishing'[Main] = Head(queue[Main]) /\ queue'[Main] = Tail(queue[Main])
      BY <1>1, <1>2, <2>1
    <3>2. /\ OneRun(Tail(queue[Main]))
          /\ Head(queue[Main]).name \in RunNames => NoRun(Tail(queue[Main]))
      BY <1>1, <1>2, <2>1, OneRunTail DEF SettledInv, RunRecords
    <3>3. QED
      BY <3>1, <3>2
  <2>2. CASE a # Main
    <3>1. publishing'[Main] = publishing[Main] /\ queue'[Main] = queue[Main]
      BY <1>1, <1>2, <2>2
    <3>2. QED
      BY <3>1 DEF SettledInv, RunRecords
  <2>3. QED
    BY <2>1, <2>2
<1>6. RunRecords'
  <2>1. OneRun(queue[Main])' /\ (publishing'[Main] # Nil /\ publishing'[Main].name \in RunNames
                               => NoRun(queue[Main])')
    BY <1>5 DEF OneRun, NoRun, Elems
  <2>2. \A c \in Actors : c # Main => \A x \in Pending(c)' : x.name \notin RunNames
    BY <1>3 DEF SettledInv, RunRecords
  <2>3. \A x \in Pending(Main)' : x.name \in RunNames =>
          x.run = turn'[Main] /\ (x.name # "run_started" => active'[Main] = Nil)
    BY <1>2, <1>3, <1>4 DEF SettledInv, RunRecords
  <2>4. QED
    BY <2>1, <2>2, <2>3 DEF RunRecords
<1>7. SettledPast'
  BY <1>2, <1>3, <1>4 DEF SettledInv, SettledPast, IsSettled
<1>8. DiskCached'
  BY <1>4 DEF SettledInv, DiskCached
<1>9. QED
  BY <1>4, <1>6, <1>7, <1>8 DEF SettledInv

(* So does counting it, which settles a run at most once.                  *)
LEMMA CountSettled ==
  ASSUME TypeOK, Steady, SettledInv, NEW a \in Actors, Count(a)
  PROVE  /\ SettledInv'
         /\ \A r \in Runs : IsSettled(r) => cache'[r].status = cache[r].status
<1> DEFINE x == publishing[a]
           new == Updated(SummaryOf(x.run), x)
<1>1. /\ x \in Records /\ x.run \in Runs /\ x # Nil
      /\ SummaryOf(x.run) \in Summaries
      /\ cache' = [cache EXCEPT ![x.run] = new]
      /\ publishing' = [publishing EXCEPT ![a] = Nil]
      /\ \A r \in Runs : r # x.run => disk'[r] = disk[r]
      /\ UNCHANGED <<loopVars, queue, made, stored, lost>>
  BY CountTypes, TraceAssumption
<1>2. /\ publishing \in [Actors -> Records \cup {Nil}] /\ cache \in [Runs -> Summaries \cup {Nil}]
      /\ Main \in Actors /\ turn[Main] \in Nat
  BY ActorFacts DEF TypeOK, BusTypes, LoopTypes
<1>3. new \in Summaries /\ new # Nil
  BY <1>1, UpdatedTypes, TraceAssumption
<1>4. /\ x.name \notin RunNames => new.status = SummaryOf(x.run).status
      /\ x.name = "run_started" => new.status = "running"
  BY DEF Updated, RunNames
<1> HIDE DEF new
<1>5. x \in Pending(a) /\ turn' = turn /\ active' = active
  BY <1>1 DEF Pending, loopVars
<1>6. \A c \in Actors : Pending(c)' \subseteq Pending(c)
  BY <1>1, <1>2 DEF Pending, Elems
<1>7. x.name \in RunNames =>
        /\ a = Main /\ x.run = turn[Main] /\ (x.name # "run_started" => active[Main] = Nil)
        /\ \A y \in Pending(Main)' : y.name \notin RunNames
        /\ ~IsSettled(x.run)
  <2>1. SUFFICES ASSUME x.name \in RunNames
                 PROVE  /\ a = Main /\ x.run = turn[Main]
                        /\ (x.name # "run_started" => active[Main] = Nil)
                        /\ \A y \in Pending(Main)' : y.name \notin RunNames
                        /\ ~IsSettled(x.run)
    OBVIOUS
  <2>2. a = Main
    BY <1>5, <2>1 DEF SettledInv, RunRecords
  <2>3. x.run = turn[Main] /\ (x.name # "run_started" => active[Main] = Nil)
    BY <1>5, <2>1, <2>2 DEF SettledInv, RunRecords
  <2>4. NoRun(queue[Main])
    BY <1>1, <2>1, <2>2 DEF SettledInv, RunRecords
  <2>5. Pending(Main)' = Elems(queue[Main])
    BY <1>1, <1>2, <2>2 DEF Pending, Elems
  <2>6. ~IsSettled(x.run)
    BY <1>1, <1>5, <2>1, <2>2, <2>3 DEF SettledInv, SettledPast
  <2>7. QED
    BY <2>2, <2>3, <2>4, <2>5, <2>6 DEF NoRun
<1>8. ASSUME NEW r \in Runs, IsSettled(r) PROVE cache'[r].status = cache[r].status
  <2>1. CASE r # x.run
    BY <1>1, <1>2, <2>1
  <2>2. CASE r = x.run
    <3>1. SummaryOf(r) = cache[r]
      BY <1>8 DEF SummaryOf, IsSettled
    <3>2. x.name \notin RunNames
      BY <1>7, <1>8, <2>2
    <3>3. cache'[r] = new
      BY <1>1, <1>2, <2>2
    <3>4. QED
      BY <1>4, <2>2, <3>1, <3>2, <3>3
  <2>3. QED
    BY <2>1, <2>2
<1>9. RunRecords'
  <2>1. queue' = queue /\ (publishing'[Main] # Nil => publishing'[Main] = publishing[Main])
    BY <1>1, <1>2
  <2>2. \A c \in Actors : c # Main => \A y \in Pending(c)' : y.name \notin RunNames
    BY <1>6 DEF SettledInv, RunRecords
  <2>3. \A y \in Pending(Main)' : y.name \in RunNames =>
          y.run = turn'[Main] /\ (y.name # "run_started" => active'[Main] = Nil)
    BY <1>2, <1>5, <1>6 DEF SettledInv, RunRecords
  <2>4. OneRun(queue[Main])' /\ (publishing'[Main] # Nil /\ publishing'[Main].name \in RunNames
                               => NoRun(queue[Main])')
    BY <2>1 DEF SettledInv, RunRecords, OneRun, NoRun, Elems
  <2>5. QED
    BY <2>2, <2>3, <2>4 DEF RunRecords
<1>10. SettledPast'
  <2>1. SUFFICES ASSUME NEW r \in Runs, IsSettled(r)'
                 PROVE  /\ r <= turn[Main]
                        /\ r = turn[Main] =>
                             active[Main] = Nil /\ \A y \in Pending(Main)' : y.name \notin RunNames
    BY <1>5 DEF SettledPast
  <2>2. CASE IsSettled(r)
    <3>1. /\ r <= turn[Main]
          /\ r = turn[Main] =>
               active[Main] = Nil /\ \A y \in Pending(Main) : y.name \notin RunNames
      BY <2>2 DEF SettledInv, SettledPast
    <3>2. QED
      BY <1>2, <1>6, <3>1
  <2>3. CASE ~IsSettled(r)
    <3>1. r = x.run /\ cache'[r] = new
      BY <1>1, <1>2, <2>1, <2>3 DEF IsSettled
    <3>2. new.status \in Settled
      BY <2>1, <3>1 DEF IsSettled
    <3>3. x.name \in RunNames
      <4>1. SUFFICES ASSUME x.name \notin RunNames PROVE FALSE
        OBVIOUS
      <4>2. SummaryOf(x.run).status \in Settled
        BY <1>4, <3>2, <4>1
      <4>3. cache[r] = Nil => disk[r] = Nil
        BY DEF SettledInv, DiskCached
      <4>4. QED
        BY <2>3, <3>1, <4>2, <4>3 DEF SummaryOf, NewSummary, IsSettled, Settled
    <3>4. x.name # "run_started"
      BY <1>4, <3>2 DEF Settled
    <3>5. QED
      BY <1>2, <1>7, <3>1, <3>3, <3>4
  <2>4. QED
    BY <2>2, <2>3
<1>11. DiskCached'
  BY <1>1, <1>2, <1>3 DEF SettledInv, DiskCached
<1>12. QED
  BY <1>8, <1>9, <1>10, <1>11 DEF SettledInv

(* The invariant holds at first ...                                        *)
LEMMA InitSettled ==
  ASSUME Init
  PROVE  SettledInv
<1>1. /\ \A a \in Actors : queue[a] = <<>> /\ publishing[a] = Nil
      /\ \A r \in Runs : cache[r] = Nil /\ disk[r] = Nil
      /\ Main \in Actors
  BY ActorFacts DEF Init, LoopInit, BusInit
<1>2. \A a \in Actors : Pending(a) = {}
  BY <1>1, ElemsOf DEF Pending
<1>3. OneRun(queue[Main])
  BY <1>1 DEF OneRun
<1>4. QED
  BY <1>1, <1>2, <1>3 DEF SettledInv, RunRecords, SettledPast, DiskCached, IsSettled

(* ... and every step keeps it.                                            *)
LEMMA StepSettled ==
  ASSUME TypeOK, Steady, SettledInv, [Next]_vars
  PROVE  /\ SettledInv'
         /\ \A r \in Runs : IsSettled(r) => cache'[r].status = cache[r].status
<1>1. CASE Next
  BY <1>1, StepActs, PersistSettled, CountSettled, MoveSettled, ActorFacts
<1>2. CASE UNCHANGED vars
  <2>1. /\ UNCHANGED <<queue, publishing, cache, disk, turn, active>>
    BY <1>2 DEF vars, loopVars, busVars
  <2>2. RunRecords'
    BY <2>1 DEF SettledInv, RunRecords, Pending, Elems, OneRun, NoRun
  <2>3. SettledPast' /\ DiskCached'
    BY <2>1 DEF SettledInv, SettledPast, IsSettled, DiskCached, Pending, Elems
  <2>4. QED
    BY <2>1, <2>2, <2>3 DEF SettledInv
<1>3. QED
  BY <1>1, <1>2

(* What is settled, in every state.                                        *)
LEMMA SettledInvariant == Spec => []SettledInv
<1>1. Init => SettledInv
  BY InitSettled
<1>2. TypeOK /\ Steady /\ SettledInv /\ [Next]_vars => SettledInv'
  BY StepSettled
<1>3. QED
  BY <1>1, <1>2, SteadyCorrect, PTL DEF Spec

(* update_summary: whatever a background job goes on to publish in a run,  *)
(* and however late it is counted, the run's outcome stays what it was     *)
(* when the run settled.                                                   *)
THEOREM SettledStaysCorrect == Spec => SettledStays
<1>1. TypeOK /\ Steady /\ SettledInv /\ [Next]_vars =>
        [\A r \in Runs : cache[r] # Nil /\ cache[r].status \in Settled =>
           cache'[r].status = cache[r].status]_vars
  BY StepSettled DEF IsSettled
<1>2. QED
  BY <1>1, SteadyCorrect, SettledInvariant, PTL DEF Spec, SettledStays

-----------------------------------------------------------------------------
(* What every record says of where it belongs, whoever published it: its   *)
(* run is the run of its turn, and a span that begins says where it hangs. *)

ParentOf(s) ==
  CASE s.name = "run_started" -> Nil
    [] s.name = "turn_started" ->
         IF s.actor = Main THEN RunSpan(Main, s.turn) ELSE SubagentSpan(s.actor)
    [] s.name = "iteration_started" -> TurnSpan(s.actor, s.turn)
    [] s.name = "subagent_spawned" -> seed[s.actor].parent
    [] OTHER -> SpanOf(s.actor, "iteration_started", s.turn, s.iter, 0)

StartSound(x) ==
  LET s == x.span
  IN /\ s \in Spans /\ x.name = s.name /\ x.parent = ParentOf(s)
     /\ s.name = "turn_started" => s = TurnSpan(s.actor, s.turn) /\ x.iter = 0
     /\ s.name = "iteration_started" =>
          /\ s = SpanOf(s.actor, "iteration_started", s.turn, s.iter, 0)
          /\ x.iter = s.iter /\ x.iter > 0
     /\ s.name = "subagent_spawned" => s.actor # Main /\ seed[s.actor] # Nil
     /\ s.name # "subagent_spawned" => x.turn = <<s.actor, s.turn>>

Sound(x) ==
  /\ x.run = RunOf(x.turn)
  /\ x.turn[1] # Main => seed[x.turn[1]] # Nil
  /\ x.kind = "start" => StartSound(x)

AllSound ==
  /\ \A s \in stored : Sound(s.line.record)
  /\ \A a \in Actors : \A x \in Pending(a) : Sound(x)

(* A seed stays what it is, and with it what the records say.              *)
SeedsKept == \A a \in Actors : seed[a] # Nil => seed'[a] = seed[a]

(* Seeds are never changed, so a sound record stays sound.                 *)
LEMMA SoundKept ==
  ASSUME SeedsKept, seed[Main] = Nil, seed'[Main] = Nil, NEW x \in Records, Sound(x)
  PROVE  Sound(x)'
<1>1. x.turn[1] \in Actors
  BY DEF Records, TurnIds
<1>2. x.run = RunOf(x.turn) /\ (x.turn[1] # Main => seed[x.turn[1]] # Nil)
  BY DEF Sound
<1>3. RunOf(x.turn)' = RunOf(x.turn)
  BY <1>1, <1>2 DEF SeedsKept, RunOf
<1>4. x.turn[1] # Main => seed'[x.turn[1]] # Nil
  BY <1>1, <1>2 DEF SeedsKept
<1>5. ASSUME StartSound(x) PROVE StartSound(x)'
  <2>1. x.span \in Spans /\ x.span.actor \in Actors
    BY <1>5 DEF StartSound, Spans
  <2>2. x.span.name = "subagent_spawned" => seed'[x.span.actor] = seed[x.span.actor]
    BY <1>5, <2>1 DEF StartSound, SeedsKept
  <2>3. ParentOf(x.span)' = ParentOf(x.span)
    BY <2>2 DEF ParentOf, RunSpan, TurnSpan, SpanOf, SubagentSpan
  <2>4. QED
    BY <1>5, <2>2, <2>3 DEF StartSound, TurnSpan, SpanOf
<1>6. QED
  BY <1>2, <1>3, <1>4, <1>5 DEF Sound

(* The records of a turn, and of the place a seed names.                   *)
LEMMA OwnSound ==
  ASSUME TypeOK, Steady, NEW a \in Actors, NEW x, Own(a, x), x.kind # "start"
  PROVE  Sound(x)
<1>1. SteadyAt(a) /\ "unborn" \notin StepPlaces
  BY DEF Steady, StepPlaces
<1>2. CASE at[a] \in StepPlaces /\ x.run = RunOf(<<a, turn[a]>>) /\ x.turn = <<a, turn[a]>>
  <2>1. a # Main => seed[a] # Nil
    BY <1>1, <1>2 DEF SteadyAt
  <2>2. x.turn[1] = a
    BY <1>2
  <2>3. QED
    BY <1>2, <2>1, <2>2 DEF Sound
<1>3. CASE a # Main /\ seed[a] # Nil /\ x.run = seed[a].place.run /\ x.turn = seed[a].place.turn
  <2>1. SeedFits(seed[a])
    BY <1>1, <1>3 DEF SteadyAt
  <2>2. QED
    BY <1>3, <2>1 DEF Sound, SeedFits, RunOf
<1>4. QED
  BY <1>2, <1>3 DEF Own

(* Remarks are sound.                                                      *)
LEMMA RemarkedSound ==
  ASSUME TypeOK, Steady, NEW a \in Actors, NEW s \in Remarked(a), NEW x \in Elems(s)
  PROVE  Sound(x)
BY OwnSound DEF Remarked, Remark

(* What finish_active_trace publishes.                                     *)
LEMMA ClosingElems ==
  ASSUME TypeOK, Steady, NEW a \in Actors, at[a] \in StepPlaces, NEW name \in OutcomeNames
  PROVE  /\ Closing(a, name) \in Seq(Records)
         /\ \A x \in Elems(Closing(a, name)) :
              /\ x.kind = "end" /\ x.turn = <<a, turn[a]>> /\ x.run = RunOf(<<a, turn[a]>>)
              /\ x.iter = 0
         /\ \E x \in Elems(Closing(a, name)) : x.span = TurnSpan(a, turn[a])
         /\ a = Main => \E x \in Elems(Closing(a, name)) : x.span = RunSpan(a, turn[a])
<1>1. active[a] # Nil /\ LoopTypes
  BY DEF Steady, SteadyAt, TypeOK
<1>2. /\ Place(a) = [run |-> RunOf(<<a, turn[a]>>), turn |-> <<a, turn[a]>>,
                     iter |-> iter[a], task |-> <<a, turn[a]>>]
      /\ Place(a) \in Places /\ active[a].turnSpan = TurnSpan(a, turn[a])
      /\ active[a].turnSpan \in Spans /\ TurnParent(a) \in Spans
      /\ active[a].runSpan = IF a = Main THEN RunSpan(a, turn[a]) ELSE Nil
  BY <1>1, Standing
<1>3. RunSpan(a, turn[a]) \in Spans /\ RunSpan(a, turn[a]) # Nil
  BY <1>1, SpanTypes, TraceAssumption
<1>4. name \in RecordNames /\ "turn_finished" \in RecordNames
  BY DEF OutcomeNames, RecordNames
<1> DEFINE e == End(Whole(Place(a)), "turn_finished", active[a].turnSpan, TurnParent(a))
           f == End(Whole(Place(a)), name, RunSpan(a, turn[a]), Nil)
           u == <<e>>
           v == <<f>>
<1>5. Whole(Place(a)) \in Places
  BY <1>2, <1>4, RecordTypes
<1>6. e \in Records /\ f \in Records
  BY <1>2, <1>3, <1>4, <1>5, RecordTypes
<1>7. /\ e.kind = "end" /\ e.turn = <<a, turn[a]>> /\ e.run = RunOf(<<a, turn[a]>>) /\ e.iter = 0
      /\ f.kind = "end" /\ f.turn = <<a, turn[a]>> /\ f.run = RunOf(<<a, turn[a]>>) /\ f.iter = 0
      /\ e.span = TurnSpan(a, turn[a]) /\ f.span = RunSpan(a, turn[a])
  BY <1>2 DEF End, Record, Whole
<1> HIDE DEF e, f
<1>8. u \in Seq(Records) /\ Elems(u) = {e} /\ v \in Seq(Records) /\ Elems(v) = {f}
  BY <1>6, ElemsOf
<1>9. Closing(a, name) = u \o IF a = Main THEN v ELSE <<>>
  BY <1>2, <1>3 DEF Closing, e, f
<1> HIDE DEF u, v
<1>10. CASE a = Main
  <2>1. Closing(a, name) \in Seq(Records) /\ Elems(Closing(a, name)) = {e} \cup {f}
    BY <1>8, <1>9, <1>10, Joined
  <2>2. QED
    BY <1>7, <2>1
<1>11. CASE a # Main
  <2>1. <<>> \in Seq(Records) /\ Elems(<<>>) = {}
    BY ElemsOf
  <2>2. Closing(a, name) \in Seq(Records) /\ Elems(Closing(a, name)) = {e} \cup {}
    BY <1>8, <1>9, <1>11, <2>1, Joined
  <2>3. QED
    BY <1>7, <1>11, <2>2
<1>12. QED
  BY <1>10, <1>11

(* The records of a turn that ends.                                        *)
LEMMA SettlesElems ==
  ASSUME TypeOK, Steady, NEW a \in Actors, Settles(a)
  PROVE  \E before, after \in Remarked(a), name \in OutcomeNames :
           Elems(queue'[a]) = Elems(before) \cup Elems(Closing(a, name)) \cup Elems(after)
<1>1. PICK before \in Remarked(a), after \in Remarked(a), name \in OutcomeNames :
        queue'[a] = before \o Closing(a, name) \o after
  BY DEF Settles
<1>2. Closing(a, name) \in Seq(Records)
  BY ClosingElems DEF Settles
<1>3. before \in Seq(Records) /\ after \in Seq(Records)
  BY DEF Remarked
<1>4. /\ before \o Closing(a, name) \in Seq(Records)
      /\ Elems(before \o Closing(a, name)) = Elems(before) \cup Elems(Closing(a, name))
  BY <1>2, <1>3, Joined
<1>5. Elems(queue'[a]) = Elems(before) \cup Elems(Closing(a, name)) \cup Elems(after)
  BY <1>1, <1>3, <1>4, Joined
<1>6. QED
  BY <1>5

(* The record of a span that is opened in a turn.                          *)
LEMMA OpensElems ==
  ASSUME TypeOK, Steady, NEW a \in Actors, NEW span, NEW parent, NEW i,
         Opens(a, span, parent, i)
  PROVE  /\ Elems(queue'[a]) # {}
         /\ \A x \in Elems(queue'[a]) :
              /\ x.kind = "start" /\ x.name = span.name
              /\ x.span = span /\ x.parent = parent /\ x.turn = <<a, turn[a]>>
              /\ x.run = RunOf(<<a, turn[a]>>) /\ x.iter = i
<1> DEFINE x == Start([Place(a) EXCEPT !.iter = i], span, parent)
<1>1. active[a] # Nil /\ LoopTypes /\ i \in Nat /\ span \in Spans /\ parent \in Spans
      /\ queue'[a] = <<x>> /\ queue'[a] \in Seq(Records)
  BY DEF Opens, Silent, Steady, SteadyAt, TypeOK
<1>2. /\ Place(a) = [run |-> RunOf(<<a, turn[a]>>), turn |-> <<a, turn[a]>>,
                     iter |-> iter[a], task |-> <<a, turn[a]>>]
      /\ Place(a) \in Places
  BY <1>1, Standing
<1>3. "llm_error" \in RecordNames
  BY DEF RecordNames
<1>4. x \in Records
  <2>1. [Place(a) EXCEPT !.iter = i] \in Places
    BY <1>1, <1>2, <1>3, RecordTypes
  <2>2. QED
    BY <1>1, <1>3, <2>1, RecordTypes
<1>5. /\ x.kind = "start" /\ x.name = span.name
      /\ x.span = span /\ x.parent = parent /\ x.turn = <<a, turn[a]>>
      /\ x.run = RunOf(<<a, turn[a]>>) /\ x.iter = i
  BY <1>2 DEF Start, Record
<1> HIDE DEF x
<1>6. Elems(<<x>>) = {x}
  BY <1>4, ElemsOf
<1>7. QED
  BY <1>1, <1>4, <1>5, <1>6

(* So is a span that is opened in the turn.                                *)
LEMMA OpensSound ==
  ASSUME TypeOK, Steady, NEW a \in Actors, OpensOwn(a), NEW x \in Elems(queue'[a])
  PROVE  Sound(x)
<1>1. LoopTypes /\ at[a] \in StepPlaces /\ SteadyAt(a) /\ "unborn" \notin StepPlaces
      /\ iter[a] \in Nat /\ turn[a] \in Nat /\ attempt[a] \in Nat
  BY DEF OpensOwn, Opens, TypeOK, Steady, StepPlaces, LoopTypes
<1>2. a # Main => seed[a] # Nil
  BY <1>1 DEF SteadyAt
<1>3. /\ IterSpan(a) = SpanOf(a, "iteration_started", turn[a], iter[a], 0)
      /\ ToolSpan(a) = SpanOf(a, "tool_started", turn[a], iter[a], 0)
      /\ \A name \in SpanNames, t, i, k \in Nat : SpanOf(a, name, t, i, k) \in Spans
  BY <1>1, SpanTypes
<1>4. PICK span, parent, i :
        /\ Opens(a, span, parent, i)
        /\ \/ /\ span = SpanOf(a, "iteration_started", turn[a], iter[a] + 1, 0)
              /\ parent = TurnSpan(a, turn[a]) /\ i = iter[a] + 1
           \/ /\ span = SpanOf(a, "llm_request_started", turn[a], iter[a], attempt[a] + 1)
              /\ parent = IterSpan(a) /\ i = iter[a]
           \/ span = ToolSpan(a) /\ parent = IterSpan(a) /\ i = iter[a]
  BY DEF OpensOwn
<1>5. /\ x.kind = "start" /\ x.name = span.name
      /\ x.span = span /\ x.parent = parent /\ x.turn = <<a, turn[a]>>
      /\ x.run = RunOf(<<a, turn[a]>>) /\ x.iter = i
  <2>1. Opens(a, span, parent, i)
    BY <1>4
  <2>2. QED
    BY <2>1, OpensElems
<1>6. span.actor = a /\ span.turn = turn[a] /\ span \in Spans /\ i > 0
      /\ span.name # "subagent_spawned" /\ span.name # "turn_started" /\ span.name # "run_started"
  BY <1>1, <1>3, <1>4 DEF SpanOf, Opens
<1>7. span.name = "iteration_started" =>
        span = SpanOf(a, "iteration_started", turn[a], iter[a] + 1, 0) /\ i = span.iter
        /\ parent = TurnSpan(a, turn[a])
  BY <1>1, <1>3, <1>4 DEF SpanOf
<1>8. span.name # "iteration_started" =>
        span.iter = iter[a] /\ parent = SpanOf(a, "iteration_started", turn[a], iter[a], 0)
  BY <1>1, <1>3, <1>4 DEF SpanOf
<1>9. parent = ParentOf(span)
  BY <1>6, <1>7, <1>8 DEF ParentOf
<1>10. span.name = "iteration_started" =>
         span = SpanOf(span.actor, "iteration_started", span.turn, span.iter, 0)
  BY <1>7 DEF SpanOf
<1>11. StartSound(x)
  BY <1>5, <1>6, <1>7, <1>9, <1>10 DEF StartSound
<1>12. <<a, turn[a]>>[1] = a
  OBVIOUS
<1>13. QED
  BY <1>2, <1>5, <1>11, <1>12 DEF Sound

(* The records that begin a turn.                                          *)
LEMMA BeginsElems ==
  ASSUME TypeOK, Steady, NEW a \in Actors, Begins(a, turn[a] + 1)
  PROVE  \E x, y \in Records :
           /\ Elems(queue'[a]) = {x, y} /\ (a # Main => x = y)
           /\ \A z \in {x, y} : /\ z.kind = "start" /\ z.turn = <<a, turn[a] + 1>>
                                /\ z.run = RunOf(<<a, turn[a] + 1>>) /\ z.iter = 0
                                /\ z.name = z.span.name
           /\ y.span = TurnSpan(a, turn[a] + 1)
           /\ y.parent = IF a = Main THEN RunSpan(a, turn[a] + 1) ELSE SubagentSpan(a)
           /\ a = Main => x.span = RunSpan(a, turn[a] + 1) /\ x.parent = Nil
<1> DEFINE t == turn[a] + 1
           e == Start(TurnPlace(a, t), RunSpan(a, t), Nil)
           f == Start(TurnPlace(a, t), TurnSpan(a, t), RunSpan(a, t))
           g == Start(TurnPlace(a, t), TurnSpan(a, t), SubagentSpan(a))
           u == <<e>>
           v == <<f>>
           w == <<g>>
<1>1. queue'[a] = IF a = Main THEN u \o v ELSE w
  BY DEF Begins, Silent
<1>2. /\ \A z \in {e, f, g} : /\ z.kind = "start" /\ z.turn = <<a, t>>
                              /\ z.run = RunOf(<<a, t>>) /\ z.iter = 0 /\ z.name = z.span.name
      /\ e.span = RunSpan(a, t) /\ e.parent = Nil
      /\ f.span = TurnSpan(a, t) /\ f.parent = RunSpan(a, t)
      /\ g.span = TurnSpan(a, t) /\ g.parent = SubagentSpan(a)
  BY DEF Start, Record, RunSpan, TurnSpan, SpanOf, TurnPlace
<1>3. t \in Nat /\ LoopTypes /\ TurnPlace(a, t) \in Places /\ "llm_error" \in RecordNames
  BY DEF TypeOK, LoopTypes, Begins, RecordNames
<1>4. e \in Records /\ f \in Records /\ g \in Records
  BY <1>3, SpanTypes, RecordTypes
<1> HIDE DEF e, f, g, t
<1>5. /\ u \in Seq(Records) /\ Elems(u) = {e} /\ v \in Seq(Records) /\ Elems(v) = {f}
      /\ w \in Seq(Records) /\ Elems(w) = {g}
  BY <1>4, ElemsOf
<1> HIDE DEF u, v, w
<1>6. CASE a = Main
  <2>1. Elems(queue'[a]) = {e} \cup {f}
    BY <1>1, <1>5, <1>6, Joined
  <2>2. Elems(queue'[a]) = {e, f}
    BY <2>1
  <2>3. QED
    BY <1>2, <1>4, <1>6, <2>2 DEF t
<1>7. CASE a # Main
  <2>1. Elems(queue'[a]) = {g, g}
    BY <1>1, <1>5, <1>7
  <2>2. QED
    BY <1>2, <1>4, <1>7, <2>1 DEF t
<1>8. QED
  BY <1>6, <1>7

(* They are sound.                                                         *)
LEMMA BeginsSound ==
  ASSUME TypeOK, Steady, NEW a \in Actors, Begins(a, turn[a] + 1), NEW z \in Elems(queue'[a])
  PROVE  Sound(z)
<1> DEFINE t == turn[a] + 1
<1>1. PICK x \in Records, y \in Records :
        /\ Elems(queue'[a]) = {x, y} /\ (a # Main => x = y)
        /\ \A s \in {x, y} : /\ s.kind = "start" /\ s.turn = <<a, t>>
                             /\ s.run = RunOf(<<a, t>>) /\ s.iter = 0
                             /\ s.name = s.span.name
        /\ y.span = TurnSpan(a, t)
        /\ y.parent = IF a = Main THEN RunSpan(a, t) ELSE SubagentSpan(a)
        /\ a = Main => x.span = RunSpan(a, t) /\ x.parent = Nil
  BY BeginsElems
<1>2. t \in Nat /\ LoopTypes /\ SteadyAt(a)
  BY DEF TypeOK, LoopTypes, Steady
<1>3. a # Main => seed[a] # Nil
  BY <1>2 DEF Begins, SteadyAt
<1>4. RunSpan(a, t) \in Spans /\ TurnSpan(a, t) \in Spans
  BY <1>2, SpanTypes
<1> HIDE DEF t
<1>5. StartSound(y)
  <2>1. /\ y.span.name = "turn_started" /\ y.span.actor = a /\ y.span.turn = t
    BY <1>1 DEF TurnSpan, SpanOf
  <2>2. y.parent = ParentOf(y.span)
    BY <1>1, <2>1 DEF ParentOf
  <2>3. QED
    BY <1>1, <1>4, <2>1, <2>2 DEF StartSound
<1>6. a = Main => StartSound(x)
  <2>1. SUFFICES ASSUME a = Main PROVE StartSound(x)
    OBVIOUS
  <2>2. /\ x.span.name = "run_started" /\ x.span.actor = a /\ x.span.turn = t
    BY <1>1, <2>1 DEF RunSpan, SpanOf
  <2>3. x.parent = ParentOf(x.span)
    BY <1>1, <2>1, <2>2 DEF ParentOf
  <2>4. QED
    BY <1>1, <1>4, <2>1, <2>2, <2>3 DEF StartSound
<1>7. <<a, t>>[1] = a
  OBVIOUS
<1>8. QED
  BY <1>1, <1>3, <1>5, <1>6, <1>7 DEF Sound

(* The record of a job's span.                                             *)
LEMMA SpawnsElems ==
  ASSUME TypeOK, Steady, NEW j \in 1..Jobs, Spawns(j)
  PROVE  \E x \in Records :
           /\ Elems(queue'[Main]) = {x} /\ x.kind = "start" /\ x.name = "subagent_spawned"
           /\ x.span = SubagentSpan(j) /\ x.parent = ToolSpan(Main)
           /\ x.turn = <<Main, turn[Main]>> /\ x.run = turn[Main] /\ x.iter = iter[Main]
<1> DEFINE x == Start(Place(Main), SubagentSpan(j), ToolSpan(Main))
<1>1. /\ queue'[Main] = <<x>> /\ LoopTypes /\ active[Main] # Nil /\ Main \in Actors /\ j \in Actors
  BY ActorFacts DEF Spawns, Steady, SteadyAt, StepPlaces, TypeOK
<1>2. /\ Place(Main) = [run |-> RunOf(<<Main, turn[Main]>>), turn |-> <<Main, turn[Main]>>,
                        iter |-> iter[Main], task |-> <<Main, turn[Main]>>]
      /\ Place(Main) \in Places /\ "llm_error" \in RecordNames
      /\ ToolSpan(Main) \in Spans /\ SubagentSpan(j) \in Spans
  BY <1>1, Standing, SpanTypes DEF RecordNames
<1>3. x \in Records
  BY <1>2, RecordTypes
<1>4. /\ x.kind = "start" /\ x.name = "subagent_spawned"
      /\ x.span = SubagentSpan(j) /\ x.parent = ToolSpan(Main)
      /\ x.turn = <<Main, turn[Main]>> /\ x.run = turn[Main] /\ x.iter = iter[Main]
  BY <1>2 DEF Start, Record, SubagentSpan, RunOf
<1> HIDE DEF x
<1>5. Elems(<<x>>) = {x}
  BY <1>3, ElemsOf
<1>6. QED
  BY <1>1, <1>3, <1>4, <1>5

(* It is sound.                                                            *)
LEMMA SpawnsSound ==
  ASSUME TypeOK, Steady, NEW j \in 1..Jobs, Spawns(j), NEW x \in Elems(queue'[Main])
  PROVE  Sound(x)'
<1>1. /\ x \in Records /\ x.kind = "start" /\ x.name = "subagent_spawned"
      /\ x.span = SubagentSpan(j) /\ x.parent = ToolSpan(Main)
      /\ x.turn = <<Main, turn[Main]>> /\ x.run = turn[Main]
  BY SpawnsElems
<1>2. /\ j \in Actors /\ j # Main /\ LoopTypes /\ SubagentSpan(j) \in Spans
      /\ seed'[j] = [place |-> Place(Main), parent |-> ToolSpan(Main)] /\ seed'[j] \in Seeds
  BY ActorFacts, SpanTypes DEF Spawns, TypeOK
<1>3. x.span.name = "subagent_spawned" /\ x.span.actor = j
  BY <1>1 DEF SubagentSpan
<1>4. ParentOf(x.span)' = seed'[j].parent
  BY <1>3 DEF ParentOf
<1>5. seed'[j].parent = x.parent /\ seed'[j] # Nil
  BY <1>1, <1>2, TraceAssumption
<1>6. StartSound(x)'
  BY <1>1, <1>2, <1>3, <1>4, <1>5 DEF StartSound
<1>7. RunOf(x.turn)' = turn[Main] /\ x.turn[1] = Main
  BY <1>1 DEF RunOf
<1>8. QED
  BY <1>1, <1>6, <1>7 DEF Sound

(* A move keeps what was said, and what it says is sound.                  *)
LEMMA MoveSound ==
  ASSUME TypeOK, Steady, AllSound, NEW a \in Actors,
         \/ Acts(a) \/ Begins(a, turn[a] + 1)
         \/ a = Main /\ \E j \in 1..Jobs : Spawns(j)
  PROVE  AllSound' /\ SeedsKept
<1>1. SeedsKept /\ seed[Main] = Nil /\ seed'[Main] = Nil
  <2>1. seed[Main] = Nil
    BY ActorFacts DEF Steady, SteadyAt
  <2>2. seed' = seed \/ \E j \in 1..Jobs : Spawns(j)
    BY DEF Acts, Remarks, Settles, OpensOwn, Opens, Begins
  <2>3. ASSUME NEW j \in 1..Jobs, Spawns(j) PROVE SeedsKept /\ seed'[Main] = Nil
    <3>1. seed' = [seed EXCEPT ![j] = seed'[j]] /\ seed[j] = Nil /\ j # Main
      BY <2>3, ActorFacts DEF Spawns, OnlyLoop
    <3>2. \A b \in Actors : b # j => seed'[b] = seed[b]
      BY <3>1 DEF TypeOK, LoopTypes
    <3>3. QED
      BY <2>1, <3>1, <3>2, ActorFacts DEF SeedsKept
  <2>4. QED
    BY <2>1, <2>2, <2>3 DEF SeedsKept
<1>2. /\ Pending(a)' = Elems(queue'[a]) /\ queue'[a] \in Seq(Records)
      /\ \A c \in Actors : c # a => Pending(c)' = Pending(c)
  <2>1. CASE Acts(a) \/ Begins(a, turn[a] + 1)
    BY <2>1, ActsPending
  <2>2. CASE a = Main /\ \E j \in 1..Jobs : Spawns(j)
    BY <2>2, ActsPending, ActorFacts
  <2>3. QED
    BY <2>1, <2>2
<1>3. stored' = stored
  BY BusLeftAlone
<1>4. \A c \in Actors : Pending(c) \subseteq Records
  BY DEF Pending, Elems, TypeOK, BusTypes
<1>5. stored \subseteq [line : [id : Actors \X Nat, record : Records], indexed : BOOLEAN]
  BY DEF TypeOK, BusTypes
<1>6. ASSUME NEW x \in Elems(queue'[a]) PROVE Sound(x)'
  <2>1. x \in Records
    BY <1>2 DEF Elems
  <2>2. CASE a = Main /\ \E j \in 1..Jobs : Spawns(j)
    BY <2>2, SpawnsSound
  <2>3. CASE Remarks(a)
    <3>1. Sound(x)
      BY <2>3, RemarkedSound DEF Remarks
    <3>2. QED
      BY <1>1, <2>1, <3>1, SoundKept
  <2>4. CASE Settles(a)
    <3>1. PICK before \in Remarked(a), after \in Remarked(a), name \in OutcomeNames :
            Elems(queue'[a]) = Elems(before) \cup Elems(Closing(a, name)) \cup Elems(after)
      BY <2>4, SettlesElems
    <3>2. at[a] \in StepPlaces /\ (a # Main => seed[a] # Nil)
      BY <2>4 DEF Settles, Steady, SteadyAt, StepPlaces
    <3>3. CASE x \in Elems(Closing(a, name))
      <4>1. x.kind = "end" /\ x.turn = <<a, turn[a]>> /\ x.run = RunOf(<<a, turn[a]>>)
        BY <3>2, <3>3, ClosingElems
      <4>2. Sound(x)
        BY <3>2, <4>1 DEF Sound
      <4>3. QED
        BY <1>1, <2>1, <4>2, SoundKept
    <3>4. CASE x \notin Elems(Closing(a, name))
      <4>1. Sound(x)
        BY <3>1, <3>4, RemarkedSound
      <4>2. QED
        BY <1>1, <2>1, <4>1, SoundKept
    <3>5. QED
      BY <3>3, <3>4
  <2>5. CASE OpensOwn(a)
    BY <1>1, <2>1, <2>5, OpensSound, SoundKept
  <2>6. CASE Begins(a, turn[a] + 1)
    BY <1>1, <2>1, <2>6, BeginsSound, SoundKept
  <2>7. QED
    BY <2>2, <2>3, <2>4, <2>5, <2>6 DEF Acts
<1>7. ASSUME NEW c \in Actors, NEW x \in Pending(c)' PROVE Sound(x)'
  <2>1. CASE c = a
    BY <1>2, <1>6, <1>7, <2>1
  <2>2. CASE c # a
    <3>1. x \in Pending(c) /\ x \in Records
      BY <1>2, <1>4, <1>7, <2>2
    <3>2. Sound(x)
      BY <3>1 DEF AllSound
    <3>3. QED
      BY <1>1, <3>1, <3>2, SoundKept
  <2>3. QED
    BY <2>1, <2>2
<1>8. ASSUME NEW s \in stored' PROVE Sound(s.line.record)'
  <2>1. PICK x \in Records : x = s.line.record /\ Sound(x)
    BY <1>3, <1>5, <1>8 DEF AllSound
  <2>2. Sound(x)'
    BY <1>1, <2>1, SoundKept
  <2>3. s.line.record = x
    BY <2>1
  <2>4. QED
    BY <2>2, <2>3
<1>9. AllSound'
  BY <1>7, <1>8 DEF AllSound
<1>10. QED
  BY <1>1, <1>9

(* The bus moves records and makes none.                                   *)
LEMMA BusSound ==
  ASSUME TypeOK, Steady, AllSound, NEW a \in Actors, Persist(a) \/ Count(a)
  PROVE  AllSound'
<1>1. seed' = seed
  BY PersistTypes, CountTypes DEF loopVars
<1>2. \A x : Sound(x)' <=> Sound(x)
  BY <1>1 DEF Sound, StartSound, RunOf, ParentOf, RunSpan, TurnSpan, SpanOf, SubagentSpan
<1>3. \A c \in Actors : Pending(c)' \subseteq Pending(c)
  <2>1. CASE Persist(a)
    BY <2>1, PersistPending
  <2>2. CASE Count(a)
    BY <2>2, CountTypes DEF Pending, Elems, TypeOK, BusTypes
  <2>3. QED
    BY <2>1, <2>2
<1>4. \A s \in stored' : s \in stored \/ s.line.record \in Pending(a)
  <2>1. CASE Persist(a)
    <3>1. /\ Head(queue[a]) \in Elems(queue[a])
      <4>1. queue[a] \in Seq(Records) /\ queue[a] # <<>>
        BY <2>1, PersistTypes DEF TypeOK, BusTypes
      <4>2. QED
        BY <4>1, ElemsOf
    <3>2. \A s \in stored' : s \in stored \/ s.line.record = Head(queue[a])
      <4>1. stored' = stored \/ \E ok : stored' = stored \cup {Insert(Line(a), ok)}
        BY <2>1, PersistTypes DEF Stores, Loses
      <4>2. \A ok : Insert(Line(a), ok).line.record = Head(queue[a])
        BY DEF Insert, Line
      <4>3. QED
        BY <4>1, <4>2
    <3>3. QED
      BY <3>1, <3>2 DEF Pending
  <2>2. CASE Count(a)
    BY <2>2, CountTypes
  <2>3. QED
    BY <2>1, <2>2
<1>5. QED
  BY <1>2, <1>3, <1>4 DEF AllSound

(* There are no records at first ...                                       *)
LEMMA InitSound ==
  ASSUME Init
  PROVE  AllSound
<1>1. \A a \in Actors : queue[a] = <<>> /\ publishing[a] = Nil
  BY DEF Init, LoopInit
<1>2. \A a \in Actors : Pending(a) = {}
  BY <1>1, ElemsOf DEF Pending
<1>3. QED
  BY <1>2 DEF AllSound, Init, BusInit

(* ... and every step keeps those there are sound.                         *)
LEMMA StepSound ==
  ASSUME TypeOK, Steady, AllSound, [Next]_vars
  PROVE  AllSound'
<1>1. CASE Next
  BY <1>1, StepActs, BusSound, MoveSound, ActorFacts
<1>2. CASE UNCHANGED vars
  <2>1. UNCHANGED <<stored, queue, publishing, seed>>
    BY <1>2 DEF vars, loopVars, busVars
  <2>2. \A x : Sound(x)' <=> Sound(x)
    BY <2>1 DEF Sound, StartSound, RunOf, ParentOf, RunSpan, TurnSpan, SpanOf, SubagentSpan
  <2>3. QED
    BY <2>1, <2>2 DEF AllSound, Pending, Elems
<1>3. QED
  BY <1>1, <1>2

(* Every record, stored or on its way, belongs to the run of its turn, and *)
(* every span that begins names as its parent the span it was opened in:   *)
(* build_record and TraceContext carry the right place across sub-agents.  *)
THEOREM RecordsSound == Spec => []AllSound
<1>1. Init => AllSound
  BY InitSound
<1>2. TypeOK /\ Steady /\ AllSound /\ [Next]_vars => AllSound'
  BY StepSound
<1>3. QED
  BY <1>1, <1>2, SteadyCorrect, PTL DEF Spec

-----------------------------------------------------------------------------
(* TreeWhole.  How deep a span lies in its run is decided by what it is; a *)
(* record that begins it names the one span above it.                      *)

Level(s) ==
  CASE s.name = "run_started" -> 0
    [] s.name = "turn_started" -> IF s.actor = Main THEN 1 ELSE 5
    [] s.name = "iteration_started" -> IF s.actor = Main THEN 2 ELSE 6
    [] s.name = "subagent_spawned" -> 4
    [] OTHER -> IF s.actor = Main THEN 3 ELSE 7

(* A span hangs below its parent, at a bounded level.                      *)
LEMMA LevelOf ==
  ASSUME TypeOK, Steady, NEW s \in Spans,
         s.name = "subagent_spawned" => s.actor # Main /\ seed[s.actor] # Nil
  PROVE  /\ Level(s) \in 0..Depth
         /\ ParentOf(s) # Nil => Level(s) > 0 /\ Level(ParentOf(s)) = Level(s) - 1
<1>1. Level(s) \in 0..Depth
  BY DEF Level, Depth
<1>2. s.actor \in Actors
  BY DEF Spans
<1>3. CASE s.name = "run_started"
  BY <1>1, <1>3 DEF ParentOf
<1>4. CASE s.name = "turn_started"
  BY <1>1, <1>4 DEF ParentOf, Level, RunSpan, SpanOf, SubagentSpan
<1>5. CASE s.name = "iteration_started"
  BY <1>1, <1>5 DEF ParentOf, Level, TurnSpan, SpanOf
<1>6. CASE s.name = "subagent_spawned"
  <2>1. seed[s.actor].parent.name = "tool_started" /\ seed[s.actor].parent.actor = Main
    <3>1. SteadyAt(s.actor) /\ seed[s.actor] # Nil
      BY <1>2, <1>6 DEF Steady
    <3>2. SeedFits(seed[s.actor])
      BY <3>1 DEF SteadyAt
    <3>3. QED
      BY <3>2 DEF SeedFits, SpanOf
  <2>2. QED
    BY <1>1, <1>6, <2>1 DEF ParentOf, Level
<1>7. CASE s.name \in {"llm_request_started", "tool_started"}
  BY <1>1, <1>7 DEF ParentOf, Level, SpanOf
<1>8. QED
  BY <1>3, <1>4, <1>5, <1>6, <1>7 DEF Spans, SpanNames

(* Shown is defined by recursion on the depth: such a function exists, and *)
(* is what its equation says.                                              *)
SpansOf(nodes) == {n.span : n \in nodes}

TimesAt(nodes, roots, d, f) ==
  [p \in SpansOf(nodes) |->
     (IF p \in roots THEN 1 ELSE 0)
     + IF d = 0 \/ Above(nodes, p) \cap SpansOf(nodes) = {} THEN 0
       ELSE f[d - 1][CHOOSE q \in Above(nodes, p) : TRUE]]

Solves(nodes, roots, n, f) == f = [d \in 0..n |-> TimesAt(nodes, roots, d, f)]

Times(nodes, roots) == CHOOSE f : Solves(nodes, roots, Depth, f)

(* Shown is the value of such a function, if there is one.                 *)
LEMMA ShownTimes ==
  ASSUME NEW nodes, NEW roots, NEW span
  PROVE  Shown(nodes, roots, span) = Times(nodes, roots)[Depth][span]
BY DEF Shown, Times, TimesAt, SpansOf, Solves

(* Induction over the natural numbers, for a set.                          *)
LEMMA SetInduction ==
  ASSUME NEW S, S \subseteq Nat, 0 \in S, \A n \in Nat : n \in S => n + 1 \in S
  PROVE  S = Nat
<1> DEFINE R == {ss \in Nat \X Nat : ss[1] < ss[2]}
           T == Nat \ S
<1> SUFFICES ASSUME T # {} PROVE FALSE
  OBVIOUS
<1>1. IsWellFoundedOn(R, Nat)
  BY NatLessThanWellFounded DEF OpToRel
<1> HIDE DEF R
<1>2. PICK m \in T : \A k \in T : ~(<<k, m>> \in R)
  BY <1>1, WFMin
<1>3. \A k \in T : ~(k < m)
  BY <1>2 DEF R
<1>4. m - 1 \in Nat /\ m - 1 \in S
  BY <1>3
<1>5. QED
  BY <1>4

(* There is one.                                                           *)
LEMMA TimesExists ==
  ASSUME NEW nodes, NEW roots
  PROVE  Solves(nodes, roots, Depth, Times(nodes, roots))
<1> DEFINE S == {n \in Nat : \E f : Solves(nodes, roots, n, f)}
<1>1. 0 \in S
  <2> DEFINE f == [d \in 0..0 |-> TimesAt(nodes, roots, d, <<>>)]
  <2>1. \A d \in 0..0 : TimesAt(nodes, roots, d, <<>>) = TimesAt(nodes, roots, d, f)
    BY DEF TimesAt
  <2>2. f = [d \in 0..0 |-> TimesAt(nodes, roots, d, f)]
    BY <2>1
  <2> HIDE DEF f
  <2>3. QED
    BY <2>2 DEF Solves
<1>2. ASSUME NEW n \in Nat, n \in S PROVE n + 1 \in S
  <2>1. PICK f : Solves(nodes, roots, n, f)
    BY <1>2
  <2> DEFINE g == [d \in 0..(n + 1) |-> IF d <= n THEN f[d] ELSE TimesAt(nodes, roots, d, f)]
  <2>2. \A d \in 0..(n + 1) : d # 0 => d - 1 \in 0..(n + 1) /\ d - 1 <= n /\ d - 1 \in 0..n
    OBVIOUS
  <2>3. \A d \in 0..(n + 1) : d # 0 => g[d - 1] = f[d - 1]
    BY <2>2
  <2> HIDE DEF g
  <2>4. \A d \in 0..(n + 1) : TimesAt(nodes, roots, d, g) = TimesAt(nodes, roots, d, f)
    BY <2>3 DEF TimesAt
  <2>5. \A d \in 0..n : f[d] = TimesAt(nodes, roots, d, f)
    BY <2>1 DEF Solves
  <2>6. \A d \in 0..(n + 1) : d <= n => d \in 0..n
    OBVIOUS
  <2>7. g = [d \in 0..(n + 1) |-> TimesAt(nodes, roots, d, g)]
    BY <2>4, <2>5, <2>6 DEF g
  <2>8. Solves(nodes, roots, n + 1, g)
    BY <2>7 DEF Solves
  <2>9. QED
    BY <2>8
<1> HIDE DEF S
<1>3. S = Nat
  <2>1. S \subseteq Nat
    BY DEF S
  <2>2. QED
    BY <1>1, <1>2, <2>1, SetInduction
<1>4. PICK f : Solves(nodes, roots, Depth, f)
  BY <1>3 DEF S, Depth
<1>5. QED
  BY <1>4 DEF Times

(* What is read of a run is sound.                                         *)
LEMMA NodesSound ==
  ASSUME TypeOK, AllSound, NEW r \in Runs, NEW n \in GetRecords(r)
  PROVE  n \in Records /\ Sound(n) /\ n.run = r
<1>1. PICK s \in stored : n = s.line.record /\ s.line.record.run = r
  BY DEF GetRecords, Indexed, Filed
<1>2. s.line.record \in Records
  BY DEF TypeOK, BusTypes
<1>3. QED
  BY <1>1, <1>2 DEF AllSound

(* Sound records make a whole tree: every span is counted once from the    *)
(* root its chain of parents leads to.                                     *)
LEMMA TreeOf ==
  ASSUME TypeOK, Steady, AllSound
  PROVE  TreeWhole
<1> SUFFICES ASSUME NEW r \in Runs, NEW node \in Nodes(r)
             PROVE  Shown(Nodes(r), Roots(r), node.span) = 1
  BY DEF TreeWhole
<1> DEFINE nodes == Nodes(r)
           roots == Roots(r)
           spans == SpansOf(nodes)
           f == Times(nodes, roots)
<1>1. ASSUME NEW n \in nodes
      PROVE  /\ n.span \in Spans /\ n.parent = ParentOf(n.span)
             /\ n.span.name = "subagent_spawned" => n.span.actor # Main /\ seed[n.span.actor] # Nil
  BY NodesSound DEF Nodes, Sound, StartSound
<1>2. ASSUME NEW p \in spans
      PROVE  /\ p \in Spans /\ p # Nil /\ Above(nodes, p) = {ParentOf(p)}
             /\ p.name = "subagent_spawned" => p.actor # Main /\ seed[p.actor] # Nil
  <2>1. PICK n \in nodes : n.span = p
    BY DEF SpansOf
  <2>2. Above(nodes, p) = {ParentOf(p)}
    BY <1>1, <2>1 DEF Above
  <2>3. QED
    BY <1>1, <2>1, <2>2, TraceAssumption
<1>3. ASSUME NEW p \in spans
      PROVE  p \in roots <=> ParentOf(p) \notin spans
  <2>1. roots = {n.span : n \in {n \in nodes : n.parent = Nil \/ n.parent \notin spans}}
    BY DEF Roots, SpansOf
  <2>2. Nil \notin spans
    BY <1>2
  <2>3. p \in roots => ParentOf(p) \notin spans
    BY <1>1, <2>1, <2>2
  <2>4. ParentOf(p) \notin spans => p \in roots
    <3>1. PICK n \in nodes : n.span = p
      BY DEF SpansOf
    <3>2. QED
      BY <1>1, <2>1, <3>1
  <2>5. QED
    BY <2>3, <2>4
<1> HIDE DEF nodes, roots
<1>4. ASSUME NEW d \in 0..Depth, NEW p \in spans
      PROVE  f[d][p] = IF ParentOf(p) \notin spans THEN 1
                       ELSE 0 + IF d = 0 THEN 0 ELSE f[d - 1][ParentOf(p)]
  <2>1. f[d] = TimesAt(nodes, roots, d, f)
    BY TimesExists DEF Solves
  <2>2. f[d][p] = (IF p \in roots THEN 1 ELSE 0)
                  + IF d = 0 \/ Above(nodes, p) \cap spans = {} THEN 0
                    ELSE f[d - 1][CHOOSE q \in Above(nodes, p) : TRUE]
    BY <2>1 DEF TimesAt
  <2>3. (CHOOSE q \in {ParentOf(p)} : TRUE) = ParentOf(p)
    OBVIOUS
  <2>4. CASE ParentOf(p) \notin spans
    <3>1. p \in roots /\ Above(nodes, p) \cap spans = {}
      BY <1>2, <1>3, <2>4
    <3>2. QED
      BY <2>2, <2>4, <3>1
  <2>5. CASE ParentOf(p) \in spans
    <3>1. p \notin roots /\ Above(nodes, p) \cap spans # {}
      BY <1>2, <1>3, <2>5
    <3>2. Above(nodes, p) = {ParentOf(p)}
      BY <1>2
    <3>3. f[d][p] = 0 + IF d = 0 THEN 0 ELSE f[d - 1][ParentOf(p)]
      BY <2>2, <2>3, <3>1, <3>2
    <3>4. QED
      BY <2>5, <3>3
  <2>6. QED
    BY <2>4, <2>5
<1>5. ASSUME NEW p \in spans
      PROVE  /\ Level(p) \in 0..Depth
             /\ ParentOf(p) \in spans => Level(p) > 0 /\ Level(ParentOf(p)) = Level(p) - 1
  BY <1>2, LevelOf
<1> HIDE DEF f
<1> DEFINE S == {n \in Nat : n <= Depth => \A p \in spans : Level(p) <= n => f[n][p] = 1}
<1>6. 0 \in S
  <2>1. ASSUME NEW p \in spans, Level(p) <= 0 PROVE f[0][p] = 1
    <3>1. ParentOf(p) \notin spans
      BY <1>5, <2>1
    <3>2. 0 \in 0..Depth
      BY DEF Depth
    <3>3. QED
      BY <1>4, <3>1, <3>2
  <2>2. QED
    BY <2>1
<1>7. ASSUME NEW n \in Nat, n \in S PROVE n + 1 \in S
  <2>1. SUFFICES ASSUME n + 1 <= Depth, NEW p \in spans, Level(p) <= n + 1
                 PROVE  f[n + 1][p] = 1
    OBVIOUS
  <2>2. n + 1 \in 0..Depth /\ n <= Depth /\ n + 1 # 0 /\ (n + 1) - 1 = n
    BY <2>1 DEF Depth
  <2>3. CASE ParentOf(p) \notin spans
    BY <1>4, <2>2, <2>3
  <2>4. CASE ParentOf(p) \in spans
    <3>1. Level(ParentOf(p)) <= n
      BY <1>5, <2>1, <2>4 DEF Depth
    <3>2. f[n][ParentOf(p)] = 1
      BY <1>7, <2>2, <2>4, <3>1
    <3>3. f[n + 1][p] = 0 + f[(n + 1) - 1][ParentOf(p)]
      BY <1>4, <2>2, <2>4
    <3>4. QED
      BY <2>2, <3>2, <3>3
  <2>5. QED
    BY <2>3, <2>4
<1>8. Depth \in S
  <2> HIDE DEF S
  <2>1. S \subseteq Nat
    BY DEF S
  <2>2. S = Nat
    BY <1>6, <1>7, <2>1, SetInduction
  <2>3. QED
    BY <2>2 DEF Depth
<1>9. node.span \in spans
  BY DEF nodes, SpansOf
<1>10. f[Depth][node.span] = 1
  <2>1. Level(node.span) <= Depth /\ Depth <= Depth
    BY <1>5, <1>9 DEF Depth
  <2>2. QED
    BY <1>8, <1>9, <2>1
<1>11. QED
  BY <1>10, ShownTimes DEF nodes, roots, f

(* get_tree: whatever was lost, every span whose beginning can be read is  *)
(* shown, and shown once.                                                  *)
THEOREM TreeWholeCorrect == Spec => []TreeWhole
<1>1. TypeOK /\ Steady /\ AllSound => TreeWhole
  BY TreeOf
<1>2. QED
  BY <1>1, SteadyCorrect, RecordsSound, PTL

-----------------------------------------------------------------------------
(* OverviewCounts.  As long as nothing was lost, what has been published   *)
(* of a turn or an iteration includes the record that began it.            *)

Kept == {s.line.record : s \in stored}
Everything == Kept \cup UNION {Elems(queue[a]) : a \in Actors}

StartIn(S, span) == \E x \in S : x.kind = "start" /\ x.span = span

IterOf(id, i) == SpanOf(id[1], "iteration_started", id[2], i, 0)

Opened(S, x) ==
  /\ StartIn(S, TurnSpan(x.turn[1], x.turn[2]))
  /\ x.iter # 0 => StartIn(S, IterOf(x.turn, x.iter))

(* The same of the turn and the iteration that a loop is in.               *)
Known(S, a, place, t, i, s) ==
  /\ place \in StepPlaces => StartIn(S, TurnSpan(a, t))
  /\ place \in StepPlaces \ {"guard"} => StartIn(S, IterOf(<<a, t>>, i))
  /\ s # Nil => Opened(S, s.place)

Complete ==
  failed = 0 =>
    /\ \A s \in stored : s.indexed
    /\ \A x \in Everything : Opened(Everything, x)
    /\ \A a \in Actors : Known(Everything, a, at[a], turn[a], iter[a], seed[a])

(* More records open no less.                                              *)
LEMMA OpenedMore ==
  ASSUME NEW S, NEW T, S \subseteq T
  PROVE  /\ \A span : StartIn(S, span) => StartIn(T, span)
         /\ \A x : Opened(S, x) => Opened(T, x)
<1>1. \A span : StartIn(S, span) => StartIn(T, span)
  BY DEF StartIn
<1>2. QED
  BY <1>1 DEF Opened

(* A step of a loop adds to what is published.                             *)
LEMMA MoveEverything ==
  ASSUME TypeOK, Steady, NEW a \in Actors,
         \/ Acts(a) \/ Begins(a, turn[a] + 1)
         \/ a = Main /\ \E j \in 1..Jobs : Spawns(j)
  PROVE  /\ Everything' = Everything \cup Elems(queue'[a])
         /\ Kept' = Kept /\ stored' = stored /\ failed' = failed
         /\ Elems(queue[a]) = {}
         /\ \A c \in Actors : c # a => queue'[c] = queue[c]
<1>1. /\ Pending(a) = {}
      /\ \A c \in Actors : c # a => queue'[c] = queue[c]
  <2>1. CASE Acts(a) \/ Begins(a, turn[a] + 1)
    BY <2>1, ActsPending
  <2>2. CASE a = Main /\ \E j \in 1..Jobs : Spawns(j)
    BY <2>2, ActsPending, ActorFacts
  <2>3. QED
    BY <2>1, <2>2
<1>2. stored' = stored /\ failed' = failed /\ Kept' = Kept
  <2>1. stored' = stored /\ failed' = failed
    BY BusLeftAlone
  <2>2. QED
    BY <2>1 DEF Kept
<1>3. Elems(queue[a]) = {}
  BY <1>1 DEF Pending
<1>4. \A c \in Actors : c # a => Elems(queue'[c]) = Elems(queue[c])
  BY <1>1
<1>5. Everything' = Kept \cup UNION {Elems(queue'[c]) : c \in Actors}
  BY <1>2 DEF Everything, Elems
<1>6. UNION {Elems(queue'[c]) : c \in Actors}
        = (UNION {Elems(queue[c]) : c \in Actors}) \cup Elems(queue'[a])
  <2>1. UNION {Elems(queue'[c]) : c \in Actors}
          \subseteq (UNION {Elems(queue[c]) : c \in Actors}) \cup Elems(queue'[a])
    BY <1>4
  <2>2. Elems(queue'[a]) \subseteq UNION {Elems(queue'[c]) : c \in Actors}
    OBVIOUS
  <2>3. UNION {Elems(queue[c]) : c \in Actors} \subseteq UNION {Elems(queue'[c]) : c \in Actors}
    BY <1>3, <1>4
  <2>4. QED
    BY <2>1, <2>2, <2>3
<1>7. QED
  BY <1>1, <1>2, <1>3, <1>5, <1>6 DEF Everything

(* A record that is stored was in the queue of its actor.                  *)
LEMMA PersistEverything ==
  ASSUME TypeOK, Steady, NEW a \in Actors, Persist(a), failed' = 0
  PROVE  /\ failed = 0 /\ Everything' = Everything
         /\ Kept' = Kept \cup {Head(queue[a])}
         /\ Elems(queue[a]) = {Head(queue[a])} \cup Elems(queue'[a])
         /\ \A c \in Actors : c # a => queue'[c] = queue[c]
         /\ \A s \in stored' : s \in stored \/ s.indexed
         /\ UNCHANGED loopVars
<1>1. /\ queue' = [queue EXCEPT ![a] = Tail(queue[a])] /\ queue[a] # <<>>
      /\ \/ Stores(a, TRUE) /\ failed' = failed
         \/ Stores(a, FALSE) /\ failed' = failed + 1
         \/ Loses(a)
      /\ UNCHANGED loopVars
  BY PersistTypes
<1>2. failed \in Nat /\ queue \in [Actors -> Seq(Records)]
  BY TraceAssumption DEF TypeOK, BusTypes
<1>3. Stores(a, TRUE) /\ failed = 0
  <2>1. Loses(a) => failed' = failed + 1
    BY DEF Loses
  <2>2. failed' # failed + 1
    BY <1>2
  <2>3. QED
    BY <1>1, <2>1, <2>2
<1>4. Insert(Line(a), TRUE).indexed /\ Insert(Line(a), TRUE).line.record = Head(queue[a])
  BY DEF Insert, Line
<1>5. stored' = stored \cup {Insert(Line(a), TRUE)}
  BY <1>3 DEF Stores
<1>6. Kept' = Kept \cup {Head(queue[a])}
  BY <1>4, <1>5 DEF Kept
<1>7. queue'[a] = Tail(queue[a]) /\ \A c \in Actors : c # a => queue'[c] = queue[c]
  BY <1>1, <1>2
<1>8. Elems(queue[a]) = {Head(queue[a])} \cup Elems(queue'[a])
  BY <1>1, <1>2, <1>7, ElemsOf
<1>9. Everything' = Everything
  <2>1. Everything' = Kept' \cup UNION {Elems(queue'[c]) : c \in Actors}
    BY DEF Everything, Elems
  <2>2. UNION {Elems(queue[c]) : c \in Actors}
          = {Head(queue[a])} \cup UNION {Elems(queue'[c]) : c \in Actors}
    <3>1. UNION {Elems(queue[c]) : c \in Actors}
            \subseteq {Head(queue[a])} \cup UNION {Elems(queue'[c]) : c \in Actors}
      BY <1>7, <1>8
    <3>2. UNION {Elems(queue'[c]) : c \in Actors} \subseteq UNION {Elems(queue[c]) : c \in Actors}
      BY <1>7, <1>8
    <3>3. Head(queue[a]) \in UNION {Elems(queue[c]) : c \in Actors}
      BY <1>8
    <3>4. QED
      BY <3>1, <3>2, <3>3
  <2>3. QED
    BY <1>6, <2>1, <2>2 DEF Everything
<1>10. QED
  BY <1>1, <1>3, <1>4, <1>5, <1>6, <1>7, <1>8, <1>9

(* What a loop publishes, and where it then is, has been begun.            *)
LEMMA MoveOpened ==
  ASSUME TypeOK, Steady, Complete, NEW a \in Actors, failed = 0,
         Acts(a) \/ Begins(a, turn[a] + 1)
  PROVE  /\ \A x \in Elems(queue'[a]) : Opened(Everything', x)
         /\ Known(Everything', a, at'[a], turn'[a], iter'[a], seed'[a])
<1> DEFINE E == Everything
           N == Everything'
<1>1. N = E \cup Elems(queue'[a]) /\ E \subseteq N
  BY MoveEverything
<1>2. /\ at[a] \in StepPlaces => StartIn(N, TurnSpan(a, turn[a]))
      /\ at[a] \in StepPlaces \ {"guard"} => StartIn(N, IterOf(<<a, turn[a]>>, iter[a]))
      /\ seed[a] # Nil => Opened(N, seed[a].place)
  BY <1>1, OpenedMore DEF Complete, Known
<1> HIDE DEF E, N
<1>3. ASSUME NEW x, Own(a, x) PROVE Opened(N, x)
  <2>1. CASE at[a] \in StepPlaces /\ x.turn = <<a, turn[a]>>
             /\ (x.iter = 0 \/ (at[a] # "guard" /\ x.iter = iter[a]))
    <3>1. x.turn[1] = a /\ x.turn[2] = turn[a]
      BY <2>1
    <3>2. QED
      BY <1>2, <2>1, <3>1 DEF Opened
  <2>2. CASE seed[a] # Nil /\ x.turn = seed[a].place.turn /\ x.iter = seed[a].place.iter
    BY <1>2, <2>2 DEF Opened
  <2>3. QED
    BY <1>3, <2>1, <2>2 DEF Own
<1>4. ASSUME NEW s \in Remarked(a), NEW x \in Elems(s) PROVE Opened(N, x)
  BY <1>3 DEF Remarked, Remark
<1>5. \A i, t : IterOf(<<a, t>>, i) = SpanOf(a, "iteration_started", t, i, 0)
  BY DEF IterOf
<1>6. CASE Remarks(a)
  <2>1. /\ queue'[a] \in Remarked(a) /\ UNCHANGED <<turn, iter, seed>>
        /\ at'[a] \in StepPlaces => at[a] \in StepPlaces \ {"guard"}
    BY <1>6 DEF Remarks
  <2>2. \A x \in Elems(queue'[a]) : Opened(N, x)
    BY <1>4, <2>1
  <2>3. Known(N, a, at'[a], turn'[a], iter'[a], seed'[a])
    BY <1>2, <2>1 DEF Known, N
  <2>4. QED
    BY <2>2, <2>3 DEF N
<1>7. CASE Settles(a)
  <2>1. /\ UNCHANGED <<turn, iter, seed>> /\ at[a] \in StepPlaces /\ at'[a] = Back(a)
    BY <1>7 DEF Settles
  <2>2. Back(a) \notin StepPlaces
    BY DEF Back, StepPlaces
  <2>3. PICK before \in Remarked(a), after \in Remarked(a), name \in OutcomeNames :
          Elems(queue'[a]) = Elems(before) \cup Elems(Closing(a, name)) \cup Elems(after)
    BY <1>7, SettlesElems
  <2>4. ASSUME NEW x \in Elems(Closing(a, name)) PROVE Opened(N, x)
    <3>1. x.turn = <<a, turn[a]>> /\ x.iter = 0
      BY <2>1, <2>4, ClosingElems
    <3>2. x.turn[1] = a /\ x.turn[2] = turn[a]
      BY <3>1
    <3>3. QED
      BY <1>2, <2>1, <3>1, <3>2 DEF Opened
  <2>5. \A x \in Elems(queue'[a]) : Opened(N, x)
    BY <1>4, <2>3, <2>4
  <2>6. Known(N, a, at'[a], turn'[a], iter'[a], seed'[a])
    BY <1>2, <2>1, <2>2 DEF Known, N
  <2>7. QED
    BY <2>5, <2>6 DEF N
<1>8. CASE OpensOwn(a)
  <2>1. PICK span, parent, i :
          /\ Opens(a, span, parent, i)
          /\ \/ i = iter[a] /\ at[a] \in StepPlaces \ {"guard"}
             \/ span = SpanOf(a, "iteration_started", turn[a], i, 0)
    <3>1. {"llm", "calls"} \subseteq StepPlaces \ {"guard"}
      BY DEF StepPlaces
    <3>2. QED
      BY <1>8, <3>1 DEF OpensOwn
  <2>2. /\ at[a] \in StepPlaces /\ UNCHANGED <<turn, seed>> /\ iter'[a] = i
    BY <2>1 DEF Opens
  <2>3. /\ Elems(queue'[a]) # {}
        /\ \A x \in Elems(queue'[a]) :
             x.kind = "start" /\ x.span = span /\ x.turn = <<a, turn[a]>> /\ x.iter = i
    <3>1. Opens(a, span, parent, i)
      BY <2>1
    <3>2. /\ Elems(queue'[a]) # {}
          /\ \A x \in Elems(queue'[a]) :
               /\ x.kind = "start" /\ x.name = span.name
               /\ x.span = span /\ x.parent = parent /\ x.turn = <<a, turn[a]>>
               /\ x.run = RunOf(<<a, turn[a]>>) /\ x.iter = i
      BY <3>1, OpensElems
    <3>3. QED
      BY <3>2
  <2>4. StartIn(N, IterOf(<<a, turn[a]>>, i))
    <3>1. CASE i = iter[a] /\ at[a] \in StepPlaces \ {"guard"}
      BY <1>2, <3>1
    <3>2. CASE span = SpanOf(a, "iteration_started", turn[a], i, 0)
      BY <1>1, <1>5, <2>3, <3>2 DEF StartIn, N, E
    <3>3. QED
      BY <2>1, <3>1, <3>2
  <2>5. ASSUME NEW x \in Elems(queue'[a]) PROVE Opened(N, x)
    <3>1. x.turn = <<a, turn[a]>> /\ x.iter = i /\ x.turn[1] = a /\ x.turn[2] = turn[a]
      BY <2>3
    <3>2. QED
      BY <1>2, <2>2, <2>4, <3>1 DEF Opened
  <2>6. Known(N, a, at'[a], turn'[a], iter'[a], seed'[a])
    BY <1>2, <2>2, <2>4 DEF Known, N
  <2>7. QED
    BY <2>5, <2>6 DEF N
<1>9. CASE Begins(a, turn[a] + 1)
  <2> DEFINE t == turn[a] + 1
  <2>1. PICK x \in Records, y \in Records :
          /\ Elems(queue'[a]) = {x, y}
          /\ \A z \in {x, y} : z.kind = "start" /\ z.turn = <<a, t>> /\ z.iter = 0
          /\ y.span = TurnSpan(a, t)
    BY <1>9, BeginsElems
  <2>2. turn'[a] = t /\ at'[a] = "guard" /\ seed' = seed
    BY <1>9 DEF Begins
  <2> HIDE DEF t
  <2>3. StartIn(N, TurnSpan(a, t))
    BY <1>1, <2>1 DEF StartIn, N, E
  <2>4. ASSUME NEW z \in Elems(queue'[a]) PROVE Opened(N, z)
    <3>1. z.iter = 0 /\ z.turn[1] = a /\ z.turn[2] = t
      BY <2>1, <2>4
    <3>2. QED
      BY <2>3, <3>1 DEF Opened
  <2>5. Known(N, a, at'[a], turn'[a], iter'[a], seed'[a])
    BY <1>2, <2>2, <2>3 DEF Known, N
  <2>6. QED
    BY <2>4, <2>5 DEF N
<1>10. QED
  BY <1>6, <1>7, <1>8, <1>9 DEF Acts

(* So has the place where a job is spawned.                                *)
LEMMA SpawnOpened ==
  ASSUME TypeOK, Steady, Complete, NEW j \in 1..Jobs, failed = 0, Spawns(j)
  PROVE  /\ \A x \in Elems(queue'[Main]) : Opened(Everything', x)
         /\ Known(Everything', j, at'[j], turn'[j], iter'[j], seed'[j])
         /\ Known(Everything', Main, at'[Main], turn'[Main], iter'[Main], seed'[Main])
<1> DEFINE E == Everything
           N == Everything'
<1>1. Main \in Actors /\ j \in Actors /\ j # Main /\ LoopTypes
  BY ActorFacts DEF TypeOK
<1>2. N = E \cup Elems(queue'[Main]) /\ E \subseteq N
  BY <1>1, MoveEverything
<1>3. /\ at[Main] = "tool" /\ UNCHANGED <<turn, iter>> /\ at'[j] = "spawned"
      /\ seed'[j] = [place |-> Place(Main), parent |-> ToolSpan(Main)]
      /\ at'[Main] = at[Main] /\ seed'[Main] = seed[Main] /\ seed[Main] = Nil
  <2>1. seed[Main] = Nil
    BY <1>1 DEF Steady, SteadyAt
  <2>2. QED
    BY <1>1, <2>1 DEF Spawns, OnlyLoop, LoopTypes
<1>4. "tool" \in StepPlaces \ {"guard"} /\ "spawned" \notin StepPlaces
  BY DEF StepPlaces
<1>5. /\ StartIn(N, TurnSpan(Main, turn[Main]))
      /\ StartIn(N, IterOf(<<Main, turn[Main]>>, iter[Main]))
  BY <1>1, <1>2, <1>3, <1>4, OpenedMore DEF Complete, Known
<1>6. /\ Place(Main).turn = <<Main, turn[Main]>> /\ Place(Main).iter = iter[Main]
  BY DEF Place
<1> HIDE DEF E, N
<1>7. Opened(N, Place(Main))
  <2>1. Place(Main).turn[1] = Main /\ Place(Main).turn[2] = turn[Main]
    BY <1>6
  <2>2. QED
    BY <1>5, <1>6, <2>1 DEF Opened
<1>8. ASSUME NEW x \in Elems(queue'[Main]) PROVE Opened(N, x)
  <2>1. x.turn = <<Main, turn[Main]>> /\ x.iter = iter[Main]
    BY SpawnsElems
  <2>2. x.turn[1] = Main /\ x.turn[2] = turn[Main]
    BY <2>1
  <2>3. QED
    BY <1>5, <2>1, <2>2 DEF Opened
<1>9. Known(N, j, at'[j], turn'[j], iter'[j], seed'[j])
  BY <1>3, <1>4, <1>7 DEF Known, N
<1>10. Known(N, Main, at'[Main], turn'[Main], iter'[Main], seed'[Main])
  BY <1>3, <1>4, <1>5 DEF Known, N
<1>11. QED
  BY <1>8, <1>9, <1>10 DEF N

(* Every step keeps what has been published complete.                      *)
LEMMA StepComplete ==
  ASSUME TypeOK, Steady, Complete, [Next]_vars
  PROVE  Complete'
<1> SUFFICES ASSUME failed' = 0
             PROVE  /\ \A s \in stored' : s.indexed
                    /\ \A x \in Everything' : Opened(Everything', x)
                    /\ \A a \in Actors : Known(Everything', a, at'[a], turn'[a], iter'[a], seed'[a])
  BY DEF Complete
<1>1. failed \in Nat
  BY TraceAssumption DEF TypeOK, BusTypes
<1>2. CASE failed = 0 /\ Everything' = Everything /\ UNCHANGED loopVars
           /\ \A s \in stored' : s \in stored \/ s.indexed
  <2>1. UNCHANGED <<at, turn, iter, seed>>
    BY <1>2 DEF loopVars
  <2>2. \A a \in Actors : Known(Everything', a, at'[a], turn'[a], iter'[a], seed'[a])
    BY <1>2, <2>1 DEF Complete, Known
  <2>3. QED
    BY <1>2, <2>2 DEF Complete
<1>3. CASE \E a \in Actors : Persist(a)
  BY <1>2, <1>3, PersistEverything
<1>4. CASE \E a \in Actors : Count(a)
  <2>1. PICK a \in Actors : Count(a)
    BY <1>4
  <2>2. UNCHANGED <<loopVars, queue, stored>> /\ (failed' = failed \/ failed' = failed + 1)
    BY <2>1, CountTypes
  <2>3. failed = 0 /\ Everything' = Everything
    BY <1>1, <2>2 DEF Everything, Kept, Elems
  <2>4. QED
    BY <1>2, <2>2, <2>3
<1>5. CASE \E a \in Actors : Acts(a) \/ Begins(a, turn[a] + 1)
  <2>1. PICK a \in Actors : Acts(a) \/ Begins(a, turn[a] + 1)
    BY <1>5
  <2>2. /\ Everything' = Everything \cup Elems(queue'[a]) /\ stored' = stored /\ failed = 0
    BY <2>1, MoveEverything
  <2>3. /\ \A x \in Elems(queue'[a]) : Opened(Everything', x)
        /\ Known(Everything', a, at'[a], turn'[a], iter'[a], seed'[a])
    BY <2>1, <2>2, MoveOpened
  <2>4. OnlyLoop(a)
    BY <2>1 DEF Acts, Remarks, Settles, OpensOwn, Opens, Begins
  <2>5. ASSUME NEW c \in Actors, c # a
        PROVE  Known(Everything', c, at'[c], turn'[c], iter'[c], seed'[c])
    <3>1. at'[c] = at[c] /\ turn'[c] = turn[c] /\ iter'[c] = iter[c] /\ seed'[c] = seed[c]
      BY <2>4, <2>5 DEF OnlyLoop, TypeOK, LoopTypes
    <3>2. Known(Everything, c, at[c], turn[c], iter[c], seed[c])
      BY <2>2 DEF Complete
    <3>3. QED
      BY <2>2, <3>1, <3>2, OpenedMore DEF Known
  <2>6. QED
    BY <2>2, <2>3, <2>5, OpenedMore DEF Complete
<1>6. CASE \E j \in 1..Jobs : Spawns(j)
  <2>1. PICK j \in 1..Jobs : Spawns(j)
    BY <1>6
  <2>2. /\ Everything' = Everything \cup Elems(queue'[Main]) /\ stored' = stored /\ failed = 0
    BY <2>1, MoveEverything, ActorFacts
  <2>3. /\ \A x \in Elems(queue'[Main]) : Opened(Everything', x)
        /\ Known(Everything', j, at'[j], turn'[j], iter'[j], seed'[j])
        /\ Known(Everything', Main, at'[Main], turn'[Main], iter'[Main], seed'[Main])
    BY <2>1, <2>2, SpawnOpened
  <2>4. ASSUME NEW c \in Actors, c # j
        PROVE  Known(Everything', c, at'[c], turn'[c], iter'[c], seed'[c])
    <3>1. at'[c] = at[c] /\ turn'[c] = turn[c] /\ iter'[c] = iter[c] /\ seed'[c] = seed[c]
      BY <2>1, <2>4 DEF Spawns, OnlyLoop, TypeOK, LoopTypes
    <3>2. Known(Everything, c, at[c], turn[c], iter[c], seed[c])
      BY <2>2 DEF Complete
    <3>3. QED
      BY <2>2, <3>1, <3>2, OpenedMore DEF Known
  <2>5. QED
    BY <2>2, <2>3, <2>4, OpenedMore DEF Complete
<1>7. CASE UNCHANGED vars
  <2>1. failed' = failed /\ UNCHANGED loopVars /\ stored' = stored /\ queue' = queue
    BY <1>7 DEF vars, busVars
  <2>2. failed = 0 /\ Everything' = Everything
    BY <2>1 DEF Everything, Kept, Elems
  <2>3. QED
    BY <1>2, <2>1, <2>2
<1>8. QED
  BY <1>3, <1>4, <1>5, <1>6, <1>7, StepActs

(* Nothing has been published at first.                                    *)
LEMMA InitComplete ==
  ASSUME Init
  PROVE  Complete
<1>1. \A a \in Actors : queue[a] = <<>> /\ seed[a] = Nil /\ at[a] \in {"idle", "unborn"}
  BY DEF Init, LoopInit
<1>2. stored = {}
  BY DEF Init, BusInit
<1>3. Everything = {}
  BY <1>1, <1>2, ElemsOf DEF Everything, Kept
<1>4. "idle" \notin StepPlaces /\ "unborn" \notin StepPlaces
  BY DEF StepPlaces
<1>5. QED
  BY <1>1, <1>2, <1>3, <1>4 DEF Complete, Known

(* Whatever a turn or an iteration has published, its beginning came       *)
(* first, and unless a write failed it is where it can be found.           *)
THEOREM CompleteCorrect == Spec => []Complete
<1>1. Init => Complete
  BY InitComplete
<1>2. TypeOK /\ Steady /\ Complete /\ [Next]_vars => Complete'
  BY StepComplete
<1>3. QED
  BY <1>1, <1>2, SteadyCorrect, PTL DEF Spec

(* What is found by a key is as many as the keys.                          *)
LEMMA SameCount ==
  ASSUME NEW S, NEW T, NEW f \in [S -> T], IsFiniteSet(S),
         \A x, y \in S : f[x] = f[y] => x = y,
         \A t \in T : \E x \in S : f[x] = t
  PROVE  Cardinality(T) = Cardinality(S)
<1>1. f \in Bijection(S, T)
  BY DEF Bijection, Injection, Surjection, IsInjective
<1>2. QED
  BY <1>1, FS_Bijection DEF ExistsBijection

(* What is found by finitely many keys is finite.                          *)
LEMMA FiniteImage ==
  ASSUME NEW S, NEW T, NEW f \in [S -> T], IsFiniteSet(S),
         \A t \in T : \E x \in S : f[x] = t
  PROVE  IsFiniteSet(T)
BY FS_Surjection DEF Surjection

(* The records of a run, once everything is stored and nothing was lost.   *)
LEMMA AllStored ==
  ASSUME TypeOK, AllSound, Complete, IsFiniteSet(stored), failed = 0,
         \A a \in Actors : Quiet(a), NEW r \in Runs
  PROVE  /\ IsFiniteSet(GetRecords(r)) /\ GetRecords(r) \subseteq Records
         /\ \A x \in GetRecords(r) : Sound(x) /\ x.run = r /\ Opened(Kept, x)
         /\ \A x \in Kept : x.run = r => x \in GetRecords(r)
         /\ \A x \in Kept : x \in Records /\ Sound(x)
<1>1. Indexed(r) = Filed(r)
  BY DEF Complete, Indexed, Filed
<1>2. GetRecords(r) = {s.line.record : s \in Filed(r)}
  BY <1>1 DEF GetRecords
<1>3. Everything = Kept
  BY ElemsOf DEF Everything, Quiet
<1>4. GetRecords(r) \subseteq Kept
  BY <1>2 DEF Kept, Filed
<1>5. \A x \in Kept : x \in Records /\ Sound(x)
  BY DEF Kept, TypeOK, BusTypes, AllSound
<1>6. \A x \in Kept : x.run = r => x \in GetRecords(r)
  BY <1>2 DEF Kept, Filed
<1>7. \A x \in GetRecords(r) : x.run = r
  BY <1>2 DEF Filed
<1>8. \A x \in Kept : Opened(Kept, x)
  BY <1>3 DEF Complete
<1>9. IsFiniteSet(GetRecords(r))
  <2> DEFINE f == [s \in Filed(r) |-> s.line.record]
  <2>1. IsFiniteSet(Filed(r))
    BY FS_Subset DEF Filed
  <2>2. f \in [Filed(r) -> GetRecords(r)] /\ \A x \in GetRecords(r) : \E s \in Filed(r) : f[s] = x
    BY <1>2
  <2> HIDE DEF f
  <2>3. QED
    BY <2>1, <2>2, FiniteImage
<1>10. QED
  BY <1>4, <1>5, <1>6, <1>7, <1>8, <1>9

(* One span of a turn for each turn ...                                    *)
LEMMA TurnsCounted ==
  ASSUME TypeOK, AllSound, Complete, IsFiniteSet(stored), failed = 0,
         \A a \in Actors : Quiet(a), NEW r \in Runs
  PROVE  TurnCount(r) = Cardinality(Begun(r, "turn_started"))
<1> DEFINE G == GetRecords(r)
           T == {x.turn : x \in G}
           B == Begun(r, "turn_started")
           t == [x \in G |-> x.turn]
           f == [id \in T |-> TurnSpan(id[1], id[2])]
<1>1. /\ IsFiniteSet(G) /\ G \subseteq Records
      /\ \A x \in G : Sound(x) /\ x.run = r /\ Opened(Kept, x)
      /\ \A x \in Kept : x.run = r => x \in G
      /\ \A x \in Kept : x \in Records /\ Sound(x)
  BY AllStored
<1>2. B = {n.span : n \in {n \in G : n.kind = "start" /\ n.span.name = "turn_started"}}
  BY DEF Begun, Nodes
<1> HIDE DEF G, B
<1>3. \A id \in T : id \in TurnIds /\ id = <<id[1], id[2]>>
  BY <1>1 DEF Records, TurnIds
<1>4. IsFiniteSet(T)
  <2>1. t \in [G -> T] /\ \A id \in T : \E x \in G : t[x] = id
    OBVIOUS
  <2> HIDE DEF t, T
  <2>2. QED
    BY <1>1, <2>1, FiniteImage
<1>5. ASSUME NEW id \in T PROVE f[id] \in B
  <2>1. PICK x \in G : x.turn = id
    OBVIOUS
  <2>2. StartIn(Kept, TurnSpan(id[1], id[2]))
    BY <1>1, <2>1 DEF Opened
  <2>3. PICK y \in Kept : y.kind = "start" /\ y.span = TurnSpan(id[1], id[2])
    BY <2>2 DEF StartIn
  <2>4. y.turn = <<id[1], id[2]>> /\ y.span.name = "turn_started"
    <3>1. y.span.actor = id[1] /\ y.span.turn = id[2] /\ y.span.name = "turn_started"
      BY <2>3 DEF TurnSpan, SpanOf
    <3>2. y.turn = <<y.span.actor, y.span.turn>>
      BY <1>1, <2>3, <3>1 DEF Sound, StartSound
    <3>3. QED
      BY <3>1, <3>2
  <2>5. y.run = r
    BY <1>1, <1>3, <2>1, <2>4 DEF Sound
  <2>6. QED
    BY <1>1, <1>2, <2>3, <2>4, <2>5
<1>6. ASSUME NEW s \in B PROVE \E id \in T : f[id] = s
  <2>1. PICK n \in G : n.kind = "start" /\ n.span.name = "turn_started" /\ n.span = s
    BY <1>2
  <2>2. n.turn = <<s.actor, s.turn>> /\ s = TurnSpan(s.actor, s.turn)
    BY <1>1, <2>1 DEF Sound, StartSound
  <2>3. QED
    BY <2>1, <2>2
<1>7. \A id, jd \in T : f[id] = f[jd] => id = jd
  <2>1. \A id \in T : f[id].actor = id[1] /\ f[id].turn = id[2]
    BY DEF TurnSpan, SpanOf
  <2> HIDE DEF f
  <2>2. \A id, jd \in T : f[id] = f[jd] => <<id[1], id[2]>> = <<jd[1], jd[2]>>
    BY <2>1
  <2>3. QED
    BY <1>3, <2>2
<1>8. f \in [T -> B]
  BY <1>5
<1>9. TurnCount(r) = Cardinality(T)
  BY DEF TurnCount, G
<1> HIDE DEF f, T
<1>10. QED
  BY <1>4, <1>6, <1>7, <1>8, <1>9, SameCount DEF B

(* ... and one of an iteration for each iteration.                         *)
LEMMA IterationsCounted ==
  ASSUME TypeOK, AllSound, Complete, IsFiniteSet(stored), failed = 0,
         \A a \in Actors : Quiet(a), NEW r \in Runs
  PROVE  IterationCount(r) = Cardinality(Begun(r, "iteration_started"))
<1> DEFINE G == {x \in GetRecords(r) : x.iter # 0}
           T == {<<x.turn, x.iter>> : x \in G}
           B == Begun(r, "iteration_started")
           t == [x \in G |-> <<x.turn, x.iter>>]
           f == [id \in T |-> IterOf(id[1], id[2])]
<1>1. /\ IsFiniteSet(GetRecords(r)) /\ GetRecords(r) \subseteq Records
      /\ \A x \in GetRecords(r) : Sound(x) /\ x.run = r /\ Opened(Kept, x)
      /\ \A x \in Kept : x.run = r => x \in GetRecords(r)
      /\ \A x \in Kept : x \in Records /\ Sound(x)
  BY AllStored
<1>2. /\ B = {n.span : n \in {n \in GetRecords(r) : n.kind = "start" /\ n.span.name = "iteration_started"}}
      /\ \A x \in G : x \in GetRecords(r) /\ x.iter # 0
      /\ \A x \in GetRecords(r) : x.iter # 0 => x \in G
  BY DEF Begun, Nodes
<1>3. IsFiniteSet(G)
  BY <1>1, FS_Subset
<1>4. IterationCount(r) = Cardinality(T)
  BY DEF IterationCount, IterationKey
<1> HIDE DEF G, B
<1>5. \A id \in T : id[1] \in TurnIds /\ id[1] = <<id[1][1], id[1][2]>> /\ id = <<id[1], id[2]>>
  BY <1>1, <1>2 DEF Records, TurnIds
<1>6. IsFiniteSet(T)
  <2>1. t \in [G -> T] /\ \A id \in T : \E x \in G : t[x] = id
    OBVIOUS
  <2> HIDE DEF t, T
  <2>2. QED
    BY <1>3, <2>1, FiniteImage
<1>7. ASSUME NEW id \in T PROVE f[id] \in B
  <2>1. PICK x \in G : <<x.turn, x.iter>> = id
    OBVIOUS
  <2>2. StartIn(Kept, IterOf(id[1], id[2]))
    BY <1>1, <1>2, <2>1 DEF Opened
  <2>3. PICK y \in Kept : y.kind = "start" /\ y.span = IterOf(id[1], id[2])
    BY <2>2 DEF StartIn
  <2>4. y.turn = <<id[1][1], id[1][2]>> /\ y.span.name = "iteration_started"
    BY <1>1, <2>3 DEF Sound, StartSound, IterOf, SpanOf
  <2>5. y.run = r
    BY <1>1, <1>2, <1>5, <2>1, <2>4 DEF Sound
  <2>6. QED
    BY <1>1, <1>2, <2>3, <2>4, <2>5
<1>8. ASSUME NEW s \in B PROVE \E id \in T : f[id] = s
  <2>1. PICK n \in GetRecords(r) :
          n.kind = "start" /\ n.span.name = "iteration_started" /\ n.span = s
    BY <1>2
  <2>2. /\ n.turn = <<s.actor, s.turn>> /\ n.iter = s.iter /\ n.iter > 0
        /\ s = SpanOf(s.actor, "iteration_started", s.turn, s.iter, 0)
    BY <1>1, <2>1 DEF Sound, StartSound
  <2>3. n \in G
    BY <1>2, <2>1, <2>2
  <2>4. IterOf(n.turn, n.iter) = s
    BY <2>2 DEF IterOf
  <2>5. <<n.turn, n.iter>> \in T /\ f[<<n.turn, n.iter>>] = IterOf(n.turn, n.iter)
    BY <2>3
  <2>6. QED
    BY <2>4, <2>5
<1>9. \A id, jd \in T : f[id] = f[jd] => id = jd
  <2>1. \A id \in T : f[id].actor = id[1][1] /\ f[id].turn = id[1][2] /\ f[id].iter = id[2]
    BY DEF IterOf, SpanOf
  <2> HIDE DEF f
  <2>2. \A id, jd \in T : f[id] = f[jd] =>
          <<id[1][1], id[1][2]>> = <<jd[1][1], jd[1][2]>> /\ id[2] = jd[2]
    BY <2>1
  <2>3. \A id, jd \in T : f[id] = f[jd] => id[1] = jd[1] /\ id[2] = jd[2]
    BY <1>5, <2>2
  <2>4. \A id, jd \in T : id[1] = jd[1] /\ id[2] = jd[2] => id = jd
    BY <1>5
  <2>5. QED
    BY <2>3, <2>4
<1>10. f \in [T -> B]
  BY <1>7
<1> HIDE DEF f, T
<1>11. QED
  BY <1>4, <1>6, <1>8, <1>9, <1>10, SameCount DEF B

(* get_tree and get_run_overview answer what was stored: every span that   *)
(* began is shown once, whatever was lost; and when nothing was lost and   *)
(* nothing is under way, turns and iterations are counted once each, those *)
(* of the sub-agents among them.                                           *)
THEOREM QueriesTrueCorrect == Spec => []QueriesTrue
<1>1. TypeOK /\ AllSound /\ Complete /\ IsFiniteSet(stored) => OverviewCounts
  BY TurnsCounted, IterationsCounted DEF OverviewCounts
<1>2. TypeOK /\ TreeWhole /\ OverviewCounts => QueriesTrue
  BY DEF QueriesTrue
<1>3. CountInv => IsFiniteSet(stored)
  BY DEF CountInv
<1>4. QED
  BY <1>1, <1>2, <1>3, SteadyCorrect, CountsInvariant, RecordsSound, TreeWholeCorrect, CompleteCorrect, PTL

-----------------------------------------------------------------------------
(* SettledIsClosed.  Every span of the user's loop is ended by a record    *)
(* the loop has published, or is open where the loop is, or belongs to a   *)
(* run the loop has given up, of which no outcome will be published.       *)

Book(a) == Kept \cup Elems(queue[a])

EndIn(S, r, span) == \E x \in S : x.kind = "end" /\ x.span = span /\ x.run = r

(* The spans open in turn t, iteration i, at request k.                    *)
OpenAt(place, t, i, k) ==
  IF place \notin StepPlaces THEN {}
  ELSE {RunSpan(Main, t), TurnSpan(Main, t)}
       \cup (IF place = "guard" THEN {} ELSE {SpanOf(Main, "iteration_started", t, i, 0)})
       \cup (IF place = "stream" THEN {SpanOf(Main, "llm_request_started", t, i, k)} ELSE {})
       \cup (IF place = "tool" THEN {SpanOf(Main, "tool_started", t, i, 0)} ELSE {})

OpenNow == OpenAt(at[Main], turn[Main], iter[Main], attempt[Main])

HasOutcome(r) == \E x \in Everything : x.name \in OutcomeNames /\ x.run = r

GivenUp(r) ==
  /\ ~HasOutcome(r) /\ r <= turn[Main]
  /\ r = turn[Main] => at[Main] \notin StepPlaces /\ active[Main] # Nil

MainClosed ==
  \A x \in Everything : x.kind = "start" /\ x.span.actor = Main =>
    \/ EndIn(Book(Main), x.run, x.span)
    \/ x.run = turn[Main] /\ x.span \in OpenNow
    \/ GivenUp(x.run)

OutcomesKnown ==
  /\ \A x \in Everything : x.name \in OutcomeNames =>
       x.run <= turn[Main] /\ (x.run = turn[Main] => active[Main] = Nil)
  /\ \A r \in Runs : IsSettled(r) => HasOutcome(r)
  /\ \A a \in Actors : publishing[a] # Nil => publishing[a] \in Everything

JobsEnded ==
  \A j \in 1..Jobs : at[j] = "done" =>
    EndIn(Book(j), seed[j].place.run, SubagentSpan(j))

ClosedInv == failed = 0 => MainClosed /\ OutcomesKnown /\ JobsEnded

(* More records end no less.                                               *)
LEMMA EndInMore ==
  ASSUME NEW S, NEW T, S \subseteq T, NEW r, NEW span, EndIn(S, r, span)
  PROVE  EndIn(T, r, span)
BY DEF EndIn

(* What an actor has published stays published.                            *)
LEMMA BookKept ==
  ASSUME TypeOK, Steady, NEW a \in Actors, failed' = 0,
         \/ Persist(a) \/ Count(a) \/ Acts(a) \/ Begins(a, turn[a] + 1)
         \/ a = Main /\ \E j \in 1..Jobs : Spawns(j)
  PROVE  failed = 0 /\ \A c \in Actors : Book(c) \subseteq Book(c)'
<1>1. CASE Persist(a)
  <2>1. /\ failed = 0 /\ Kept' = Kept \cup {Head(queue[a])}
        /\ Elems(queue[a]) = {Head(queue[a])} \cup Elems(queue'[a])
        /\ \A c \in Actors : c # a => queue'[c] = queue[c]
    BY <1>1, PersistEverything
  <2>2. ASSUME NEW c \in Actors PROVE Book(c) \subseteq Book(c)'
    <3>1. Book(c)' = Kept' \cup Elems(queue'[c])
      BY DEF Book, Elems
    <3>2. QED
      BY <2>1, <3>1 DEF Book
  <2>3. QED
    BY <2>1, <2>2
<1>2. CASE Count(a)
  <2>1. UNCHANGED <<queue, stored>> /\ (failed' = failed \/ failed' = failed + 1)
        /\ failed \in Nat
    BY <1>2, CountTypes, TraceAssumption DEF TypeOK, BusTypes
  <2>2. failed = 0
    BY <2>1
  <2>3. QED
    BY <2>1, <2>2 DEF Book, Kept, Elems
<1>3. CASE \/ Acts(a) \/ Begins(a, turn[a] + 1)
           \/ a = Main /\ \E j \in 1..Jobs : Spawns(j)
  <2>1. /\ Kept' = Kept /\ failed' = failed /\ Elems(queue[a]) = {}
        /\ \A c \in Actors : c # a => queue'[c] = queue[c]
    BY <1>3, MoveEverything
  <2>2. ASSUME NEW c \in Actors PROVE Book(c) \subseteq Book(c)'
    <3>1. Book(c)' = Kept' \cup Elems(queue'[c])
      BY DEF Book, Elems
    <3>2. QED
      BY <2>1, <3>1 DEF Book
  <2>3. QED
    BY <2>1, <2>2
<1>4. QED
  BY <1>1, <1>2, <1>3

(* The records that end the spans of the user's loop.                      *)
LEMMA Ends ==
  ASSUME TypeOK, Steady, at[Main] \in StepPlaces
  PROVE  /\ EndIteration(Main) \in Seq(Records) /\ EndLlm(Main) \in Seq(Records)
         /\ EndIn(Elems(EndIteration(Main)), turn[Main],
                  SpanOf(Main, "iteration_started", turn[Main], iter[Main], 0))
         /\ EndIn(Elems(EndLlm(Main)), turn[Main],
                  SpanOf(Main, "llm_request_started", turn[Main], iter[Main], attempt[Main]))
         /\ LET x == End(Place(Main), "tool_finished", ToolSpan(Main), IterSpan(Main))
            IN /\ <<x>> \in Seq(Records)
               /\ EndIn(Elems(<<x>>), turn[Main],
                        SpanOf(Main, "tool_started", turn[Main], iter[Main], 0))
<1>1. Main \in Actors /\ active[Main] # Nil /\ LoopTypes
  BY ActorFacts DEF Steady, SteadyAt, TypeOK
<1>2. /\ Place(Main) \in Places /\ Place(Main).run = turn[Main]
      /\ active[Main].turnSpan \in Spans
  BY <1>1, Standing DEF RunOf
<1>3. /\ IterSpan(Main) = SpanOf(Main, "iteration_started", turn[Main], iter[Main], 0)
      /\ ToolSpan(Main) = SpanOf(Main, "tool_started", turn[Main], iter[Main], 0)
      /\ LlmSpan(Main) = SpanOf(Main, "llm_request_started", turn[Main], iter[Main], attempt[Main])
      /\ {IterSpan(Main), ToolSpan(Main), LlmSpan(Main)} \subseteq Spans
  BY <1>1, SpanTypes
<1>4. ASSUME NEW name \in RecordNames, NEW span \in Spans, NEW parent \in Spans
      PROVE  /\ <<End(Place(Main), name, span, parent)>> \in Seq(Records)
             /\ EndIn(Elems(<<End(Place(Main), name, span, parent)>>), turn[Main], span)
  <2> DEFINE x == End(Place(Main), name, span, parent)
  <2>1. x \in Records
    BY <1>2, RecordTypes
  <2>2. x.kind = "end" /\ x.span = span /\ x.run = turn[Main]
    BY <1>2 DEF End, Record
  <2> HIDE DEF x
  <2>3. <<x>> \in Seq(Records) /\ Elems(<<x>>) = {x}
    BY <2>1, ElemsOf
  <2>4. QED
    BY <2>2, <2>3 DEF EndIn, x
<1>5. {"iteration_finished", "llm_request_finished", "tool_finished"} \subseteq RecordNames
  BY DEF RecordNames
<1>6. QED
  BY <1>2, <1>3, <1>4, <1>5 DEF EndIteration, EndLlm

(* A step of the user's loop ends what it does not leave open; or it gives *)
(* up the run.                                                             *)
MovesOn ==
  \A s \in OpenNow : s \in OpenNow' \/ EndIn(Elems(queue'[Main]), turn[Main], s)
GivesUp == at'[Main] \notin StepPlaces /\ active'[Main] # Nil
OpensNow ==
  \A x \in Elems(queue'[Main]) : x.kind = "start" => x.run = turn'[Main] /\ x.span \in OpenNow'

(* Going on, it publishes the ends of the spans it closes.                 *)
LEMMA MoveCloses ==
  ASSUME TypeOK, Steady, at[Main] \in StepPlaces, Quiet(Main),
         NEW place, NEW records \in Seq(Records), Move(Main, place, records),
         \A s \in OpenNow : \/ s \in OpenAt(place, turn[Main], iter[Main], attempt[Main])
                            \/ EndIn(Elems(records), turn[Main], s)
  PROVE  MovesOn
<1>1. at'[Main] = place /\ queue'[Main] = records
  BY GoSilent, ActorFacts DEF Move
<1>2. turn' = turn /\ iter' = iter /\ attempt' = attempt
  BY DEF Move
<1>3. OpenNow' = OpenAt(place, turn[Main], iter[Main], attempt[Main])
  BY <1>1, <1>2 DEF OpenNow, OpenAt, RunSpan, TurnSpan, SpanOf
<1>4. QED
  BY <1>1, <1>3 DEF MovesOn

(* An exit that leaves the active trace where it is gives up the run.      *)
LEMMA LeaveGivesUp ==
  ASSUME TypeOK, Steady, at[Main] \in StepPlaces, NEW records, Leave(Main, records)
  PROVE  GivesUp
<1>1. active[Main] # Nil /\ Main \in Actors
  BY ActorFacts DEF Steady, SteadyAt
<1>2. at' = [at EXCEPT ![Main] = "idle"] /\ active' = active
  BY DEF Leave, Go, Back
<1>3. at'[Main] = "idle" /\ "idle" \notin StepPlaces
  BY <1>1, <1>2 DEF TypeOK, LoopTypes, StepPlaces
<1>4. QED
  BY <1>1, <1>2, <1>3 DEF GivesUp

(* finish_active_trace ends the turn's span and the run's.                 *)
LEMMA ClosingEnds ==
  ASSUME TypeOK, Steady, at[Main] \in StepPlaces, NEW name \in OutcomeNames
  PROVE  /\ Closing(Main, name) \in Seq(Records)
         /\ EndIn(Elems(Closing(Main, name)), turn[Main], TurnSpan(Main, turn[Main]))
         /\ EndIn(Elems(Closing(Main, name)), turn[Main], RunSpan(Main, turn[Main]))
<1>1. Main \in Actors /\ RunOf(<<Main, turn[Main]>>) = turn[Main]
  BY ActorFacts DEF RunOf
<1>2. /\ Closing(Main, name) \in Seq(Records)
      /\ \A x \in Elems(Closing(Main, name)) : x.kind = "end" /\ x.run = turn[Main]
      /\ \E x \in Elems(Closing(Main, name)) : x.span = TurnSpan(Main, turn[Main])
      /\ \E x \in Elems(Closing(Main, name)) : x.span = RunSpan(Main, turn[Main])
  BY <1>1, ClosingElems
<1>3. QED
  BY <1>2 DEF EndIn

(* An exit through it closes these, and what it says it does.              *)
LEMMA SettleCloses ==
  ASSUME TypeOK, Steady, at[Main] \in StepPlaces, Quiet(Main), NEW name \in OutcomeNames,
         NEW before \in Seq(Records), NEW after \in Seq(Records),
         Settle(Main, before, name, after),
         \A s \in OpenNow : \/ s \in {RunSpan(Main, turn[Main]), TurnSpan(Main, turn[Main])}
                            \/ EndIn(Elems(before), turn[Main], s)
                            \/ EndIn(Elems(after), turn[Main], s)
  PROVE  MovesOn
<1> DEFINE c == Closing(Main, name)
<1>1. /\ c \in Seq(Records)
      /\ EndIn(Elems(c), turn[Main], TurnSpan(Main, turn[Main]))
      /\ EndIn(Elems(c), turn[Main], RunSpan(Main, turn[Main]))
  BY ClosingEnds
<1>2. Go(Main, Back(Main), before \o c \o after)
  BY DEF Settle
<1> HIDE DEF c
<1>3. before \o c \in Seq(Records) /\ Elems(before \o c) = Elems(before) \cup Elems(c)
  BY <1>1, Joined
<1>4. /\ before \o c \o after \in Seq(Records)
      /\ Elems(before \o c \o after) = Elems(before) \cup Elems(c) \cup Elems(after)
  BY <1>3, Joined
<1>5. queue'[Main] = before \o c \o after
  BY <1>2, <1>4, GoSilent, ActorFacts
<1>6. \A s \in OpenNow : EndIn(Elems(queue'[Main]), turn[Main], s)
  BY <1>1, <1>4, <1>5 DEF EndIn
<1>7. QED
  BY <1>6 DEF MovesOn

(* Remarks, and the end of a turn, open nothing.                           *)
LEMMA SettlesOpenNothing ==
  ASSUME TypeOK, Steady, NEW a \in Actors, Settles(a) \/ Remarks(a)
  PROVE  \A x \in Elems(queue'[a]) : x.kind # "start"
<1>1. CASE Settles(a)
  <2>1. PICK before \in Remarked(a), after \in Remarked(a), name \in OutcomeNames :
          Elems(queue'[a]) = Elems(before) \cup Elems(Closing(a, name)) \cup Elems(after)
    BY <1>1, SettlesElems
  <2>2. \A x \in Elems(Closing(a, name)) : x.kind = "end"
    BY <1>1, ClosingElems DEF Settles
  <2>3. QED
    BY <2>1, <2>2 DEF Remarked, Remark
<1>2. CASE Remarks(a)
  BY <1>2 DEF Remarks, Remarked, Remark
<1>3. QED
  BY <1>1, <1>2

(* What is open where: the run and the turn, in an iteration the           *)
(* iteration, and what the loop waits for.                                 *)
LEMMA OpenThere ==
  ASSUME NEW t, NEW i, NEW k
  PROVE  /\ \A p \in StepPlaces :
              {RunSpan(Main, t), TurnSpan(Main, t)} \subseteq OpenAt(p, t, i, k)
         /\ OpenAt("guard", t, i, k) = {RunSpan(Main, t), TurnSpan(Main, t)}
         /\ \A p \in StepPlaces \ {"guard"} :
              SpanOf(Main, "iteration_started", t, i, 0) \in OpenAt(p, t, i, k)
         /\ \A p \in {"llm", "reply", "calls", "round"} :
              OpenAt(p, t, i, k) = {RunSpan(Main, t), TurnSpan(Main, t),
                                    SpanOf(Main, "iteration_started", t, i, 0)}
         /\ OpenAt("stream", t, i, k) =
              {RunSpan(Main, t), TurnSpan(Main, t), SpanOf(Main, "iteration_started", t, i, 0),
               SpanOf(Main, "llm_request_started", t, i, k)}
         /\ OpenAt("tool", t, i, k) =
              {RunSpan(Main, t), TurnSpan(Main, t), SpanOf(Main, "iteration_started", t, i, 0),
               SpanOf(Main, "tool_started", t, i, 0)}
<1>1. ASSUME NEW p \in {"llm", "reply", "calls", "round"}
      PROVE  p \in StepPlaces /\ p \notin {"guard", "stream", "tool"}
  BY DEF StepPlaces
<1>2. {"guard", "stream", "tool"} \subseteq StepPlaces
  BY DEF StepPlaces
<1>3. QED
  BY <1>1, <1>2 DEF OpenAt

(* The steps at the guard,                                                 *)
LEMMA GuardedCloses ==
  ASSUME TypeOK, Steady, Guarded(Main)
  PROVE  (MovesOn \/ GivesUp) /\ OpensNow
<1> DEFINE t == turn[Main]
<1>1. /\ at[Main] = "guard" /\ Quiet(Main) /\ at[Main] \in StepPlaces /\ Main \in Actors
      /\ LoopTypes
  BY ActorFacts DEF Guarded, Stopped, Depleted, Iterate, Ready, StepPlaces, TypeOK
<1>2. OpenNow = {RunSpan(Main, t), TurnSpan(Main, t)}
  BY <1>1, OpenThere DEF OpenNow
<1>3. CASE Iterate(Main)
  <2>1. /\ Opens(Main, SpanOf(Main, "iteration_started", t, iter[Main] + 1, 0),
                 TurnSpan(Main, t), iter[Main] + 1)
        /\ at'[Main] = "llm"
    BY <1>1, <1>3, IterateOpens
  <2>2. turn'[Main] = t /\ iter'[Main] = iter[Main] + 1
    BY <2>1 DEF Opens
  <2>3. OpenNow' = OpenAt("llm", t, iter[Main] + 1, attempt'[Main])
    BY <2>1, <2>2 DEF OpenNow, OpenAt, RunSpan, TurnSpan, SpanOf
  <2>4. OpenNow' = {RunSpan(Main, t), TurnSpan(Main, t),
                    SpanOf(Main, "iteration_started", t, iter[Main] + 1, 0)}
    BY <2>3, OpenThere
  <2>5. \A x \in Elems(queue'[Main]) :
          /\ x.span = SpanOf(Main, "iteration_started", t, iter[Main] + 1, 0)
          /\ x.run = RunOf(<<Main, t>>)
    BY <1>1, <2>1, OpensElems
  <2>6. QED
    BY <1>2, <2>2, <2>4, <2>5 DEF MovesOn, OpensNow, RunOf
<1>4. CASE Stopped(Main) \/ Depleted(Main)
  <2>1. active[Main].turnSpan \in Spans
    BY <1>1, Standing DEF Steady, SteadyAt
  <2>2. "energy_depleted" \in RecordNames \ RunNames
    BY DEF RecordNames, RunNames
  <2> DEFINE e == <<Event(Whole(Place(Main)), "energy_depleted", active[Main].turnSpan)>>
  <2>3. e \in Remarked(Main) /\ <<>> \in Remarked(Main)
    BY <1>1, <2>1, <2>2, RemarksOf
  <2>4. /\ \/ Settle(Main, <<>>, "run_cancelled", <<>>)
           \/ Settle(Main, e, "run_failed", <<>>)
    BY <1>4 DEF Stopped, Depleted
  <2>5. {"run_cancelled", "run_failed"} \subseteq OutcomeNames
    BY DEF OutcomeNames
  <2> HIDE DEF e
  <2>6. e \in Seq(Records) /\ <<>> \in Seq(Records)
    BY <2>3 DEF Remarked
  <2>7. MovesOn
    BY <1>1, <1>2, <2>4, <2>5, <2>6, SettleCloses
  <2>8. Settles(Main)
    BY <1>1, <2>3, <2>4, <2>5, SettleSettles
  <2>9. QED
    BY <1>1, <2>7, <2>8, SettlesOpenNothing DEF OpensNow
<1>5. QED
  BY <1>3, <1>4 DEF Guarded

(* of a request,                                                           *)
LEMMA AskedCloses ==
  ASSUME TypeOK, Steady, Asked(Main)
  PROVE  (MovesOn \/ GivesUp) /\ OpensNow
<1> DEFINE t == turn[Main]
           i == iter[Main]
<1>1. Main \in Actors /\ LoopTypes
  BY ActorFacts DEF TypeOK
<1>2. CASE Request(Main)
  <2>1. /\ Opens(Main, SpanOf(Main, "llm_request_started", t, i, attempt[Main] + 1),
                 IterSpan(Main), i)
        /\ at[Main] = "llm" /\ at'[Main] = "stream" /\ attempt'[Main] = attempt[Main] + 1
    BY <1>1, <1>2, RequestOpens
  <2>2. turn'[Main] = t /\ iter'[Main] = i
    BY <2>1 DEF Opens
  <2>3. /\ OpenNow = OpenAt("llm", t, i, attempt[Main])
        /\ OpenNow' = OpenAt("stream", t, i, attempt[Main] + 1)
    BY <2>1, <2>2 DEF OpenNow, OpenAt, RunSpan, TurnSpan, SpanOf
  <2>4. /\ OpenNow \subseteq OpenNow'
        /\ SpanOf(Main, "llm_request_started", t, i, attempt[Main] + 1) \in OpenNow'
    BY <2>3, OpenThere
  <2>5. \A x \in Elems(queue'[Main]) :
          /\ x.span = SpanOf(Main, "llm_request_started", t, i, attempt[Main] + 1)
          /\ x.run = RunOf(<<Main, t>>)
    BY <1>1, <2>1, OpensElems
  <2>6. QED
    BY <2>2, <2>4, <2>5 DEF MovesOn, OpensNow, RunOf
<1>3. CASE ~Request(Main)
  <2>1. at[Main] = "stream" /\ at[Main] \in StepPlaces \ {"guard"} /\ Quiet(Main)
    BY <1>3 DEF Asked, Answered, AnsweredWithCall, StreamCancelled, StreamRetried, StreamFailed,
                Ready, StepPlaces
  <2> DEFINE retry == <<Event(Place(Main), "llm_retry_scheduled", IterSpan(Main))>>
             error == <<Event(Place(Main), "llm_error", IterSpan(Main))>>
             llm == SpanOf(Main, "llm_request_started", t, i, attempt[Main])
  <2>2. /\ EndLlm(Main) \in Remarked(Main) /\ EndIteration(Main) \in Remarked(Main)
        /\ retry \in Remarked(Main) /\ error \in Remarked(Main)
    BY <1>1, <2>1, CommonRemarks
  <2>3. EndLlm(Main) \in Seq(Records) /\ EndIn(Elems(EndLlm(Main)), t, llm)
    BY <2>1, Ends
  <2> HIDE DEF retry, error, llm
  <2>4. /\ EndLlm(Main) \o retry \in Seq(Records)
        /\ EndIn(Elems(EndLlm(Main) \o retry), t, llm)
    <3>1. retry \in Seq(Records)
      BY <2>2 DEF Remarked
    <3>2. QED
      BY <2>3, <3>1, Joined, EndInMore
  <2>5. {"reply", "calls", "llm", "stream"} \subseteq StepPlaces
    BY DEF StepPlaces
  <2>6. OpenNow = OpenAt("llm", t, i, attempt[Main]) \cup {llm}
    BY <2>1, OpenThere DEF OpenNow, llm
  <2>7. /\ OpenAt("reply", t, i, attempt[Main]) = OpenAt("llm", t, i, attempt[Main])
        /\ OpenAt("calls", t, i, attempt[Main]) = OpenAt("llm", t, i, attempt[Main])
    <3>1. \A p \in {"llm", "reply", "calls", "round"} :
            OpenAt(p, t, i, attempt[Main]) = {RunSpan(Main, t), TurnSpan(Main, t),
                                              SpanOf(Main, "iteration_started", t, i, 0)}
      BY OpenThere
    <3>2. QED
      BY <3>1
  <2>8. Remarks(Main)
    <3>1. CASE Answered(Main)
      BY <1>1, <2>1, <2>2, <2>5, <3>1, StepRemarks DEF Answered
    <3>2. CASE AnsweredWithCall(Main)
      BY <1>1, <2>1, <2>2, <2>5, <3>2, StepRemarks DEF AnsweredWithCall
    <3>3. CASE StreamRetried(Main)
      BY <1>1, <2>1, <2>2, <2>5, <3>3, StepRemarks, RemarksJoin DEF StreamRetried, retry
    <3>4. CASE StreamCancelled(Main)
      BY <1>1, <2>1, <2>2, <3>4, LeaveRemarks, RemarksJoin DEF StreamCancelled
    <3>5. CASE StreamFailed(Main)
      <4>1. \E e \in {retry, error} : Leave(Main, EndLlm(Main) \o e)
        BY <3>5 DEF StreamFailed, retry, error
      <4>2. QED
        BY <1>1, <2>1, <2>2, <4>1, LeaveRemarks, RemarksJoin
    <3>6. QED
      BY <1>3, <3>1, <3>2, <3>3, <3>4, <3>5 DEF Asked
  <2>9. MovesOn \/ GivesUp
    <3>1. CASE Answered(Main)
      <4>1. Move(Main, "reply", EndLlm(Main))
        BY <3>1 DEF Answered
      <4>2. QED
        BY <2>1, <2>3, <2>6, <2>7, <4>1, MoveCloses
    <3>2. CASE AnsweredWithCall(Main)
      <4>1. Move(Main, "calls", EndLlm(Main))
        BY <3>2 DEF AnsweredWithCall
      <4>2. QED
        BY <2>1, <2>3, <2>6, <2>7, <4>1, MoveCloses
    <3>3. CASE StreamRetried(Main)
      <4>1. Move(Main, "llm", EndLlm(Main) \o retry)
        BY <3>3 DEF StreamRetried, retry
      <4>2. QED
        BY <2>1, <2>4, <2>6, <4>1, MoveCloses
    <3>4. CASE StreamCancelled(Main) \/ StreamFailed(Main)
      BY <2>1, <3>4, LeaveGivesUp DEF StreamCancelled, StreamFailed
    <3>5. QED
      BY <1>3, <3>1, <3>2, <3>3, <3>4 DEF Asked
  <2>10. QED
    BY <1>1, <2>8, <2>9, SettlesOpenNothing DEF OpensNow
<1>4. QED
  BY <1>2, <1>3

(* of an answer and its calls,                                             *)
LEMMA JudgedCloses ==
  ASSUME TypeOK, Steady, Judged(Main)
  PROVE  (MovesOn \/ GivesUp) /\ OpensNow
<1> DEFINE t == turn[Main]
           i == iter[Main]
           k == attempt[Main]
           iteration == SpanOf(Main, "iteration_started", t, i, 0)
           tool == SpanOf(Main, "tool_started", t, i, 0)
<1>1. Main \in Actors /\ LoopTypes
  BY ActorFacts DEF TypeOK
<1>2. CASE StartTool(Main)
  <2>1. /\ Opens(Main, ToolSpan(Main), IterSpan(Main), i)
        /\ at[Main] = "calls" /\ at'[Main] = "tool" /\ attempt' = attempt
    BY <1>1, <1>2, StartToolOpens
  <2>2. turn'[Main] = t /\ iter'[Main] = i
    BY <2>1 DEF Opens
  <2>3. OpenNow = OpenAt("calls", t, i, k) /\ OpenNow' = OpenAt("tool", t, i, k)
    BY <2>1, <2>2 DEF OpenNow, OpenAt, RunSpan, TurnSpan, SpanOf
  <2>4. ToolSpan(Main) = tool
    BY <1>1, SpanTypes
  <2>5. OpenNow \subseteq OpenNow' /\ tool \in OpenNow'
    BY <2>3, OpenThere
  <2>6. \A x \in Elems(queue'[Main]) : x.span = ToolSpan(Main) /\ x.run = RunOf(<<Main, t>>)
    BY <1>1, <2>1, OpensElems
  <2>7. QED
    BY <2>2, <2>4, <2>5, <2>6 DEF MovesOn, OpensNow, RunOf
<1>3. CASE ~StartTool(Main)
  <2>1. at[Main] \in {"reply", "calls", "tool"} /\ Quiet(Main)
    BY <1>3 DEF Judged, EmptyAnswer, EmptyAgain, YieldAnswer, FinalAnswer, AnswerDenied, EndTool,
                Ready
  <2>2. at[Main] \in StepPlaces \ {"guard"} /\ {"guard", "round"} \subseteq StepPlaces
    BY <2>1 DEF StepPlaces
  <2> DEFINE end == <<End(Place(Main), "tool_finished", ToolSpan(Main), IterSpan(Main))>>
             event == <<Event(Whole(Place(Main)), "yielded_to_user", active[Main].turnSpan)>>
  <2>3. /\ EndIteration(Main) \in Remarked(Main) /\ <<>> \in Remarked(Main)
        /\ end \in Remarked(Main) /\ event \o EndIteration(Main) \in Remarked(Main)
    BY <1>1, <2>2, CommonRemarks, RemarksOf, RemarksJoin
  <2>4. /\ EndIteration(Main) \in Seq(Records) /\ EndIn(Elems(EndIteration(Main)), t, iteration)
        /\ end \in Seq(Records) /\ EndIn(Elems(end), t, tool)
    BY <2>2, Ends
  <2>5. {"run_failed", "run_finished"} \subseteq OutcomeNames /\ <<>> \in Seq(Records)
    BY <2>3 DEF OutcomeNames, Remarked
  <2> HIDE DEF end, event, iteration, tool
  <2>6. /\ at[Main] = "reply" => OpenNow = {RunSpan(Main, t), TurnSpan(Main, t), iteration}
        /\ at[Main] = "tool" => OpenNow = OpenAt("round", t, i, k) \cup {tool}
        /\ OpenAt("guard", t, i, k) = {RunSpan(Main, t), TurnSpan(Main, t)}
    BY OpenThere DEF OpenNow, iteration, tool
  <2>7. CASE EmptyAnswer(Main) \/ AnswerDenied(Main)
    <3>1. Move(Main, "guard", EndIteration(Main)) /\ at[Main] = "reply"
      BY <2>7 DEF EmptyAnswer, AnswerDenied, Ready
    <3>2. MovesOn
      BY <2>1, <2>2, <2>4, <2>6, <3>1, MoveCloses
    <3>3. Remarks(Main)
      BY <1>1, <2>1, <2>2, <2>3, <3>1, StepRemarks
    <3>4. QED
      BY <1>1, <3>2, <3>3, SettlesOpenNothing DEF OpensNow
  <2>8. CASE EmptyAgain(Main) \/ FinalAnswer(Main)
    <3>1. PICK name \in OutcomeNames : Settle(Main, <<>>, name, EndIteration(Main))
      BY <2>5, <2>8 DEF EmptyAgain, FinalAnswer
    <3>2. at[Main] = "reply"
      BY <2>8 DEF EmptyAgain, FinalAnswer, Ready
    <3>3. MovesOn
      <4>1. \A s \in OpenNow : \/ s \in {RunSpan(Main, t), TurnSpan(Main, t)}
                               \/ EndIn(Elems(EndIteration(Main)), t, s)
        BY <2>4, <2>6, <3>2
      <4>2. at[Main] \in StepPlaces /\ Quiet(Main)
        BY <2>1, <2>2
      <4>3. QED
        BY <2>4, <2>5, <3>1, <4>1, <4>2, SettleCloses
    <3>4. Settles(Main)
      BY <1>1, <2>1, <2>2, <2>3, <3>1, SettleSettles
    <3>5. QED
      BY <1>1, <3>3, <3>4, SettlesOpenNothing DEF OpensNow
  <2>9. CASE YieldAnswer(Main)
    <3>1. Leave(Main, event \o EndIteration(Main))
      BY <2>9 DEF YieldAnswer, event
    <3>2. GivesUp
      BY <2>2, <3>1, LeaveGivesUp
    <3>3. Remarks(Main)
      BY <1>1, <2>1, <2>2, <2>3, <3>1, LeaveRemarks
    <3>4. QED
      BY <1>1, <3>2, <3>3, SettlesOpenNothing DEF OpensNow
  <2>10. CASE EndTool(Main)
    <3>1. Move(Main, "round", end) /\ at[Main] = "tool"
      BY <2>10 DEF EndTool, Ready, end
    <3>2. MovesOn
      BY <2>1, <2>2, <2>4, <2>6, <3>1, MoveCloses
    <3>3. Remarks(Main)
      BY <1>1, <2>1, <2>2, <2>3, <3>1, StepRemarks
    <3>4. QED
      BY <1>1, <3>2, <3>3, SettlesOpenNothing DEF OpensNow
  <2>11. QED
    BY <1>3, <2>7, <2>8, <2>9, <2>10 DEF Judged
<1>4. QED
  BY <1>2, <1>3

(* and of the end of a round.                                              *)
LEMMA ConcludedCloses ==
  ASSUME TypeOK, Steady, Concluded(Main)
  PROVE  (MovesOn \/ GivesUp) /\ OpensNow
<1> DEFINE t == turn[Main]
           i == iter[Main]
           iteration == SpanOf(Main, "iteration_started", t, i, 0)
<1>1. /\ at[Main] = "round" /\ at[Main] \in StepPlaces \ {"guard"} /\ Quiet(Main)
      /\ Main \in Actors /\ LoopTypes /\ "guard" \in StepPlaces
  BY ActorFacts DEF Concluded, RoundFinishes, RoundStalls, RoundAsksUser, RoundGoesOn, Ready,
                    StepPlaces, TypeOK
<1>2. /\ EndIteration(Main) \in Remarked(Main) /\ <<>> \in Remarked(Main)
      /\ Yielded(Main) \o EndIteration(Main) \in Remarked(Main)
  BY <1>1, CommonRemarks, RemarksOf, RemarksJoin
<1>3. /\ EndIteration(Main) \in Seq(Records) /\ EndIn(Elems(EndIteration(Main)), t, iteration)
  BY <1>1, Ends
<1>4. "run_finished" \in OutcomeNames /\ <<>> \in Seq(Records)
  BY <1>2 DEF OutcomeNames, Remarked
<1> HIDE DEF iteration
<1>5. /\ OpenNow = {RunSpan(Main, t), TurnSpan(Main, t), iteration}
      /\ OpenAt("guard", t, i, attempt[Main]) = {RunSpan(Main, t), TurnSpan(Main, t)}
  BY <1>1, OpenThere DEF OpenNow, iteration
<1>6. CASE RoundFinishes(Main)
  <2>1. Settle(Main, EndIteration(Main), "run_finished", <<>>)
    BY <1>6 DEF RoundFinishes
  <2>2. MovesOn
    BY <1>1, <1>3, <1>4, <1>5, <2>1, SettleCloses
  <2>3. Settles(Main)
    BY <1>1, <1>2, <1>4, <2>1, SettleSettles
  <2>4. QED
    BY <1>1, <2>2, <2>3, SettlesOpenNothing DEF OpensNow
<1>7. CASE RoundStalls(Main) \/ RoundAsksUser(Main)
  <2>1. PICK records \in Remarked(Main) : Leave(Main, records)
    BY <1>2, <1>7 DEF RoundStalls, RoundAsksUser
  <2>2. GivesUp
    BY <1>1, <2>1, LeaveGivesUp
  <2>3. Remarks(Main)
    BY <1>1, <2>1, LeaveRemarks
  <2>4. QED
    BY <1>1, <2>2, <2>3, SettlesOpenNothing DEF OpensNow
<1>8. CASE RoundGoesOn(Main)
  <2>1. Move(Main, "guard", EndIteration(Main))
    BY <1>8 DEF RoundGoesOn
  <2>2. MovesOn
    BY <1>1, <1>3, <1>5, <2>1, MoveCloses
  <2>3. Remarks(Main)
    BY <1>1, <1>2, <2>1, StepRemarks
  <2>4. QED
    BY <1>1, <2>2, <2>3, SettlesOpenNothing DEF OpensNow
<1>9. QED
  BY <1>6, <1>7, <1>8 DEF Concluded

(* All there is are records.                                               *)
LEMMA EverythingTypes ==
  ASSUME TypeOK
  PROVE  /\ Everything \subseteq Records /\ \A x \in Everything : x.run \in Nat
         /\ turn[Main] \in Nat
<1>1. Kept \subseteq Records
  BY DEF Kept, TypeOK, BusTypes
<1>2. \A a \in Actors : Elems(queue[a]) \subseteq Records
  BY DEF Elems, TypeOK, BusTypes
<1>3. \A x \in Records : x.run \in Nat
  BY DEF Records, Runs
<1>4. turn[Main] \in Nat
  BY ActorFacts DEF TypeOK, LoopTypes
<1>5. QED
  BY <1>1, <1>2, <1>3, <1>4 DEF Everything

(* The outcome of a run is published when its turn is over, and not        *)
(* counted before it is published.                                         *)
LEMMA MoveOutcomes ==
  ASSUME TypeOK, Steady, OutcomesKnown, NEW a \in Actors,
         \/ Acts(a) \/ Begins(a, turn[a] + 1)
         \/ a = Main /\ \E j \in 1..Jobs : Spawns(j)
  PROVE  OutcomesKnown'
<1>1. Everything' = Everything \cup Elems(queue'[a])
  BY MoveEverything
<1>2. UNCHANGED <<publishing, cache>>
  BY BusLeftAlone
<1>3. /\ RunRecordsFit(a)
      /\ \/ turn'[a] = turn[a] /\ (active[a] = Nil <=> active'[a] = Nil)
         \/ turn'[a] = turn[a] /\ active[a] # Nil /\ active'[a] = Nil
         \/ turn'[a] = turn[a] + 1
      /\ \A c \in Actors : c # a => turn'[c] = turn[c] /\ active'[c] = active[c]
  BY MovesTurn
<1>4. /\ \A x \in Everything : x.run \in Nat
      /\ turn[Main] \in Nat /\ Main \in Actors /\ OutcomeNames \subseteq RunNames
  BY EverythingTypes, ActorFacts DEF OutcomeNames, RunNames
<1>5. ASSUME NEW x \in Everything', x.name \in OutcomeNames
      PROVE  x.run <= turn'[Main] /\ (x.run = turn'[Main] => active'[Main] = Nil)
  <2>1. CASE x \in Everything
    <3>1. x.run <= turn[Main] /\ (x.run = turn[Main] => active[Main] = Nil)
      BY <1>5, <2>1 DEF OutcomesKnown
    <3>2. QED
      BY <1>3, <1>4, <2>1, <3>1
  <2>2. CASE x \in Elems(queue'[a])
    <3>1. a = Main /\ x.run = turn'[a] /\ active'[a] = Nil
      BY <1>3, <1>4, <1>5, <2>2 DEF RunRecordsFit, NoRun, OutcomeNames
    <3>2. turn'[a] \in Nat
      BY <1>3, <1>4, <3>1
    <3>3. QED
      BY <3>1, <3>2
  <2>3. QED
    BY <1>1, <1>5, <2>1, <2>2
<1>6. \A r \in Runs : IsSettled(r)' => HasOutcome(r)'
  BY <1>1, <1>2 DEF OutcomesKnown, IsSettled, HasOutcome
<1>7. \A c \in Actors : publishing'[c] # Nil => publishing'[c] \in Everything'
  BY <1>1, <1>2 DEF OutcomesKnown
<1>8. QED
  BY <1>5, <1>6, <1>7 DEF OutcomesKnown

(* So it is when a record is stored or counted.                            *)
LEMMA BusOutcomes ==
  ASSUME TypeOK, Steady, SettledInv, OutcomesKnown, NEW a \in Actors, failed' = 0,
         Persist(a) \/ Count(a)
  PROVE  OutcomesKnown' /\ Everything' = Everything /\ UNCHANGED loopVars
<1>1. publishing \in [Actors -> Records \cup {Nil}] /\ cache \in [Runs -> Summaries \cup {Nil}]
  BY DEF TypeOK, BusTypes
<1>2. CASE Persist(a)
  <2>1. /\ Everything' = Everything /\ UNCHANGED loopVars
        /\ Elems(queue[a]) = {Head(queue[a])} \cup Elems(queue'[a])
    BY <1>2, PersistEverything
  <2>2. publishing' = [publishing EXCEPT ![a] = Head(queue[a])] /\ cache' = cache
    BY <1>2, PersistTypes, PersistSettled
  <2>3. Head(queue[a]) \in Everything
    BY <2>1 DEF Everything
  <2>4. UNCHANGED <<turn, active>>
    BY <2>1 DEF loopVars
  <2>5. \A c \in Actors : publishing'[c] # Nil => publishing'[c] \in Everything
    BY <1>1, <2>2, <2>3 DEF OutcomesKnown
  <2>6. QED
    BY <2>1, <2>2, <2>4, <2>5 DEF OutcomesKnown, IsSettled, HasOutcome
<1>3. CASE Count(a)
  <2> DEFINE x == publishing[a]
             new == Updated(SummaryOf(x.run), x)
  <2>1. /\ x \in Records /\ x.run \in Runs /\ x # Nil
        /\ cache' = [cache EXCEPT ![x.run] = new]
        /\ publishing' = [publishing EXCEPT ![a] = Nil]
        /\ UNCHANGED <<loopVars, queue, stored>>
    BY <1>3, CountTypes, TraceAssumption
  <2>2. Everything' = Everything /\ UNCHANGED <<turn, active>>
    BY <2>1 DEF Everything, Kept, Elems, loopVars
  <2>3. x \in Everything
    BY <2>1 DEF OutcomesKnown
  <2>4. ASSUME new.status \in Settled PROVE HasOutcome(x.run)
    <3>1. CASE x.name \in OutcomeNames
      BY <2>3, <3>1 DEF HasOutcome
    <3>2. CASE x.name \notin OutcomeNames
      <4>1. new.status = SummaryOf(x.run).status
        BY <2>4, <3>2 DEF Updated, OutcomeNames, Settled
      <4>2. cache[x.run] # Nil \/ SummaryOf(x.run) = NewSummary
        BY <2>1 DEF SummaryOf, SettledInv, DiskCached
      <4>3. NewSummary.status \notin Settled
        BY DEF NewSummary, Settled
      <4>4. cache[x.run] # Nil /\ SummaryOf(x.run) = cache[x.run]
        BY <2>4, <4>1, <4>2, <4>3 DEF SummaryOf
      <4>5. IsSettled(x.run)
        BY <2>4, <4>1, <4>4 DEF IsSettled
      <4>6. QED
        BY <2>1, <4>5 DEF OutcomesKnown
    <3>3. QED
      BY <3>1, <3>2
  <2> HIDE DEF new
  <2>5. ASSUME NEW r \in Runs, IsSettled(r)' PROVE HasOutcome(r)
    <3>1. CASE r = x.run
      BY <1>1, <2>1, <2>4, <2>5, <3>1 DEF IsSettled
    <3>2. CASE r # x.run
      BY <1>1, <2>1, <2>5, <3>2 DEF IsSettled, OutcomesKnown
    <3>3. QED
      BY <3>1, <3>2
  <2>6. \A c \in Actors : publishing'[c] # Nil => publishing'[c] \in Everything
    BY <1>1, <2>1 DEF OutcomesKnown
  <2>7. QED
    BY <2>1, <2>2, <2>5, <2>6 DEF OutcomesKnown, HasOutcome
<1>4. QED
  BY <1>2, <1>3

(* A run that was given up gets no outcome.                                *)
LEMMA GivenUpKept ==
  ASSUME TypeOK, Steady, NEW a \in Actors, NEW r, r \in Nat, GivenUp(r),
         \/ Acts(a) /\ (a = Main => at[Main] \in StepPlaces)
         \/ Begins(a, turn[a] + 1)
         \/ a = Main /\ \E j \in 1..Jobs : Spawns(j)
  PROVE  GivenUp(r)'
<1>1. Everything' = Everything \cup Elems(queue'[a])
  BY MoveEverything
<1>2. /\ RunRecordsFit(a)
      /\ \A c \in Actors : c # a => turn'[c] = turn[c] /\ active'[c] = active[c]
  BY MovesTurn
<1>3. turn[Main] \in Nat /\ Main \in Actors /\ OutcomeNames \subseteq RunNames /\ 1..Jobs \subseteq Actors
  BY EverythingTypes, ActorFacts DEF OutcomeNames, RunNames
<1>4. /\ \A x \in Everything : ~(x.name \in OutcomeNames /\ x.run = r)
      /\ r <= turn[Main] /\ (r = turn[Main] => at[Main] \notin StepPlaces /\ active[Main] # Nil)
  BY DEF GivenUp, HasOutcome
<1>5. \A x \in Elems(queue'[a]) : x.name \in OutcomeNames => a = Main /\ x.run = turn'[Main]
  BY <1>2, <1>3 DEF RunRecordsFit, NoRun
<1>6. CASE a # Main
  <2>1. OnlyLoop(a)
    BY <1>6 DEF Acts, Remarks, Settles, OpensOwn, Opens, Begins
  <2>2. at'[Main] = at[Main]
    BY <1>3, <1>6, <2>1 DEF OnlyLoop, TypeOK, LoopTypes
  <2>3. QED
    BY <1>1, <1>2, <1>3, <1>4, <1>5, <1>6, <2>2 DEF GivenUp, HasOutcome
<1>7. ASSUME a = Main, turn'[Main] \in Nat, r < turn'[Main] PROVE GivenUp(r)'
  <2>1. \A x \in Everything' : ~(x.name \in OutcomeNames /\ x.run = r)
    BY <1>1, <1>3, <1>4, <1>5, <1>7
  <2>2. r <= turn'[Main] /\ r # turn'[Main]
    BY <1>7
  <2>3. QED
    BY <2>1, <2>2 DEF GivenUp, HasOutcome
<1>8. CASE a = Main /\ Acts(a) /\ at[Main] \in StepPlaces
  <2>1. turn' = turn
    BY <1>8 DEF Acts, Remarks, Settles, OpensOwn, Opens
  <2>2. r # turn[Main]
    BY <1>3, <1>4, <1>8 DEF GivenUp
  <2>3. QED
    BY <1>3, <1>4, <1>7, <1>8, <2>1, <2>2
<1>9. CASE a = Main /\ Begins(a, turn[a] + 1)
  <2>1. turn'[Main] = turn[Main] + 1
    BY <1>9 DEF Begins
  <2>2. QED
    BY <1>3, <1>4, <1>7, <1>9, <2>1
<1>10. CASE a = Main /\ \E j \in 1..Jobs : Spawns(j)
  <2>1. PICK j \in 1..Jobs : Spawns(j)
    BY <1>10
  <2>2. turn' = turn /\ at[Main] = "tool" /\ "tool" \in StepPlaces
    BY <2>1 DEF Spawns, StepPlaces
  <2>3. r # turn[Main]
    BY <1>4, <2>2
  <2>4. QED
    BY <1>3, <1>4, <1>7, <1>10, <2>2, <2>3
<1>11. QED
  BY <1>6, <1>8, <1>9, <1>10

(* A step of the user's loop leaves nothing open but what is open where it *)
(* then is.                                                                *)
LEMMA LoopClosed ==
  ASSUME TypeOK, Steady, OutcomesKnown, MainClosed, failed' = 0,
         Guarded(Main) \/ Asked(Main) \/ Judged(Main) \/ Concluded(Main)
  PROVE  MainClosed'
<1>1. Main \in Actors /\ turn[Main] \in Nat /\ \A x \in Everything : x.run \in Nat
  BY EverythingTypes, ActorFacts
<1>2. Acts(Main) /\ (MovesOn \/ GivesUp) /\ OpensNow
  BY <1>1, GuardedActs, AskedActs, JudgedActs, ConcludedActs,
     GuardedCloses, AskedCloses, JudgedCloses, ConcludedCloses
<1>3. at[Main] \in StepPlaces
  BY DEF Guarded, Stopped, Depleted, Iterate, Asked, Request, Answered, AnsweredWithCall,
         StreamCancelled, StreamRetried, StreamFailed, Judged, EmptyAnswer, EmptyAgain,
         YieldAnswer, FinalAnswer, AnswerDenied, StartTool, EndTool, Concluded, RoundFinishes,
         RoundStalls, RoundAsksUser, RoundGoesOn, Ready, StepPlaces
<1>4. turn' = turn
  BY <1>2 DEF Acts, Remarks, Settles, OpensOwn, Opens
<1>5. Everything' = Everything \cup Elems(queue'[Main])
  BY <1>1, <1>2, MoveEverything
<1>6. Book(Main) \subseteq Book(Main)' /\ Elems(queue'[Main]) \subseteq Book(Main)'
  BY <1>1, <1>2, BookKept DEF Book, Elems
<1>7. OutcomesKnown'
  BY <1>1, <1>2, MoveOutcomes
<1>8. ASSUME GivesUp, NEW r, r = turn[Main] PROVE GivenUp(r)'
  <2>1. \A x \in Everything' : x.name \in OutcomeNames => x.run # r
    BY <1>4, <1>7, <1>8 DEF OutcomesKnown, GivesUp
  <2>2. r <= turn'[Main]
    BY <1>1, <1>4, <1>8
  <2>3. QED
    BY <1>8, <2>1, <2>2 DEF GivenUp, HasOutcome, GivesUp
<1>9. ASSUME NEW x \in Everything, x.kind = "start", x.span.actor = Main
      PROVE  \/ EndIn(Book(Main)', x.run, x.span)
             \/ x.run = turn'[Main] /\ x.span \in OpenNow'
             \/ GivenUp(x.run)'
  <2>1. CASE EndIn(Book(Main), x.run, x.span)
    BY <1>6, <2>1, EndInMore
  <2>2. CASE GivenUp(x.run)
    BY <1>1, <1>2, <1>3, <2>2, GivenUpKept
  <2>3. CASE x.run = turn[Main] /\ x.span \in OpenNow
    <3>1. CASE MovesOn
      <4>1. x.span \in OpenNow' \/ EndIn(Elems(queue'[Main]), x.run, x.span)
        BY <2>3, <3>1 DEF MovesOn
      <4>2. QED
        BY <1>4, <1>6, <2>3, <4>1, EndInMore
    <3>2. CASE GivesUp
      BY <1>8, <2>3, <3>2
    <3>3. QED
      BY <1>2, <3>1, <3>2
  <2>4. QED
    BY <1>9, <2>1, <2>2, <2>3 DEF MainClosed
<1>10. ASSUME NEW x \in Elems(queue'[Main]), x.kind = "start"
       PROVE  x.run = turn'[Main] /\ x.span \in OpenNow'
  BY <1>2, <1>10 DEF OpensNow
<1>11. QED
  BY <1>5, <1>9, <1>10 DEF MainClosed, EndIn

(* A turn of the user's begins with its run's span and its own.            *)
LEMMA BeginClosed ==
  ASSUME TypeOK, Steady, MainClosed, failed' = 0, Begins(Main, turn[Main] + 1)
  PROVE  MainClosed'
<1> DEFINE t == turn[Main] + 1
<1>1. /\ Main \in Actors /\ turn[Main] \in Nat /\ \A x \in Everything : x.run \in Nat
  BY EverythingTypes, ActorFacts
<1>2. Everything' = Everything \cup Elems(queue'[Main])
  BY <1>1, MoveEverything
<1>3. Book(Main) \subseteq Book(Main)'
  BY <1>1, BookKept
<1>4. at[Main] = "idle" /\ at'[Main] = "guard" /\ turn'[Main] = t
      /\ "idle" \notin StepPlaces /\ "guard" \in StepPlaces
  BY DEF Begins, StepPlaces
<1>5. OpenNow = {}
  BY <1>4 DEF OpenNow, OpenAt
<1>6. OpenNow' = {RunSpan(Main, t), TurnSpan(Main, t)}
  <2>1. OpenNow' = OpenAt("guard", t, iter'[Main], attempt'[Main])
    BY <1>4 DEF OpenNow, OpenAt, RunSpan, TurnSpan, SpanOf
  <2>2. QED
    BY <2>1, OpenThere
<1>7. \A x \in Elems(queue'[Main]) : x.run = t /\ x.span \in {RunSpan(Main, t), TurnSpan(Main, t)}
  <2>1. PICK x, y \in Records :
          /\ Elems(queue'[Main]) = {x, y}
          /\ \A z \in {x, y} : z.run = RunOf(<<Main, t>>)
          /\ y.span = TurnSpan(Main, t) /\ x.span = RunSpan(Main, t)
    BY <1>1, BeginsElems
  <2>2. RunOf(<<Main, t>>) = t
    BY DEF RunOf
  <2>3. QED
    BY <2>1, <2>2
<1> HIDE DEF t
<1>8. ASSUME NEW x \in Everything, x.kind = "start", x.span.actor = Main
      PROVE  EndIn(Book(Main)', x.run, x.span) \/ GivenUp(x.run)'
  <2>1. EndIn(Book(Main), x.run, x.span) \/ GivenUp(x.run)
    BY <1>5, <1>8 DEF MainClosed
  <2>2. CASE EndIn(Book(Main), x.run, x.span)
    BY <1>3, <2>2, EndInMore
  <2>3. CASE GivenUp(x.run)
    BY <1>1, <2>3, GivenUpKept
  <2>4. QED
    BY <2>1, <2>2, <2>3
<1>9. QED
  BY <1>2, <1>4, <1>6, <1>7, <1>8 DEF MainClosed, EndIn

(* What is opened is of the actor that opens it.                           *)
LEMMA OpensSpan ==
  ASSUME TypeOK, Steady, NEW a \in Actors, NEW span, NEW parent, NEW i,
         Opens(a, span, parent, i), NEW x \in Elems(queue'[a])
  PROVE  x.span = span
<1>1. /\ x.kind = "start" /\ x.name = span.name
      /\ x.span = span /\ x.parent = parent /\ x.turn = <<a, turn[a]>>
      /\ x.run = RunOf(<<a, turn[a]>>) /\ x.iter = i
  BY OpensElems
<1>2. QED
  BY <1>1

(* The steps of others leave the user's loop where it is.                  *)
LEMMA OthersClosed ==
  ASSUME TypeOK, Steady, MainClosed, failed' = 0, NEW a \in Actors,
         \/ a # Main /\ (Acts(a) \/ Begins(a, turn[a] + 1))
         \/ a = Main /\ \E j \in 1..Jobs : Spawns(j)
  PROVE  MainClosed'
<1>1. /\ Main \in Actors /\ \A x \in Everything : x.run \in Nat
      /\ LoopTypes /\ turn[a] \in Nat /\ iter[a] \in Nat /\ attempt[a] \in Nat
  BY EverythingTypes, ActorFacts DEF TypeOK, LoopTypes
<1>2. Everything' = Everything \cup Elems(queue'[a]) /\ Book(Main) \subseteq Book(Main)'
  BY <1>1, MoveEverything, BookKept
<1>3. /\ at'[Main] = at[Main] /\ turn'[Main] = turn[Main] /\ iter'[Main] = iter[Main]
      /\ attempt'[Main] = attempt[Main]
  <2>1. PICK b \in Actors : b # Main /\ OnlyLoop(b)
    BY ActorFacts DEF Acts, Remarks, Settles, OpensOwn, Opens, Begins, Spawns
  <2>2. QED
    BY <1>1, <2>1 DEF OnlyLoop, LoopTypes
<1>4. OpenNow' = OpenNow
  BY <1>3 DEF OpenNow, OpenAt, RunSpan, TurnSpan, SpanOf
<1>5. ASSUME NEW x \in Elems(queue'[a]), x.kind = "start" PROVE x.span.actor # Main
  <2>1. CASE a = Main /\ \E j \in 1..Jobs : Spawns(j)
    <3>1. PICK j \in 1..Jobs : Spawns(j)
      BY <2>1
    <3>2. x.span = SubagentSpan(j) /\ j # Main
      BY <1>5, <2>1, <3>1, SpawnsElems, ActorFacts
    <3>3. QED
      BY <3>2 DEF SubagentSpan
  <2>2. CASE a # Main /\ (Remarks(a) \/ Settles(a))
    BY <1>5, <2>2, SettlesOpenNothing
  <2>3. CASE a # Main /\ OpensOwn(a)
    <3>1. /\ IterSpan(a) = SpanOf(a, "iteration_started", turn[a], iter[a], 0)
          /\ ToolSpan(a) = SpanOf(a, "tool_started", turn[a], iter[a], 0)
      BY <1>1, SpanTypes
    <3>2. ASSUME NEW span, NEW parent, NEW i, Opens(a, span, parent, i) PROVE x.span = span
      BY <1>5, <3>2, OpensSpan
    <3>3. QED
      BY <2>3, <3>1, <3>2 DEF OpensOwn, SpanOf
  <2>4. CASE a # Main /\ Begins(a, turn[a] + 1)
    <3>1. x.span = TurnSpan(a, turn[a] + 1)
      <4>1. PICK y, z \in Records :
              Elems(queue'[a]) = {y, z} /\ y = z /\ z.span = TurnSpan(a, turn[a] + 1)
        BY <2>4, BeginsElems
      <4>2. QED
        BY <1>5, <4>1
    <3>2. QED
      BY <2>4, <3>1 DEF TurnSpan, SpanOf
  <2>5. QED
    BY <2>1, <2>2, <2>3, <2>4 DEF Acts
<1>6. ASSUME NEW x \in Everything, x.kind = "start", x.span.actor = Main
      PROVE  \/ EndIn(Book(Main)', x.run, x.span)
             \/ x.run = turn'[Main] /\ x.span \in OpenNow'
             \/ GivenUp(x.run)'
  <2>1. CASE EndIn(Book(Main), x.run, x.span)
    BY <1>2, <2>1, EndInMore
  <2>2. CASE GivenUp(x.run)
    BY <1>1, <2>2, GivenUpKept
  <2>3. CASE x.run = turn[Main] /\ x.span \in OpenNow
    BY <1>3, <1>4, <2>3
  <2>4. QED
    BY <1>6, <2>1, <2>2, <2>3 DEF MainClosed
<1>7. QED
  BY <1>2, <1>5, <1>6 DEF MainClosed, EndIn

(* A job is done when finish_job has published the end of its span.        *)
LEMMA DoneByFinish ==
  ASSUME TypeOK, Next, NEW j \in 1..Jobs, at[j] # "done", at'[j] = "done"
  PROVE  FinishJob(j)
<1>1. at \in [Actors -> LoopPlaces] /\ j \in Actors /\ Main \in Actors /\ j # Main
  BY ActorFacts DEF TypeOK, LoopTypes
<1>2. ASSUME NEW a \in Actors, NEW place, NEW records, Go(a, place, records)
      PROVE  a = j /\ place = "done"
  BY <1>1, <1>2 DEF Go
<1>3. CASE \E a \in Actors : Persist(a) \/ Count(a)
  BY <1>1, <1>3 DEF Persist, Count, loopVars
<1>4. CASE \E a \in Actors : Begin(a)
  BY <1>2, <1>4 DEF Begin
<1>5. ASSUME NEW a \in Actors, NEW before, NEW name, NEW after
      PROVE  ~Settle(a, before, name, after) /\ ~Leave(a, before)
  BY <1>2 DEF Settle, Leave, Back
<1>6. ASSUME NEW a \in Actors, NEW place, NEW records, place # "done"
      PROVE  ~Move(a, place, records)
  BY <1>2, <1>6 DEF Move
<1>7. CASE \E a \in Actors : Guarded(a)
  BY <1>2, <1>5, <1>7 DEF Guarded, Stopped, Depleted, Iterate
<1>8. CASE \E a \in Actors : Asked(a)
  BY <1>2, <1>5, <1>6, <1>8
  DEF Asked, Request, Answered, AnsweredWithCall, StreamCancelled, StreamRetried, StreamFailed
<1>9. CASE \E a \in Actors : Judged(a)
  BY <1>5, <1>6, <1>9
  DEF Judged, EmptyAnswer, EmptyAgain, YieldAnswer, FinalAnswer, AnswerDenied, StartTool, EndTool
<1>10. CASE \E a \in Actors : Concluded(a)
  BY <1>5, <1>6, <1>10
  DEF Concluded, RoundFinishes, RoundStalls, RoundAsksUser, RoundGoesOn
<1>11. CASE \E i \in 1..Jobs : Spawn(i)
  BY <1>1, <1>11 DEF Spawn
<1>12. CASE \E i \in 1..Jobs : RunJob(i) \/ CancelJob(i)
  BY <1>6, <1>12, ActorFacts DEF RunJob, CancelJob
<1>13. CASE \E i \in 1..Jobs : FinishJob(i)
  <2>1. PICK i \in 1..Jobs : FinishJob(i)
    BY <1>13
  <2>2. PICK records : Move(i, "done", records)
    BY <2>1 DEF FinishJob
  <2>3. i = j
    BY <1>2, <2>2, ActorFacts DEF Move
  <2>4. QED
    BY <2>1, <2>3
<1>14. QED
  BY <1>3, <1>4, <1>7, <1>8, <1>9, <1>10, <1>11, <1>12, <1>13 DEF Next

(* finish_job publishes the end of the job's span.                         *)
LEMMA FinishEnds ==
  ASSUME TypeOK, Steady, NEW j \in 1..Jobs, FinishJob(j)
  PROVE  EndIn(Book(j)', seed'[j].place.run, SubagentSpan(j))
<1> DEFINE x == End(seed[j].place, "subagent_finished", SubagentSpan(j), seed[j].parent)
<1>1. PICK notice \in {<<>>, Notice(j)} : Move(j, "done", <<x>> \o notice)
  BY DEF FinishJob
<1>2. at[j] # "unborn" /\ Quiet(j) /\ j \in Actors
  BY ActorFacts DEF FinishJob, Ready
<1>3. <<x>> \in Remarked(j) /\ notice \in Remarked(j)
  BY <1>2, SeedRemarks
<1>4. x.kind = "end" /\ x.span = SubagentSpan(j) /\ x.run = seed[j].place.run
  BY DEF End, Record
<1> HIDE DEF x
<1>5. /\ <<x>> \o notice \in Seq(Records) /\ x \in Elems(<<x>>)
      /\ Elems(<<x>> \o notice) = Elems(<<x>>) \cup Elems(notice)
  <2>1. <<x>> \in Seq(Records) /\ notice \in Seq(Records)
    BY <1>3 DEF Remarked
  <2>2. x \in Elems(<<x>>)
    BY DEF Elems
  <2>3. QED
    BY <2>1, <2>2, Joined
<1>6. queue'[j] = <<x>> \o notice /\ seed' = seed
  BY <1>1, <1>2, <1>5, GoSilent DEF Move
<1>7. x \in Book(j)'
  BY <1>5, <1>6 DEF Book, Elems
<1>8. QED
  BY <1>4, <1>6, <1>7 DEF EndIn

(* The end of a job that is done stays published.                          *)
LEMMA StepJobsEnded ==
  ASSUME TypeOK, Steady, JobsEnded, Next, failed' = 0
  PROVE  JobsEnded' /\ failed = 0
<1>1. PICK a \in Actors :
        \/ Persist(a) \/ Count(a) \/ Acts(a) \/ Begins(a, turn[a] + 1)
        \/ a = Main /\ \E j \in 1..Jobs : Spawns(j)
  BY StepActs, ActorFacts
<1>2. failed = 0 /\ \A c \in Actors : Book(c) \subseteq Book(c)'
  BY <1>1, BookKept
<1>3. ASSUME NEW j \in 1..Jobs, at[j] = "done" PROVE seed'[j] = seed[j]
  <2>1. CASE seed' = seed
    BY <2>1
  <2>2. CASE \E i \in 1..Jobs : Spawns(i)
    <3>1. PICK i \in 1..Jobs : Spawns(i)
      BY <2>2
    <3>2. i # j /\ OnlyLoop(i) /\ j \in Actors
      BY <1>3, <3>1, ActorFacts DEF Spawns
    <3>3. QED
      BY <3>2 DEF OnlyLoop, TypeOK, LoopTypes
  <2>3. Persist(a) \/ Count(a) => seed' = seed
    BY PersistTypes, CountTypes DEF loopVars
  <2>4. Acts(a) \/ Begins(a, turn[a] + 1) => seed' = seed
    BY DEF Acts, Remarks, Settles, OpensOwn, Opens, Begins
  <2>5. QED
    BY <1>1, <2>1, <2>2, <2>3, <2>4
<1>4. ASSUME NEW j \in 1..Jobs, at'[j] = "done"
      PROVE  EndIn(Book(j)', seed'[j].place.run, SubagentSpan(j))
  <2>1. CASE at[j] = "done"
    <3>1. EndIn(Book(j), seed[j].place.run, SubagentSpan(j)) /\ j \in Actors
      BY <2>1, ActorFacts DEF JobsEnded
    <3>2. QED
      BY <1>2, <1>3, <2>1, <3>1, EndInMore
  <2>2. CASE at[j] # "done"
    BY <1>4, <2>2, DoneByFinish, FinishEnds
  <2>3. QED
    BY <2>1, <2>2
<1>5. QED
  BY <1>2, <1>4 DEF JobsEnded, EndIn, SubagentSpan

(* The bus leaves what is closed closed.                                   *)
LEMMA BusClosed ==
  ASSUME TypeOK, Steady, SettledInv, OutcomesKnown, MainClosed, NEW a \in Actors, failed' = 0,
         Persist(a) \/ Count(a)
  PROVE  MainClosed'
<1>1. Everything' = Everything /\ UNCHANGED loopVars
  BY BusOutcomes
<1>2. Book(Main) \subseteq Book(Main)'
  BY BookKept, ActorFacts
<1>3. UNCHANGED <<at, turn, iter, attempt, active>>
  BY <1>1 DEF loopVars
<1>4. OpenNow' = OpenNow
  BY <1>3 DEF OpenNow, OpenAt, RunSpan, TurnSpan, SpanOf
<1>5. ASSUME NEW x \in Everything, x.kind = "start", x.span.actor = Main
      PROVE  \/ EndIn(Book(Main)', x.run, x.span)
             \/ x.run = turn'[Main] /\ x.span \in OpenNow'
             \/ GivenUp(x.run)'
  <2>1. CASE EndIn(Book(Main), x.run, x.span)
    BY <1>2, <2>1, EndInMore
  <2>2. CASE GivenUp(x.run)
    BY <1>1, <1>3, <2>2 DEF GivenUp, HasOutcome
  <2>3. CASE x.run = turn[Main] /\ x.span \in OpenNow
    BY <1>3, <1>4, <2>3
  <2>4. QED
    BY <1>5, <2>1, <2>2, <2>3 DEF MainClosed
<1>6. QED
  BY <1>1, <1>5 DEF MainClosed, EndIn

(* A step of nobody's leaves the jobs' ends where they are.                *)
LEMMA JobsStay ==
  ASSUME JobsEnded, at' = at, seed' = seed, \A a \in Actors : Book(a)' = Book(a)
  PROVE  JobsEnded'
<1>1. ASSUME NEW j \in 1..Jobs, at'[j] = "done"
      PROVE  EndIn(Book(j)', seed'[j].place.run, SubagentSpan(j))
  BY <1>1, ActorFacts DEF JobsEnded
<1>2. QED
  BY <1>1 DEF JobsEnded

(* Every step keeps the invariant.                                         *)
LEMMA StepClosed ==
  ASSUME TypeOK, Steady, SettledInv, ClosedInv, [Next]_vars
  PROVE  ClosedInv'
<1> SUFFICES ASSUME failed' = 0
             PROVE  MainClosed' /\ OutcomesKnown' /\ JobsEnded'
  BY DEF ClosedInv
<1>1. CASE UNCHANGED vars
  <2>1. failed = 0
    BY <1>1 DEF vars, busVars
  <2>2. MainClosed /\ OutcomesKnown /\ JobsEnded
    BY <2>1 DEF ClosedInv
  <2>3. /\ UNCHANGED <<at, turn, iter, attempt, seed, active, queue, publishing, stored, cache>>
        /\ Everything' = Everything
    BY <1>1 DEF vars, loopVars, busVars, Everything, Kept, Elems
  <2>4. \A a \in Actors : Book(a)' = Book(a)
    BY <2>3 DEF Book, Kept, Elems
  <2>5. OpenNow' = OpenNow
    BY <2>3 DEF OpenNow, OpenAt, RunSpan, TurnSpan, SpanOf
  <2>6. \A r : GivenUp(r) <=> GivenUp(r)'
    BY <2>3 DEF GivenUp, HasOutcome
  <2>7. MainClosed'
    <3>1. Book(Main)' = Book(Main)
      BY <2>4, ActorFacts
    <3>2. QED
      BY <2>2, <2>3, <2>5, <2>6, <3>1 DEF MainClosed, EndIn
  <2>8. OutcomesKnown'
    BY <2>2, <2>3 DEF OutcomesKnown, IsSettled, HasOutcome
  <2>9. JobsEnded'
    BY <2>2, <2>3, <2>4, JobsStay
  <2>10. QED
    BY <2>7, <2>8, <2>9
<1>2. CASE Next
  <2>1. PICK a \in Actors :
          \/ Persist(a) \/ Count(a) \/ Acts(a) \/ Begins(a, turn[a] + 1)
          \/ a = Main /\ \E j \in 1..Jobs : Spawns(j)
    BY <1>2, StepActs, ActorFacts
  <2>2. failed = 0
    BY <2>1, BookKept
  <2>3. MainClosed /\ OutcomesKnown /\ JobsEnded
    BY <2>2 DEF ClosedInv
  <2>4. JobsEnded'
    BY <1>2, <2>3, StepJobsEnded
  <2>5. OutcomesKnown'
    BY <2>1, <2>3, MoveOutcomes, BusOutcomes
  <2>6. MainClosed'
    <3>1. CASE \E b \in Actors : Persist(b) \/ Count(b)
      BY <2>3, <3>1, BusClosed
    <3>2. CASE \E b \in Actors : Begin(b) \/ Guarded(b) \/ Asked(b) \/ Judged(b) \/ Concluded(b)
      <4>1. PICK b \in Actors : Begin(b) \/ Guarded(b) \/ Asked(b) \/ Judged(b) \/ Concluded(b)
        BY <3>2
      <4>2. Acts(b) \/ Begins(b, turn[b] + 1)
        BY <4>1, BeginBegins, GuardedActs, AskedActs, JudgedActs, ConcludedActs
      <4>3. CASE b # Main
        BY <2>3, <4>2, <4>3, OthersClosed
      <4>4. CASE b = Main /\ Begin(b)
        BY <2>3, <4>4, BeginBegins, BeginClosed
      <4>5. CASE b = Main /\ ~Begin(b)
        BY <2>3, <4>1, <4>5, LoopClosed
      <4>6. QED
        BY <4>3, <4>4, <4>5
    <3>3. CASE \E j \in 1..Jobs : Spawn(j)
      BY <2>3, <3>3, SpawnSpawns, OthersClosed, ActorFacts
    <3>4. CASE \E j \in 1..Jobs : RunJob(j) \/ FinishJob(j) \/ CancelJob(j)
      <4>1. PICK j \in 1..Jobs : Remarks(j)
        BY <3>4, JobActs
      <4>2. j \in Actors /\ j # Main /\ Acts(j)
        BY <4>1, ActorFacts DEF Acts
      <4>3. QED
        BY <2>3, <4>2, OthersClosed
    <3>5. QED
      BY <1>2, <3>1, <3>2, <3>3, <3>4 DEF Next
  <2>7. QED
    BY <2>4, <2>5, <2>6
<1>3. QED
  BY <1>1, <1>2

(* At first nothing is open.                                               *)
LEMMA InitClosed ==
  ASSUME Init
  PROVE  ClosedInv
<1>1. /\ \A a \in Actors : queue[a] = <<>> /\ publishing[a] = Nil /\ at[a] # "done"
      /\ \A r \in Runs : cache[r] = Nil
  BY DEF Init, LoopInit, BusInit
<1>2. stored = {}
  BY DEF Init, BusInit
<1>3. Everything = {}
  BY <1>1, <1>2, ElemsOf DEF Everything, Kept
<1>4. QED
  BY <1>1, <1>3, ActorFacts DEF ClosedInv, MainClosed, OutcomesKnown, JobsEnded, IsSettled

(* What the invariant says of a loop that has returned.                    *)
LEMMA ClosedSettled ==
  ASSUME TypeOK, Complete, ClosedInv
  PROVE  SettledIsClosed
<1> SUFFICES ASSUME failed = 0
             PROVE  /\ Ready(Main, "idle") =>
                         \A r \in Runs : IsSettled(r) =>
                           \A span \in NodeSpans(r) : span.actor = Main => span \in Ended(r)
                    /\ \A j \in 1..Jobs : Ready(j, "done") =>
                         SubagentSpan(j) \in Ended(seed[j].place.run)
  BY DEF SettledIsClosed, IsSettled
<1>1. \A r : \A x : x \in GetRecords(r) <=> x \in Kept /\ x.run = r
  <2> SUFFICES ASSUME NEW r PROVE \A x : x \in GetRecords(r) <=> x \in Kept /\ x.run = r
    OBVIOUS
  <2>1. Indexed(r) = Filed(r)
    BY DEF Complete, Indexed, Filed
  <2>2. GetRecords(r) = {s.line.record : s \in Filed(r)}
    BY <2>1 DEF GetRecords
  <2>3. QED
    BY <2>2 DEF Kept, Filed
<1>2. ASSUME NEW a, queue[a] = <<>>, NEW r, NEW span, EndIn(Book(a), r, span)
      PROVE  span \in Ended(r)
  <2>1. Book(a) = Kept
    BY <1>2, ElemsOf DEF Book
  <2>2. QED
    BY <1>1, <1>2, <2>1 DEF EndIn, Ended
<1>3. ASSUME Ready(Main, "idle"), NEW r \in Runs, IsSettled(r), NEW span \in NodeSpans(r),
             span.actor = Main
      PROVE  span \in Ended(r)
  <2>1. PICK x \in GetRecords(r) : x.kind = "start" /\ x.span = span
    BY <1>3 DEF NodeSpans, Nodes
  <2>2. x \in Everything /\ x.run = r
    BY <1>1, <2>1 DEF Everything
  <2>3. queue[Main] = <<>> /\ OpenNow = {}
    BY <1>3 DEF Ready, Quiet, OpenNow, OpenAt, StepPlaces
  <2>4. ~GivenUp(r)
    BY <1>3 DEF ClosedInv, OutcomesKnown, GivenUp
  <2>5. EndIn(Book(Main), r, span)
    BY <1>3, <2>1, <2>2, <2>3, <2>4 DEF ClosedInv, MainClosed
  <2>6. QED
    BY <1>2, <2>3, <2>5
<1>4. ASSUME NEW j \in 1..Jobs, Ready(j, "done")
      PROVE  SubagentSpan(j) \in Ended(seed[j].place.run)
  <2>1. at[j] = "done" /\ queue[j] = <<>>
    BY <1>4 DEF Ready, Quiet
  <2>2. EndIn(Book(j), seed[j].place.run, SubagentSpan(j))
    BY <2>1 DEF ClosedInv, JobsEnded
  <2>3. QED
    BY <1>2, <2>1, <2>2
<1>5. QED
  BY <1>3, <1>4

(* step and finish_active_trace: once the loop of a settled run has        *)
(* returned and nothing was lost, every span it opened in the run is       *)
(* ended, and so is the span of a job that is done.                        *)
THEOREM SettledIsClosedCorrect == Spec => []SettledIsClosed
<1>1. Init => ClosedInv
  BY InitClosed
<1>2. TypeOK /\ Steady /\ SettledInv /\ ClosedInv /\ [Next]_vars => ClosedInv'
  BY StepClosed
<1>3. Spec => []ClosedInv
  BY <1>1, <1>2, SteadyCorrect, SettledInvariant, PTL DEF Spec
<1>4. TypeOK /\ Complete /\ ClosedInv => SettledIsClosed
  BY ClosedSettled
<1>5. QED
  BY <1>3, <1>4, SteadyCorrect, CompleteCorrect, PTL
=============================================================================
