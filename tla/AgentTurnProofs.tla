--------------------------- MODULE AgentTurnProofs ---------------------------
(***************************************************************************)
(* Proofs about AgentTurn for every budget, number of calls, retries,      *)
(* turns and restarts.                                                     *)
(***************************************************************************)
EXTENDS AgentTurn, SequenceTheorems, TLAPS

(* Where step() stands, it has a turn, and what it works on.               *)
Positions ==
  /\ pc # "idle" => turn # 0
  /\ pc = "backoff" => attempts < MaxAttempts
  /\ pc \in {"ask", "receive", "backoff"} => attempts >= 1
  /\ pc \in {"enter", "run"} => calls # <<>>

InRound == pc \in {"call", "enter", "run"}

(* In a round, the calls without a response are the ones whose response is *)
(* in response_parts and the ones to come; elsewhere there are none.       *)
Pairing ==
  /\ InRound => owed = answered + Len(calls)
  /\ ~InRound => answered = 0 /\ (pc # "idle" => owed = 0)
  /\ pc = "reply" \/ pc = "receive" \/ InRound \/ calls = <<>>
  /\ \A i \in DOMAIN dialogue : dialogue[i].owed = 0
  /\ \A i \in DOMAIN transcript : transcript[i].owed = 0

(* How many waits may have begun with the flag set, by where step() is:    *)
(* autopilot's report comes before a request.                              *)
Reports == IF Autopilot THEN 1 ELSE 0

Lateness ==
  /\ pc # "idle" /\ ~cancelled => late = 0
  /\ pc \in {"audit", "enter"} => late = 0
  /\ pc = "prepare" => late <= Reports
  /\ pc \in {"ask", "receive", "backoff"} => late <= attempts + Reports
  /\ pc = "run" => late <= 1
  /\ late <= MaxAttempts + Reports

(* What has been asked, and what the energy left still allows.             *)
Spent ==
  LET ahead == CASE pc = "idle"    -> 0
                 [] pc = "prepare" -> energy
                 [] OTHER          -> energy - 1
  IN /\ pc = "idle" => energy = Budget
     /\ pc = "audit" => energy = 1
     /\ pc # "idle" =>
          /\ from <= baseline
          /\ asks + ahead <= (Budget - 1) + Energy * (baseline - from)

IInv == TypeOK /\ Positions /\ Pairing

-----------------------------------------------------------------------------
(* Type correctness.                                                       *)

(* The assumption, constant by constant.                                   *)
LEMMA Limits ==
  /\ Budget \in Nat /\ Budget >= 1 /\ Energy \in Nat /\ Energy >= 1
  /\ MaxAttempts \in Nat /\ MaxAttempts >= 1
  /\ MaxEmpty \in Nat /\ MaxEmpty >= 1 /\ Repeats \in Nat /\ Repeats >= 1
  /\ Keep \in Nat /\ MaxTurns \in Nat /\ MaxCalls \in Nat
  /\ MaxTodos \in Nat /\ MaxRestarts \in Nat
BY AgentAssumption

(* A conversation remembers inputs.                                        *)
LEMMA ToldType ==
  ASSUME NEW s \in Seq(Turn)
  PROVE  Told(s) \in SUBSET (1 .. MaxTurns)
<1>1. \A i \in DOMAIN s : s[i] \in Turn
  OBVIOUS
<1>2. \A i \in DOMAIN s : s[i].of \subseteq 1 .. MaxTurns
  BY <1>1 DEF Turn
<1>3. QED
  BY <1>2 DEF Told

(* A turn that is kept is a Turn.                                          *)
LEMMA KeptType ==
  ASSUME NEW told \in SUBSET (1 .. MaxTurns), NEW k \in 0 .. MaxCalls
  PROVE  [of |-> told, owed |-> k] \in Turn
BY DEF Turn

(* end_turn keeps the types of the conversation ...                        *)
LEMMA EndTurnTypes ==
  ASSUME HistoryTypes, turn # 0, NEW k \in 0 .. MaxCalls, EndTurn(k),
         turns' = turns, restarts' = restarts
  PROVE  HistoryTypes'
<1>1. [of |-> {turn}, owed |-> k] \in Turn
  BY Limits DEF HistoryTypes, Turn
<1>2. QED
  BY <1>1, Limits DEF HistoryTypes, EndTurn

(* ... and so does a compaction.                                           *)
LEMMA CompactTypes ==
  ASSUME HistoryTypes, NEW n \in 0 .. Len(dialogue), Compact(n),
         turns' = turns, restarts' = restarts
  PROVE  HistoryTypes'
<1>1. CASE n = 0
  BY <1>1 DEF HistoryTypes, Compact, historyVars
<1>2. CASE n # 0
  <2>1. /\ SubSeq(dialogue, 1, n) \in Seq(Turn)
        /\ SubSeq(dialogue, n + 1, Len(dialogue)) \in Seq(Turn)
    <3>1. \A i \in 1 .. Len(dialogue) : dialogue[i] \in Turn
      BY DEF HistoryTypes
    <3>2. Len(dialogue) \in Nat
      BY DEF HistoryTypes
    <3>3. QED
      BY <3>1, <3>2, SubSeqProperties
  <2>2. PICK front \in Seq(Turn), rest \in Seq(Turn) :
          /\ transcript' = transcript \o front
          /\ dialogue' = <<[of |-> Told(front), owed |-> 0]>> \o rest
    BY <1>2, <2>1 DEF Compact
  <2>3. [of |-> Told(front), owed |-> 0] \in Turn
    <3>1. Told(front) \in SUBSET (1 .. MaxTurns) /\ 0 \in 0 .. MaxCalls
      BY ToldType, Limits
    <3>2. QED
      BY <3>1, KeptType
  <2>4. PICK summary \in Turn : dialogue' = <<summary>> \o rest
    BY <2>2, <2>3
  <2>5. dialogue' \in Seq(Turn)
    BY <2>4
  <2>6. transcript' \in Seq(Turn)
    BY <2>2 DEF HistoryTypes
  <2>7. QED
    BY <1>2, <2>5, <2>6 DEF HistoryTypes, Compact
<1>3. QED
  BY <1>1, <1>2

(* How many turns a compaction may take.                                   *)
LEMMA CompactableTypes ==
  ASSUME HistoryTypes, NEW n \in Compactable
  PROVE  n \in 0 .. Len(dialogue)
BY DEF HistoryTypes, Compactable

(* What step() keeps when it returns.                                      *)
LEMMA LeaveTypes ==
  ASSUME TypeOK, NEW e \in Exits, Leave(e), mode' = mode,
         cancelled' \in BOOLEAN, ringing' \in BOOLEAN
  PROVE  LoopTypes' /\ FlagTypes' /\ RoundTypes'
<1>1. LoopTypes'
  BY Limits DEF TypeOK, LoopTypes, Leave, Pc
<1>2. FlagTypes'
  BY DEF Leave, FlagTypes
<1>3. RoundTypes'
  BY Limits DEF Leave, RoundTypes
<1>4. QED
  BY <1>1, <1>2, <1>3

(* An action that ends the turn and returns.                               *)
LEMMA FinishTypes ==
  ASSUME TypeOK, turn # 0, NEW e \in Exits, NEW k \in 0 .. MaxCalls,
         EndTurn(k), Leave(e),
         UNCHANGED <<envVars, cancelVars, guardVars, todos, auditVars, late>>
  PROVE  TypeOK'
<1>1. LoopTypes' /\ FlagTypes' /\ RoundTypes'
  BY LeaveTypes DEF TypeOK, FlagTypes, envVars, cancelVars
<1>2. HistoryTypes'
  BY EndTurnTypes DEF TypeOK, envVars
<1>3. GuardTypes' /\ AuditTypes'
  BY DEF TypeOK, GuardTypes, AuditTypes, guardVars, auditVars
<1>4. QED
  BY <1>1, <1>2, <1>3 DEF TypeOK

(* The invariant holds when the session is opened.                         *)
LEMMA InitIInv == Init => IInv
<1> SUFFICES ASSUME Init PROVE IInv
  OBVIOUS
<1> USE DEF Init
<1>1. LoopTypes /\ FlagTypes /\ RoundTypes
  <2>1. LoopTypes
    BY Limits DEF LoopTypes, Pc, Exits
  <2>2. FlagTypes
    BY DEF FlagTypes
  <2>3. RoundTypes
    BY Limits DEF RoundTypes
  <2>4. QED
    BY <2>1, <2>2, <2>3
<1>2. GuardTypes
  BY Limits DEF GuardTypes, Keys
<1>3. HistoryTypes
  BY Limits DEF HistoryTypes
<1>4. AuditTypes
  BY Limits DEF AuditTypes, Todos, NoTodos
<1>5. Positions /\ Pairing
  BY DEF Positions, Pairing, InRound
<1>6. QED
  BY <1>1, <1>2, <1>3, <1>4, <1>5 DEF IInv, TypeOK

-----------------------------------------------------------------------------
(* The steps of a round.                                                   *)

(* What the execution guard records after a tool.                          *)
LEMMA RecordTypes ==
  ASSUME IInv, calls # <<>>, NEW ok \in BOOLEAN, NEW signal, Record(ok, signal)
  PROVE  GuardTypes'
<1>1. Current \in Kinds
  BY DEF IInv, TypeOK, RoundTypes, Current
<1>2. <<Current, ok>> \in Keys
  BY <1>1 DEF Keys
<1>3. CASE ~Autopilot
  BY <1>3 DEF Record, guardVars, IInv, TypeOK, GuardTypes
<1>4. CASE Autopilot
  <2>1. PICK n \in RunOf(<<Current, ok>>), s \in Strikes :
          Recorded(<<Current, ok>>, n, s, signal)
    BY <1>4 DEF Record
  <2>2. n \in Nat /\ s \in 0 .. 2
    BY Limits DEF IInv, TypeOK, GuardTypes, RunOf, Strikes
  <2>3. CASE n < Repeats
    <3>1. last' = <<Current, ok>> /\ run' = n /\ strike' = s
      BY <2>1, <2>3 DEF Recorded
    <3>2. QED
      BY <1>2, <2>2, <2>3, <3>1, Limits DEF GuardTypes
  <2>4. CASE ~(n < Repeats)
    <3>1. last' = NoKey /\ run' = 0 /\ strike' \in 0 .. 2
      BY <2>1, <2>2, <2>4 DEF Recorded
    <3>2. QED
      BY <3>1, Limits DEF GuardTypes, Keys
  <2>5. QED
    BY <2>3, <2>4
<1>5. QED
  BY <1>3, <1>4

(* The steps of a round keep the execution guard, ...                      *)
LEMMA GuardCall ==
  ASSUME IInv, CallStep
  PROVE  GuardTypes'
<1>1. CASE UNCHANGED guardVars
  BY <1>1 DEF guardVars, IInv, TypeOK, GuardTypes
<1>2. ASSUME NEW ok \in BOOLEAN, NEW signal \in Signals,
             pc = "run", Record(ok, signal)
      PROVE  GuardTypes'
  BY <1>2, RecordTypes DEF IInv, Positions
<1>3. CASE Skip \/ Refuse \/ Halt \/ Exhaust \/ Launch \/ Enter
  BY <1>1, <1>3 DEF Skip, Refuse, Halt, Exhaust, Launch, Enter
<1>4. ASSUME NEW ok \in BOOLEAN, NEW signal \in Signals, Return(ok, signal)
      PROVE  GuardTypes'
  BY <1>2, <1>4 DEF Return
<1>5. ASSUME NEW signal \in Signals, Interrupt(signal)
      PROVE  GuardTypes'
  BY <1>2, <1>5 DEF Interrupt
<1>6. QED
  BY <1>3, <1>4, <1>5 DEF CallStep

(* ... its counters, ...                                                   *)
LEMMA CallCounts ==
  ASSUME IInv, CallStep
  PROVE  budget' \in Nat /\ answered' \in {answered, answered + 1}
<1> USE DEF IInv, TypeOK, RoundTypes
<1>1. CASE Skip \/ Refuse \/ Halt \/ Exhaust \/ Enter
  BY <1>1 DEF Skip, Refuse, Halt, Exhaust, Enter, Wait, Respond, roundVars
<1>2. CASE Launch
  BY <1>2 DEF Launch, Costs
<1>3. ASSUME NEW ok \in BOOLEAN, NEW signal \in Signals, Return(ok, signal)
      PROVE  budget' = budget /\ answered' = answered + 1
  BY <1>3 DEF Return, Respond
<1>4. ASSUME NEW signal \in Signals, Interrupt(signal)
      PROVE  budget' = budget /\ answered' = answered + 1
  BY <1>4 DEF Interrupt, Respond
<1>5. QED
  BY <1>1, <1>2, <1>3, <1>4 DEF CallStep

(* ... and the audit.                                                      *)
LEMMA AuditCall ==
  ASSUME IInv, CallStep
  PROVE  AuditTypes'
<1> USE DEF IInv, TypeOK, AuditTypes, CallStep
<1>1. baseline' = baseline /\ from' = from /\ asks' = asks
  BY DEF Skip, Refuse, Halt, Exhaust, Launch, Enter, Return, Interrupt, Wait,
         callVars, auditVars
<1>2. late' \in Nat
  <2>1. CASE Enter
    BY <2>1 DEF Enter, Wait
  <2>2. CASE ~Enter
    <3>1. late' = late
      BY <2>2 DEF Skip, Refuse, Halt, Exhaust, Launch, Return, Interrupt
    <3>2. QED
      BY <3>1
  <2>3. QED
    BY <2>1, <2>2
<1>3. todos' \in Todos
  BY DEF Skip, Refuse, Halt, Exhaust, Launch, Enter, Return, Interrupt,
         Rewrites
<1>4. QED
  BY <1>1, <1>2, <1>3

-----------------------------------------------------------------------------
(* Every action keeps the types, part by part.                             *)

(* The execution guard.                                                    *)
LEMMA GuardTypesStep ==
  ASSUME IInv, Next
  PROVE  GuardTypes'
<1>1. CASE GuardStep
  BY <1>1
     DEF IInv, TypeOK, GuardTypes, GuardStep, Stops, Spend, Exhausted, Refresh,
         Deplete, Prepare, Finish, guardVars
<1>2. CASE StreamStep
  BY <1>2
     DEF IInv, TypeOK, GuardTypes, StreamStep, Connect, StreamEnds, Retry,
         Fail, Backoff, StopWaiting, HearCall, Finish, waitVars, guardVars
<1>3. CASE ReplyStep
  BY <1>3
     DEF IInv, TypeOK, GuardTypes, ReplyStep, Empty, Yield, Answer, Garbled,
         Round, Finish, Again, guardVars
<1>4. CASE CallStep
  BY <1>4, GuardCall
<1>5. CASE EndStep
  BY <1>5
     DEF IInv, TypeOK, GuardTypes, EndStep, Stall, YieldToUser, Iterate,
         guardVars
<1>6. CASE Decline \/ StartStopped \/ Start \/ Cancel \/ Notify \/ Restart
  BY <1>6, Limits
     DEF IInv, TypeOK, GuardTypes, Decline, StartStopped, Start, Cancel,
         Notify, Restart, loopVars, guardVars, Keys
<1>7. QED
  BY <1>1, <1>2, <1>3, <1>4, <1>5, <1>6 DEF Next, Loop

(* Where the step stands and what it counts.                               *)
LEMMA LoopTypesStep ==
  ASSUME IInv, Next
  PROVE  LoopTypes'
<1>1. CASE GuardStep
  BY <1>1, Limits
     DEF IInv, TypeOK, LoopTypes, GuardStep, Stops, Spend, Exhausted, Refresh,
         Deplete, Prepare, Finish, Leave, Wait, Positions, Pc, Exits,
         cancelVars, envVars
<1>2. CASE StreamStep
  BY <1>2, Limits
     DEF IInv, TypeOK, LoopTypes, StreamStep, Connect, StreamEnds, Retry,
         Fail, Backoff, StopWaiting, HearCall, Finish, Leave, Wait, Retried,
         Positions, Pc, Exits, waitVars, envVars
<1>3. CASE ReplyStep
  BY <1>3, Limits
     DEF IInv, TypeOK, LoopTypes, ReplyStep, Empty, Yield, Answer, Garbled,
         Round, Finish, Leave, Again, Pc, Exits, envVars
<1>4. CASE CallStep
  BY <1>4, Limits
     DEF IInv, TypeOK, LoopTypes, CallStep, Skip, Refuse, Halt, Exhaust,
         Launch, Enter, Return, Interrupt, Wait, Pc, envVars, callVars,
         HasCall, Runnable
<1>5. CASE EndStep
  BY <1>5, Limits
     DEF IInv, TypeOK, LoopTypes, EndStep, Stall, YieldToUser, Iterate,
         Leave, Pc, Exits, envVars
<1>6. CASE Decline \/ StartStopped \/ Start \/ Cancel \/ Notify \/ Restart
  BY <1>6, Limits
     DEF IInv, TypeOK, LoopTypes, Decline, StartStopped, Start, Cancel,
         Notify, Restart, Leave, Pc, Exits, loopVars, envVars
<1>7. QED
  BY <1>1, <1>2, <1>3, <1>4, <1>5, <1>6 DEF Next, Loop

(* The flags.                                                              *)
LEMMA FlagTypesStep ==
  ASSUME IInv, Next
  PROVE  FlagTypes'
<1>1. CASE GuardStep
  BY <1>1
     DEF IInv, TypeOK, FlagTypes, GuardStep, Stops, Spend, Exhausted, Refresh,
         Deplete, Prepare, Finish, Leave, Wait, roundVars, cancelVars
<1>2. CASE StreamStep
  BY <1>2
     DEF IInv, TypeOK, FlagTypes, StreamStep, Connect, StreamEnds, Retry,
         Fail, Backoff, StopWaiting, HearCall, Finish, Leave, Wait, waitVars,
         roundVars, cancelVars
<1>3. CASE ReplyStep
  BY <1>3
     DEF IInv, TypeOK, FlagTypes, ReplyStep, Empty, Yield, Answer, Garbled,
         Round, Finish, Leave, Again, roundVars, cancelVars
<1>4. CASE CallStep
  BY <1>4
     DEF IInv, TypeOK, FlagTypes, CallStep, Skip, Refuse, Halt, Exhaust,
         Launch, Enter, Return, Interrupt, Wait, callVars, roundVars,
         cancelVars
<1>5. CASE EndStep
  BY <1>5
     DEF IInv, TypeOK, FlagTypes, EndStep, Stall, YieldToUser, Iterate,
         Leave, roundVars, cancelVars
<1>6. CASE Decline \/ StartStopped \/ Start \/ Cancel \/ Notify \/ Restart
  BY <1>6
     DEF IInv, TypeOK, FlagTypes, Decline, StartStopped, Start, Cancel,
         Notify, Restart, Leave, Resets, loopVars, roundVars, cancelVars
<1>7. QED
  BY <1>1, <1>2, <1>3, <1>4, <1>5, <1>6 DEF Next, Loop

(* The calls are kept, dropped, taken one by one or received one by one.   *)
LEMMA CallsStep ==
  ASSUME IInv, Next
  PROVE  \/ calls' = calls \/ calls' = <<>>
         \/ calls # <<>> /\ calls' = Tail(calls)
         \/ Len(calls) < MaxCalls /\ \E k \in Kinds : calls' = Append(calls, k)
<1>1. CASE GuardStep
  BY <1>1
     DEF IInv, TypeOK, GuardStep, Stops, Spend, Exhausted, Refresh, Deplete,
         Prepare, Finish, Leave, Wait
<1>2. CASE StreamStep
  BY <1>2
     DEF IInv, TypeOK, StreamStep, Connect, StreamEnds, Retry, Fail, Backoff,
         StopWaiting, HearCall, Finish, Leave, Wait
<1>3. CASE ReplyStep
  BY <1>3
     DEF IInv, TypeOK, ReplyStep, Empty, Yield, Answer, Garbled, Round,
         Finish, Leave, Again
<1>4. CASE CallStep
  BY <1>4
     DEF IInv, TypeOK, CallStep, Skip, Refuse, Halt, Exhaust, Launch, Enter,
         Return, Interrupt, Wait, Respond, HasCall, Runnable, Positions
<1>5. CASE EndStep
  BY <1>5
     DEF IInv, TypeOK, EndStep, Stall, YieldToUser, Iterate, Leave
<1>6. CASE Decline \/ StartStopped \/ Start \/ Cancel \/ Notify \/ Restart
  BY <1>6
     DEF IInv, TypeOK, Decline, StartStopped, Start, Cancel, Notify, Restart,
         Leave, loopVars
<1>7. QED
  BY <1>1, <1>2, <1>3, <1>4, <1>5, <1>6 DEF Next, Loop

(* The counters of the round.                                              *)
LEMMA CountsStep ==
  ASSUME IInv, Next
  PROVE  budget' \in Nat /\ answered' \in Nat
<1>1. CASE GuardStep
  BY <1>1
     DEF IInv, TypeOK, GuardStep, Stops, Spend, Exhausted, Refresh, Deplete,
         Prepare, Finish, Leave, Wait, roundVars, RoundTypes
<1>2. CASE StreamStep
  BY <1>2
     DEF IInv, TypeOK, StreamStep, Connect, StreamEnds, Retry, Fail, Backoff,
         StopWaiting, HearCall, Finish, Leave, Wait, waitVars, roundVars,
         RoundTypes
<1>3. CASE ReplyStep
  BY <1>3, Limits
     DEF IInv, TypeOK, ReplyStep, Empty, Yield, Answer, Garbled, Round,
         Finish, Leave, Again, roundVars, LoopTypes, RoundTypes
<1>4. CASE CallStep
  BY <1>4, CallCounts DEF IInv, TypeOK, RoundTypes
<1>5. CASE EndStep
  BY <1>5
     DEF IInv, TypeOK, EndStep, Stall, YieldToUser, Iterate, Leave,
         roundVars, RoundTypes
<1>6. CASE Decline \/ StartStopped \/ Start \/ Cancel \/ Notify \/ Restart
  BY <1>6
     DEF IInv, TypeOK, Decline, StartStopped, Start, Cancel, Notify, Restart,
         Leave, loopVars, roundVars, RoundTypes
<1>7. QED
  BY <1>1, <1>2, <1>3, <1>4, <1>5, <1>6 DEF Next, Loop

(* The calls and the round.                                                *)
LEMMA RoundTypesStep ==
  ASSUME IInv, Next
  PROVE  RoundTypes'
<1> USE DEF IInv, TypeOK, RoundTypes
<1>1. budget' \in Nat /\ answered' \in Nat
  BY CountsStep
<1>2. calls' \in Seq(Kinds) /\ Len(calls') <= MaxCalls
  <2>1. CASE calls' = calls
    BY <2>1
  <2>2. CASE calls' = <<>>
    BY <2>2, Limits
  <2>3. CASE calls # <<>> /\ calls' = Tail(calls)
    BY <2>3, Limits
  <2>4. CASE /\ Len(calls) < MaxCalls
             /\ \E k \in Kinds : calls' = Append(calls, k)
    BY <2>4, Limits
  <2>5. QED
    BY <2>1, <2>2, <2>3, <2>4, CallsStep
<1>3. QED
  BY <1>1, <1>2

(* TODOS.md and what is counted.                                           *)
LEMMA AuditTypesStep ==
  ASSUME IInv, Next
  PROVE  AuditTypes'
<1>1. CASE GuardStep
  BY <1>1, Limits
     DEF IInv, TypeOK, AuditTypes, GuardStep, Stops, Spend, Exhausted, Refresh,
         Deplete, Prepare, Wait, Report, Todos, auditVars
<1>2. CASE StreamStep
  BY <1>2
     DEF IInv, TypeOK, AuditTypes, StreamStep, Connect, StreamEnds, Retry,
         Fail, Backoff, StopWaiting, HearCall, Wait, waitVars, auditVars
<1>3. CASE ReplyStep
  BY <1>3
     DEF IInv, TypeOK, AuditTypes, ReplyStep, Empty, Yield, Answer, Garbled,
         Round, Again, auditVars
<1>4. CASE CallStep
  BY <1>4, AuditCall
<1>5. CASE EndStep
  BY <1>5
     DEF IInv, TypeOK, AuditTypes, EndStep, Stall, YieldToUser, Iterate,
         auditVars
<1>6. CASE Decline \/ StartStopped \/ Start \/ Cancel \/ Notify \/ Restart
  BY <1>6, Limits
     DEF IInv, TypeOK, AuditTypes, Decline, StartStopped, Start, Cancel,
         Notify, Restart, Audit, Todos, loopVars, auditVars
<1>7. QED
  BY <1>1, <1>2, <1>3, <1>4, <1>5, <1>6 DEF Next, Loop

-----------------------------------------------------------------------------
(* The conversation.                                                       *)

(* It is left alone, or takes the turn that ends, with no call that has no *)
(* response, or is compacted, or comes back from the file.                 *)
HistoryChange ==
  \/ UNCHANGED <<dialogue, transcript>>
  \/ turn # 0 /\ EndTurn(0) /\ UNCHANGED <<turns, restarts>>
  \/ /\ \E n \in 0 .. Len(dialogue) : Compact(n)
     /\ UNCHANGED <<turns, restarts>>
  \/ dialogue' = transcript /\ transcript' = transcript

(* Every step changes it so.                                               *)
LEMMA HistoryStep ==
  ASSUME IInv, Next
  PROVE  HistoryChange
<1>1. ASSUME NEW e, Finish(e), pc # "idle", ~InRound, UNCHANGED envVars
      PROVE  HistoryChange
  <2>1. turn # 0 /\ owed = 0
    BY <1>1 DEF IInv, Positions, Pairing
  <2>2. EndTurn(0)
    BY <1>1, <2>1 DEF Finish
  <2>3. QED
    BY <1>1, <2>1, <2>2 DEF HistoryChange, envVars
<1>2. CASE UNCHANGED historyVars
  BY <1>2 DEF HistoryChange, historyVars
<1>3. CASE GuardStep
  <2>1. CASE Stops \/ Deplete
    BY <1>1, <2>1 DEF Stops, Deplete, AtGuard, InRound
  <2>2. CASE Spend \/ Exhausted
    BY <1>2, <2>2 DEF Spend, Exhausted
  <2>3. CASE Refresh
    <3>1. PICK n :
            n = (IF Len(dialogue) > Keep THEN Len(dialogue) - Keep ELSE 0)
      OBVIOUS
    <3>2. Compact(n)
      BY <2>3, <3>1 DEF Refresh
    <3>3. n \in 0 .. Len(dialogue)
      BY <3>1, Limits DEF IInv, TypeOK, HistoryTypes
    <3>4. UNCHANGED <<turns, restarts>>
      BY <2>3 DEF Refresh, envVars
    <3>5. QED
      BY <3>2, <3>3, <3>4 DEF HistoryChange
  <2>4. CASE Prepare
    <3>1. CASE checked
      BY <1>2, <2>4, <3>1 DEF Prepare
    <3>2. CASE ~checked
      <4>1. PICK n \in Compactable : Compact(n)
        BY <2>4, <3>2 DEF Prepare
      <4>2. n \in 0 .. Len(dialogue)
        BY CompactableTypes DEF IInv, TypeOK
      <4>3. UNCHANGED <<turns, restarts>>
        BY <2>4 DEF Prepare, envVars
      <4>4. QED
        BY <4>1, <4>2, <4>3 DEF HistoryChange
    <3>3. QED
      BY <3>1, <3>2
  <2>5. QED
    BY <1>3, <2>1, <2>2, <2>3, <2>4 DEF GuardStep
<1>4. CASE StreamStep
  <2>1. CASE StopWaiting
    BY <1>1, <2>1 DEF StopWaiting, InRound
  <2>2. CASE ~StopWaiting
    BY <1>2, <1>4, <2>2
       DEF StreamStep, Connect, StreamEnds, Retry, Fail, Backoff, HearCall,
           waitVars
  <2>3. QED
    BY <2>1, <2>2
<1>5. CASE ReplyStep
  <2>1. ASSUME NEW e, Finish(e), pc = "reply", UNCHANGED envVars
        PROVE  HistoryChange
    BY <1>1, <2>1 DEF InRound
  <2>2. CASE UNCHANGED <<dialogue, transcript>>
    BY <2>2 DEF HistoryChange
  <2>3. CASE Empty
    BY <2>1, <2>2, <2>3 DEF Empty, AtReply, Again, historyVars
  <2>4. CASE Yield
    BY <2>1, <2>4 DEF Yield, AtReply
  <2>5. CASE Answer
    BY <2>1, <2>2, <2>5 DEF Answer, AtReply, Again, historyVars
  <2>6. CASE Garbled \/ Round
    BY <2>2, <2>6 DEF Garbled, Round, Again, historyVars
  <2>7. QED
    BY <1>5, <2>3, <2>4, <2>5, <2>6 DEF ReplyStep
<1>6. CASE CallStep
  BY <1>2, <1>6
     DEF CallStep, Skip, Refuse, Halt, Exhaust, Launch, Enter, Return,
         Interrupt, callVars
<1>7. CASE EndStep
  <2>1. CASE YieldToUser
    <3>1. turn # 0
      BY <2>1 DEF IInv, Positions, YieldToUser, RoundEnds
    <3>2. owed - answered = 0
      BY <2>1
         DEF IInv, TypeOK, RoundTypes, Pairing, InRound, YieldToUser, RoundEnds
    <3>3. EndTurn(0)
      BY <2>1, <3>2 DEF YieldToUser
    <3>4. QED
      BY <2>1, <3>1, <3>3 DEF HistoryChange, YieldToUser, envVars
  <2>2. CASE Stall \/ Iterate
    BY <2>2 DEF Stall, Iterate, HistoryChange, historyVars
  <2>3. QED
    BY <1>7, <2>1, <2>2 DEF EndStep
<1>8. CASE Decline \/ StartStopped \/ Start \/ Cancel \/ Notify \/ Restart
  BY <1>8
     DEF HistoryChange, Decline, StartStopped, Start, Cancel, Notify, Restart,
         loopVars, historyVars
<1>9. QED
  BY <1>3, <1>4, <1>5, <1>6, <1>7, <1>8 DEF Next, Loop

(* The numbers that go with it.                                            *)
LEMMA NumbersStep ==
  ASSUME IInv, Next
  PROVE  /\ turns' \in 0 .. MaxTurns /\ restarts' \in 0 .. MaxRestarts
         /\ turn' \in 0 .. MaxTurns /\ owed' \in 0 .. MaxCalls
<1>1. /\ turns \in 0 .. MaxTurns /\ restarts \in 0 .. MaxRestarts
      /\ turn \in 0 .. MaxTurns /\ owed \in 0 .. MaxCalls
  BY DEF IInv, TypeOK, HistoryTypes
<1>2. ASSUME UNCHANGED <<turns, restarts>>, turn' = turn \/ turn' = 0,
             owed' = owed \/ owed' = 0
      PROVE  /\ turns' \in 0 .. MaxTurns /\ restarts' \in 0 .. MaxRestarts
             /\ turn' \in 0 .. MaxTurns /\ owed' \in 0 .. MaxCalls
  BY <1>1, <1>2, Limits
<1> DEFINE Kept == /\ UNCHANGED <<turns, restarts>>
                   /\ turn' = turn \/ turn' = 0
                   /\ owed' = owed \/ owed' = 0
<1>3. CASE GuardStep
  <2>1. ASSUME NEW n, Compact(n)
        PROVE  turn' = turn /\ owed' = owed
    BY <2>1 DEF Compact, historyVars
  <2>2. Kept
    BY <1>3, <2>1
       DEF GuardStep, Stops, Spend, Exhausted, Refresh, Deplete, Prepare,
           Finish, EndTurn, envVars, historyVars
  <2>3. QED
    BY <1>2, <2>2
<1>4. CASE StreamStep
  <2>1. Kept
    BY <1>4
       DEF StreamStep, Connect, StreamEnds, Retry, Fail, Backoff, StopWaiting,
           HearCall, Finish, EndTurn, waitVars, envVars, historyVars
  <2>2. QED
    BY <1>2, <2>1
<1>5. CASE ReplyStep
  <2>1. CASE Round
    <3>1. Len(calls) \in 0 .. MaxCalls
      BY Limits DEF IInv, TypeOK, RoundTypes
    <3>2. QED
      BY <1>1, <2>1, <3>1 DEF Round, envVars
  <2>2. CASE Empty \/ Yield \/ Answer \/ Garbled
    <3>1. Kept
      BY <2>2
         DEF Empty, Yield, Answer, Garbled, Finish, EndTurn, Again, envVars,
             historyVars
    <3>2. QED
      BY <1>2, <3>1
  <2>3. QED
    BY <1>5, <2>1, <2>2 DEF ReplyStep
<1>6. CASE CallStep
  BY <1>1, <1>6
     DEF CallStep, Skip, Refuse, Halt, Exhaust, Launch, Enter, Return,
         Interrupt, callVars, envVars, historyVars
<1>7. CASE EndStep
  <2>1. RoundEnds => owed - answered = 0
    BY DEF IInv, TypeOK, RoundTypes, Pairing, InRound, RoundEnds
  <2>2. QED
    BY <1>1, <1>7, <2>1, Limits
       DEF EndStep, Stall, YieldToUser, Iterate, EndTurn, envVars, historyVars
<1>8. CASE Decline \/ StartStopped \/ Start \/ Cancel \/ Notify \/ Restart
  BY <1>1, <1>8, Limits
     DEF Decline, StartStopped, Start, Cancel, Notify, Restart, loopVars,
         envVars, historyVars
<1>9. QED
  BY <1>3, <1>4, <1>5, <1>6, <1>7, <1>8 DEF Next, Loop

(* The conversation and its file.                                          *)
LEMMA HistoryTypesStep ==
  ASSUME IInv, Next
  PROVE  HistoryTypes'
<1>1. HistoryTypes
  BY DEF IInv, TypeOK
<1>2. CASE UNCHANGED <<dialogue, transcript>>
  BY <1>1, <1>2, NumbersStep DEF HistoryTypes
<1>3. CASE turn # 0 /\ EndTurn(0) /\ UNCHANGED <<turns, restarts>>
  <2>1. 0 \in 0 .. MaxCalls
    BY Limits
  <2>2. QED
    BY <1>1, <1>3, <2>1, EndTurnTypes
<1>4. CASE /\ \E n \in 0 .. Len(dialogue) : Compact(n)
           /\ UNCHANGED <<turns, restarts>>
  BY <1>1, <1>4, CompactTypes
<1>5. CASE dialogue' = transcript /\ transcript' = transcript
  BY <1>1, <1>5, NumbersStep DEF HistoryTypes
<1>6. QED
  BY <1>2, <1>3, <1>4, <1>5, HistoryStep DEF HistoryChange

-----------------------------------------------------------------------------
(* Where step() stands, and the calls that have no response.               *)

(* A step that waits, runs or retries has the turn, the calls and the      *)
(* attempts it needs.                                                      *)
LEMMA PositionsStep ==
  ASSUME IInv, Next
  PROVE  Positions'
<1> USE DEF Positions
<1>1. CASE pc' = "idle"
  BY <1>1
<1>2. CASE GuardStep
  <2>1. ASSUME NEW n, Compact(n)
        PROVE  turn' = turn
    BY <2>1 DEF Compact, historyVars
  <2>2. QED
    BY <1>1, <1>2, <2>1, Limits
       DEF IInv, GuardStep, Stops, Spend, Exhausted, Refresh, Deplete,
           Prepare, Finish, Leave, Wait, AtGuard, historyVars
<1>3. CASE StreamStep
  BY <1>1, <1>3
     DEF IInv, TypeOK, LoopTypes, StreamStep, Connect, StreamEnds, Retry, Fail,
         Backoff, StopWaiting, HearCall, Finish, Leave, Wait, Retried,
         waitVars, historyVars
<1>4. CASE ReplyStep
  BY <1>1, <1>4
     DEF IInv, ReplyStep, Empty, Yield, Answer, Garbled, Round, Finish, Leave,
         Again, AtReply, historyVars
<1>5. CASE CallStep
  BY <1>1, <1>5
     DEF IInv, CallStep, Skip, Refuse, Halt, Exhaust, Launch, Enter, Return,
         Interrupt, Wait, HasCall, Runnable, callVars, historyVars
<1>6. CASE EndStep
  BY <1>1, <1>6
     DEF IInv, EndStep, Stall, YieldToUser, Iterate, Leave, RoundEnds
<1>7. CASE Decline \/ StartStopped \/ Start \/ Cancel \/ Notify \/ Restart
  BY <1>1, <1>7
     DEF IInv, TypeOK, HistoryTypes, Decline, StartStopped, Start, Cancel,
         Notify, Restart, Leave, Idle, loopVars, historyVars
<1>8. QED
  BY <1>2, <1>3, <1>4, <1>5, <1>6, <1>7 DEF Next, Loop

(* What the steps of a round do to the count of the calls.                 *)
LEMMA RespondKeeps ==
  ASSUME calls \in Seq(Kinds), calls # <<>>, answered \in Nat,
         owed = answered + Len(calls), owed' = owed, Respond
  PROVE  owed' = answered' + Len(calls')
<1>1. Len(Tail(calls)) = Len(calls) - 1 /\ Len(calls) \in Nat
  OBVIOUS
<1>2. QED
  BY <1>1 DEF Respond

(* The part of Pairing that the round decides.                             *)
Rounds ==
  /\ InRound => owed = answered + Len(calls)
  /\ ~InRound => answered = 0 /\ (pc # "idle" => owed = 0)
  /\ pc = "reply" \/ pc = "receive" \/ InRound \/ calls = <<>>

(* In a round, a call waits for its turn or has its response part.         *)
LEMMA RoundsStep ==
  ASSUME IInv, Next
  PROVE  Rounds'
<1>1. Rounds /\ Positions
  BY DEF IInv, Pairing, Rounds
<1>2. ASSUME NEW e, Leave(e)
      PROVE  Rounds'
  BY <1>2 DEF Leave, Rounds, InRound
<1>3. CASE GuardStep
  <2>1. ASSUME NEW n, Compact(n)
        PROVE  owed' = owed
    BY <2>1 DEF Compact, historyVars
  <2>2. QED
    BY <1>1, <1>2, <1>3, <2>1
       DEF Rounds, InRound, GuardStep, Stops, Spend, Exhausted, Refresh,
         Deplete, Prepare,   Finish, Wait, AtGuard, historyVars, roundVars
<1>4. CASE StreamStep
  BY <1>1, <1>2, <1>4
     DEF Rounds, InRound, StreamStep, Connect, StreamEnds, Retry, Fail,
         Backoff, StopWaiting, HearCall, Finish, Wait, waitVars, historyVars,
         roundVars
<1>5. CASE ReplyStep
  <2>1. CASE Round
    <3>1. Len(calls) \in Nat
      BY DEF IInv, TypeOK, RoundTypes
    <3>2. QED
      BY <1>1, <2>1, <3>1 DEF Rounds, InRound, Round, AtReply
  <2>2. CASE Empty \/ Yield \/ Answer \/ Garbled
    BY <1>1, <1>2, <2>2
       DEF Rounds, InRound, Empty, Yield, Answer, Garbled, Finish, Again,
           AtReply, historyVars, roundVars
  <2>3. QED
    BY <1>5, <2>1, <2>2 DEF ReplyStep
<1>6. CASE CallStep
  <2>1. InRound /\ InRound' /\ owed' = owed
    BY <1>6
       DEF InRound, CallStep, Skip, Refuse, Halt, Exhaust, Launch, Enter,
           Return, Interrupt, Wait, HasCall, Runnable, callVars, historyVars
  <2>2. CASE Respond /\ calls # <<>>
    <3>1. owed' = answered' + Len(calls')
      BY <1>1, <2>1, <2>2, RespondKeeps DEF Rounds, IInv, TypeOK, RoundTypes
    <3>2. QED
      BY <2>1, <3>1 DEF Rounds
  <2>3. CASE calls' = calls /\ answered' = answered
    BY <1>1, <2>1, <2>3 DEF Rounds
  <2>4. \/ Respond /\ calls # <<>>
        \/ calls' = calls /\ answered' = answered
    <3>1. ASSUME Skip \/ Refuse \/ Halt \/ Exhaust
          PROVE  Respond /\ calls # <<>>
      <4>1. HasCall /\ Respond
        BY <3>1 DEF Skip, Refuse, Halt, Exhaust, Runnable
      <4>2. QED
        BY <4>1 DEF HasCall
    <3>2. ASSUME Launch \/ Enter
          PROVE  calls' = calls /\ answered' = answered
      BY <3>2 DEF Launch, Enter, roundVars
    <3>3. ASSUME NEW ok \in BOOLEAN, NEW signal \in Signals, Return(ok, signal)
          PROVE  Respond /\ calls # <<>>
      BY <1>1, <3>3 DEF Return, Positions
    <3>4. ASSUME NEW signal \in Signals, Interrupt(signal)
          PROVE  Respond /\ calls # <<>>
      BY <1>1, <3>4 DEF Interrupt, Positions
    <3>5. CASE Skip \/ Refuse \/ Halt \/ Exhaust
      BY <3>1, <3>5
    <3>6. CASE Launch \/ Enter
      BY <3>2, <3>6
    <3>7. CASE \E ok \in BOOLEAN, signal \in Signals : Return(ok, signal)
      BY <3>3, <3>7
    <3>8. CASE \E signal \in Signals : Interrupt(signal)
      BY <3>4, <3>8
    <3>9. QED
      BY <1>6, <3>5, <3>6, <3>7, <3>8 DEF CallStep
  <2>5. QED
    BY <2>2, <2>3, <2>4
<1>7. CASE EndStep
  <2>1. CASE Iterate
    <3>1. owed - answered = 0
      BY <1>1, <2>1
         DEF IInv, TypeOK, RoundTypes, Rounds, InRound, Iterate, RoundEnds
    <3>2. QED
      BY <2>1, <3>1 DEF Rounds, InRound, Iterate, RoundEnds
  <2>2. CASE Stall \/ YieldToUser
    BY <1>2, <2>2 DEF Stall, YieldToUser
  <2>3. QED
    BY <1>7, <2>1, <2>2 DEF EndStep
<1>8. CASE Decline \/ StartStopped \/ Start \/ Cancel \/ Notify \/ Restart
  BY <1>1, <1>2, <1>8
     DEF Rounds, InRound, Decline, StartStopped, Start, Cancel, Notify,
         Restart, Idle, loopVars, historyVars, roundVars
<1>9. QED
  BY <1>3, <1>4, <1>5, <1>6, <1>7, <1>8 DEF Next, Loop

(* Every call of a conversation has its response.                          *)
Paired(s) == \A i \in DOMAIN s : s[i].owed = 0

(* A conversation made of two is paired if both are, ...                   *)
LEMMA PairedConcat ==
  ASSUME NEW s \in Seq(Turn), NEW t \in Seq(Turn), Paired(s), Paired(t)
  PROVE  Paired(s \o t)
<1>1. /\ DOMAIN s = 1 .. Len(s) /\ DOMAIN t = 1 .. Len(t)
      /\ DOMAIN (s \o t) = 1 .. Len(s) + Len(t)
      /\ Len(s) \in Nat /\ Len(t) \in Nat
  OBVIOUS
<1>2. SUFFICES ASSUME NEW i \in 1 .. Len(s) + Len(t)
               PROVE  (s \o t)[i].owed = 0
  BY <1>1 DEF Paired
<1>3. CASE i <= Len(s)
  <2>1. (s \o t)[i] = s[i]
    BY <1>1, <1>3
  <2>2. QED
    BY <1>1, <1>3, <2>1 DEF Paired
<1>4. CASE ~(i <= Len(s))
  <2>1. (s \o t)[i] = t[i - Len(s)] /\ i - Len(s) \in 1 .. Len(t)
    BY <1>1, <1>4
  <2>2. QED
    BY <1>1, <2>1 DEF Paired
<1>5. QED
  BY <1>3, <1>4

(* ... as is a part of one, ...                                            *)
LEMMA PairedSub ==
  ASSUME NEW s \in Seq(Turn), Paired(s), NEW m \in 1 .. Len(s) + 1,
         NEW n \in 0 .. Len(s)
  PROVE  SubSeq(s, m, n) \in Seq(Turn) /\ Paired(SubSeq(s, m, n))
<1>1. Len(s) \in Nat /\ \A i \in 1 .. Len(s) : s[i] \in Turn /\ s[i].owed = 0
  BY DEF Paired
<1>2. /\ SubSeq(s, m, n) \in Seq(Turn)
      /\ DOMAIN SubSeq(s, m, n) = 1 .. Len(SubSeq(s, m, n))
  BY <1>1, SubSeqProperties
<1>3. ASSUME NEW i \in 1 .. Len(SubSeq(s, m, n))
      PROVE  SubSeq(s, m, n)[i].owed = 0
  <2>1. SubSeq(s, m, n)[i] = s[m + i - 1] /\ m + i - 1 \in 1 .. Len(s)
    BY <1>1
  <2>2. QED
    BY <1>1, <2>1
<1>4. QED
  BY <1>2, <1>3 DEF Paired

(* ... a summary or a turn whose calls are answered, ...                   *)
LEMMA PairedOne ==
  ASSUME NEW told \in SUBSET (1 .. MaxTurns)
  PROVE  \E one \in Turn : /\ one = [of |-> told, owed |-> 0]
                           /\ <<one>> \in Seq(Turn) /\ Paired(<<one>>)
<1>1. [of |-> told, owed |-> 0] \in Turn
  BY Limits, KeptType
<1>2. PICK one \in Turn : one = [of |-> told, owed |-> 0]
  BY <1>1
<1>3. one.owed = 0
  BY <1>2
<1>4. <<one>> \in Seq(Turn) /\ Paired(<<one>>)
  BY <1>3 DEF Paired
<1>5. QED
  BY <1>2, <1>4

(* ... and a conversation that such a turn is appended to.                 *)
LEMMA PairedAppend ==
  ASSUME NEW s \in Seq(Turn), Paired(s), NEW one \in Turn,
         <<one>> \in Seq(Turn), Paired(<<one>>)
  PROVE  Paired(Append(s, one))
<1>1. Append(s, one) = s \o <<one>>
  OBVIOUS
<1>2. Paired(s \o <<one>>)
  BY PairedConcat
<1>3. QED
  BY <1>1, <1>2

(* No action keeps a turn with a call that has no response.                *)
LEMMA PairedStep ==
  ASSUME IInv, Next
  PROVE  Paired(dialogue)' /\ Paired(transcript)'
<1>1. /\ dialogue \in Seq(Turn) /\ transcript \in Seq(Turn)
      /\ Paired(dialogue) /\ Paired(transcript)
  BY DEF IInv, TypeOK, HistoryTypes, Pairing, Paired
<1>2. CASE UNCHANGED <<dialogue, transcript>>
  BY <1>1, <1>2
<1>3. CASE turn # 0 /\ EndTurn(0)
  <2>1. {turn} \in SUBSET (1 .. MaxTurns)
    BY <1>3, Limits DEF IInv, TypeOK, HistoryTypes
  <2>2. PICK one \in Turn : /\ one = [of |-> {turn}, owed |-> 0]
                            /\ <<one>> \in Seq(Turn) /\ Paired(<<one>>)
    BY <2>1, PairedOne
  <2>3. /\ dialogue' = Append(dialogue, [of |-> {turn}, owed |-> 0])
        /\ transcript' = Append(transcript, [of |-> {turn}, owed |-> 0])
    BY <1>3 DEF EndTurn
  <2>4. /\ dialogue' = Append(dialogue, one)
        /\ transcript' = Append(transcript, one)
    BY <2>2, <2>3
  <2>5. Paired(Append(dialogue, one)) /\ Paired(Append(transcript, one))
    BY <1>1, <2>2, PairedAppend
  <2>6. QED
    BY <2>4, <2>5
<1>4. CASE \E n \in 0 .. Len(dialogue) : Compact(n)
  <2>1. PICK n \in 0 .. Len(dialogue) : Compact(n)
    BY <1>4
  <2>2. CASE n = 0
    BY <1>1, <2>1, <2>2 DEF Compact, historyVars
  <2>3. CASE n # 0
    <3>1. PICK front, rest :
            /\ front = SubSeq(dialogue, 1, n)
            /\ rest = SubSeq(dialogue, n + 1, Len(dialogue))
      OBVIOUS
    <3>2. Len(dialogue) \in Nat
      BY <1>1
    <3>3. front \in Seq(Turn) /\ Paired(front)
      <4>1. 1 \in 1 .. Len(dialogue) + 1
        BY <3>2
      <4>2. QED
        BY <1>1, <3>1, <4>1, PairedSub
    <3>4. rest \in Seq(Turn) /\ Paired(rest)
      <4>1. /\ n + 1 \in 1 .. Len(dialogue) + 1
            /\ Len(dialogue) \in 0 .. Len(dialogue)
        BY <3>2
      <4>2. QED
        BY <1>1, <3>1, <4>1, PairedSub
    <3>5. Told(front) \in SUBSET (1 .. MaxTurns)
      BY <3>3, ToldType
    <3>6. PICK head \in Seq(Turn) :
            head = <<[of |-> Told(front), owed |-> 0]>> /\ Paired(head)
      <4>1. PICK one \in Turn : /\ one = [of |-> Told(front), owed |-> 0]
                                /\ <<one>> \in Seq(Turn) /\ Paired(<<one>>)
        BY <3>5, PairedOne
      <4>2. QED
        BY <4>1
    <3>7. transcript' = transcript \o front /\ dialogue' = head \o rest
      BY <2>1, <2>3, <3>1, <3>6 DEF Compact
    <3>8. QED
      BY <1>1, <3>3, <3>4, <3>6, <3>7, PairedConcat
  <2>4. QED
    BY <2>2, <2>3
<1>5. CASE dialogue' = transcript /\ transcript' = transcript
  BY <1>1, <1>5
<1>6. QED
  BY <1>2, <1>3, <1>4, <1>5, HistoryStep DEF HistoryChange

(* The pairing, put together.                                              *)
LEMMA PairingStep ==
  ASSUME IInv, Next
  PROVE  Pairing'
BY RoundsStep, PairedStep DEF Pairing, Rounds, Paired

(* Every step preserves the invariant.                                     *)
LEMMA InvStep ==
  ASSUME IInv, [Next]_vars
  PROVE  IInv'
<1>1. CASE Next
  BY <1>1, LoopTypesStep, FlagTypesStep, RoundTypesStep, GuardTypesStep,
     HistoryTypesStep, AuditTypesStep, PositionsStep, PairingStep
     DEF IInv, TypeOK
<1>2. CASE UNCHANGED vars
  BY <1>2
     DEF IInv, TypeOK, LoopTypes, FlagTypes, RoundTypes, GuardTypes,
         HistoryTypes, AuditTypes, Positions, Pairing, InRound, vars, envVars,
         cancelVars, roundVars, guardVars, historyVars, auditVars
<1>3. QED
  BY <1>1, <1>2

(* The inductive invariant holds in every reachable state.                 *)
THEOREM Inductive == Spec => []IInv
<1>1. Init => IInv
  BY InitIInv
<1>2. IInv /\ [Next]_vars => IInv'
  BY InvStep
<1>3. QED
  BY <1>1, <1>2, PTL DEF Spec

(* TypeOK: no counter of step() leaves the range of its limit              *)
(* (src/src/core.rs:794).                                                  *)
THEOREM TypeCorrect == Spec => []TypeOK
<1>1. IInv => TypeOK
  BY DEF IInv
<1>2. QED
  BY <1>1, Inductive, PTL

(* HistoryPaired: every call in the conversation, in the file and in a     *)
(* request has its response (core/step_helpers.rs:1120).                   *)
THEOREM EveryCallAnswered == Spec => []HistoryPaired
<1>1. IInv => HistoryPaired
  BY DEF IInv, Pairing, InRound, HistoryPaired
<1>2. QED
  BY <1>1, Inductive, PTL

(* FreshStream: an attempt starts without the calls of an earlier one      *)
(* (core/step_helpers.rs:252).                                             *)
THEOREM StreamsStartFresh == Spec => []FreshStream
<1>1. IInv => FreshStream
  BY DEF IInv, Pairing, InRound, FreshStream
<1>2. QED
  BY <1>1, Inductive, PTL

-----------------------------------------------------------------------------
(* What the conversation remembers.                                        *)

(* Two conversations, one after the other, remember what each does.        *)
LEMMA ToldConcat ==
  ASSUME NEW s \in Seq(Turn), NEW t \in Seq(Turn)
  PROVE  Told(s \o t) = Told(s) \cup Told(t)
<1>1. /\ DOMAIN s = 1 .. Len(s) /\ DOMAIN t = 1 .. Len(t)
      /\ DOMAIN (s \o t) = 1 .. Len(s) + Len(t)
      /\ Len(s) \in Nat /\ Len(t) \in Nat
  OBVIOUS
<1>2. ASSUME NEW x \in Told(s \o t)
      PROVE  x \in Told(s) \cup Told(t)
  <2>1. PICK i \in 1 .. Len(s) + Len(t) : x \in (s \o t)[i].of
    BY <1>1, <1>2 DEF Told
  <2>2. CASE i <= Len(s)
    <3>1. (s \o t)[i] = s[i] /\ i \in 1 .. Len(s)
      BY <1>1, <2>2
    <3>2. QED
      BY <1>1, <2>1, <3>1 DEF Told
  <2>3. CASE ~(i <= Len(s))
    <3>1. (s \o t)[i] = t[i - Len(s)] /\ i - Len(s) \in 1 .. Len(t)
      BY <1>1, <2>3
    <3>2. QED
      BY <1>1, <2>1, <3>1 DEF Told
  <2>4. QED
    BY <2>2, <2>3
<1>3. ASSUME NEW x \in Told(s)
      PROVE  x \in Told(s \o t)
  <2>1. PICK i \in 1 .. Len(s) : x \in s[i].of
    BY <1>1, <1>3 DEF Told
  <2>2. (s \o t)[i] = s[i] /\ i \in 1 .. Len(s) + Len(t)
    BY <1>1
  <2>3. QED
    BY <1>1, <2>1, <2>2 DEF Told
<1>4. ASSUME NEW x \in Told(t)
      PROVE  x \in Told(s \o t)
  <2>1. PICK i \in 1 .. Len(t) : x \in t[i].of
    BY <1>1, <1>4 DEF Told
  <2>2. /\ (s \o t)[Len(s) + i] = t[i]
        /\ Len(s) + i \in 1 .. Len(s) + Len(t)
    BY <1>1
  <2>3. QED
    BY <1>1, <2>1, <2>2 DEF Told
<1>5. QED
  BY <1>2, <1>3, <1>4

(* A conversation remembers what its two parts remember.                   *)
LEMMA ToldCut ==
  ASSUME NEW s \in Seq(Turn), NEW n \in 0 .. Len(s)
  PROVE  /\ SubSeq(s, 1, n) \in Seq(Turn)
         /\ SubSeq(s, n + 1, Len(s)) \in Seq(Turn)
         /\ Told(s) = Told(SubSeq(s, 1, n)) \cup Told(SubSeq(s, n + 1, Len(s)))
<1>1. Len(s) \in Nat /\ \A i \in 1 .. Len(s) : s[i] \in Turn
  OBVIOUS
<1>2. /\ SubSeq(s, 1, n) \in Seq(Turn)
      /\ SubSeq(s, n + 1, Len(s)) \in Seq(Turn)
  BY <1>1, SubSeqProperties
<1>3. s = SubSeq(s, 1, n) \o SubSeq(s, n + 1, Len(s))
  <2>1. SubSeq(s, 1, n) \o SubSeq(s, n + 1, Len(s)) = SubSeq(s, 1, Len(s))
    <3>1. /\ 1 \in 1 .. Len(s) + 1 /\ n \in 1 - 1 .. Len(s)
          /\ Len(s) \in n .. Len(s)
      BY <1>1
    <3>2. QED
      BY <3>1, ConcatAdjacentSubSeq
  <2>2. QED
    BY <2>1, SubSeqFull
<1>4. QED
  BY <1>2, <1>3, ToldConcat

(* One turn remembers its inputs.                                          *)
LEMMA ToldOne ==
  ASSUME NEW one \in Turn
  PROVE  Told(<<one>>) = one.of /\ <<one>> \in Seq(Turn)
BY DEF Told

(* Whatever changes the conversation forgets nothing, and what it keeps is *)
(* in the file: in particular a summary stands for the turns it replaces.  *)
LEMMA MemoryStep ==
  ASSUME IInv, MemoryOnDisk, HistoryChange
  PROVE  MemoryOnDisk' /\ Told(dialogue) \subseteq Told(dialogue)'
<1>1. dialogue \in Seq(Turn) /\ transcript \in Seq(Turn)
  BY DEF IInv, TypeOK, HistoryTypes
<1>2. Told(dialogue) \subseteq Told(transcript)
  BY DEF MemoryOnDisk
<1>3. CASE UNCHANGED <<dialogue, transcript>>
  BY <1>2, <1>3 DEF MemoryOnDisk
<1>4. CASE turn # 0 /\ EndTurn(0)
  <2>1. [of |-> {turn}, owed |-> 0] \in Turn
    <3>1. {turn} \in SUBSET (1 .. MaxTurns) /\ 0 \in 0 .. MaxCalls
      BY <1>4, Limits DEF IInv, TypeOK, HistoryTypes
    <3>2. QED
      BY <3>1, KeptType
  <2>2. PICK one \in Turn : one = [of |-> {turn}, owed |-> 0]
    BY <2>1
  <2>3. /\ dialogue' = Append(dialogue, [of |-> {turn}, owed |-> 0])
        /\ transcript' = Append(transcript, [of |-> {turn}, owed |-> 0])
    BY <1>4 DEF EndTurn
  <2>4. dialogue' = dialogue \o <<one>> /\ transcript' = transcript \o <<one>>
    <3>1. \A s \in Seq(Turn) : Append(s, one) = s \o <<one>>
      OBVIOUS
    <3>2. QED
      BY <1>1, <2>2, <2>3, <3>1
  <2>5. /\ Told(dialogue') = Told(dialogue) \cup one.of
        /\ Told(transcript') = Told(transcript) \cup one.of
    BY <1>1, <2>4, ToldConcat, ToldOne
  <2>6. QED
    BY <1>2, <2>5 DEF MemoryOnDisk
<1>5. CASE \E n \in 0 .. Len(dialogue) : Compact(n)
  <2>1. PICK n \in 0 .. Len(dialogue) : Compact(n)
    BY <1>5
  <2>2. CASE n = 0
    BY <1>2, <2>1, <2>2 DEF Compact, historyVars, MemoryOnDisk
  <2>3. CASE n # 0
    <3>1. PICK front \in Seq(Turn), rest \in Seq(Turn) :
            /\ front = SubSeq(dialogue, 1, n)
            /\ rest = SubSeq(dialogue, n + 1, Len(dialogue))
            /\ Told(dialogue) = Told(front) \cup Told(rest)
      <4>1. /\ SubSeq(dialogue, 1, n) \in Seq(Turn)
            /\ SubSeq(dialogue, n + 1, Len(dialogue)) \in Seq(Turn)
            /\ Told(dialogue) = Told(SubSeq(dialogue, 1, n))
                  \cup Told(SubSeq(dialogue, n + 1, Len(dialogue)))
        BY <1>1, ToldCut
      <4>2. QED
        BY <4>1
    <3>2. [of |-> Told(front), owed |-> 0] \in Turn
      <4>1. Told(front) \in SUBSET (1 .. MaxTurns) /\ 0 \in 0 .. MaxCalls
        BY ToldType, Limits
      <4>2. QED
        BY <4>1, KeptType
    <3>3. PICK one \in Turn : one = [of |-> Told(front), owed |-> 0]
      BY <3>2
    <3>4. transcript' = transcript \o front /\ dialogue' = <<one>> \o rest
      BY <2>1, <2>3, <3>1, <3>3 DEF Compact
    <3>5. one.of = Told(front)
      BY <3>3
    <3>6. /\ Told(transcript') = Told(transcript) \cup Told(front)
          /\ Told(dialogue') = Told(front) \cup Told(rest)
      <4>1. Told(<<one>>) = Told(front) /\ <<one>> \in Seq(Turn)
        BY <3>5, ToldOne
      <4>2. /\ Told(transcript \o front) = Told(transcript) \cup Told(front)
            /\ Told(<<one>> \o rest) = Told(front) \cup Told(rest)
        BY <1>1, <4>1, ToldConcat
      <4>3. QED
        BY <3>4, <4>2
    <3>7. QED
      BY <1>2, <3>1, <3>6 DEF MemoryOnDisk
  <2>4. QED
    BY <2>2, <2>3
<1>6. CASE dialogue' = transcript /\ transcript' = transcript
  BY <1>2, <1>6 DEF MemoryOnDisk
<1>7. QED
  BY <1>3, <1>4, <1>5, <1>6 DEF HistoryChange

(* The same for every step.                                                *)
LEMMA MemoryNext ==
  ASSUME IInv, MemoryOnDisk, [Next]_vars
  PROVE  MemoryOnDisk' /\ Told(dialogue) \subseteq Told(dialogue')
<1>1. CASE Next
  BY <1>1, HistoryStep, MemoryStep
<1>2. CASE UNCHANGED vars
  BY <1>2, Zenon DEF MemoryOnDisk, vars, historyVars
<1>3. QED
  BY <1>1, <1>2

(* MemoryOnDisk: what the conversation remembers is in the transcript      *)
(* (context/turns.rs:27, context/history.rs:108).                          *)
THEOREM MemoryKept == Spec => []MemoryOnDisk
<1>1. Init => MemoryOnDisk
  BY DEF Init, MemoryOnDisk
<1>2. IInv /\ MemoryOnDisk /\ [Next]_vars => MemoryOnDisk'
  BY MemoryNext
<1>3. QED
  BY <1>1, <1>2, Inductive, PTL DEF Spec

(* Remembers: no step forgets a turn that was kept, a restart included,    *)
(* because the file holds it.                                              *)
THEOREM NothingForgotten == Spec => Remembers
<1>1. IInv /\ MemoryOnDisk /\ [Next]_vars
        => [Told(dialogue) \subseteq Told(dialogue')]_vars
  BY MemoryNext
<1>2. QED
  BY <1>1, Inductive, MemoryKept, PTL DEF Spec, Remembers

-----------------------------------------------------------------------------
(* How a step returns, when it is cancelled, and what it spends.           *)

(* Which returns leave the turn open.                                      *)
LEMMA ClosedStep ==
  ASSUME IInv, Next, pc # "idle", pc' = "idle", turn' # 0
  PROVE  exit' \in {"Error", "Stalled"}
<1>1. ASSUME NEW e, NEW k, EndTurn(k)
      PROVE  FALSE
  BY <1>1 DEF EndTurn
<1>2. ~GuardStep
  BY <1>1
     DEF GuardStep, Stops, Spend, Exhausted, Refresh, Deplete, Prepare,
         Finish, Wait
<1>3. CASE StreamStep
  BY <1>1, <1>3
     DEF StreamStep, Connect, StreamEnds, Retry, Fail, Backoff, StopWaiting,
         HearCall, Finish, Leave, Wait, waitVars
<1>4. ~ReplyStep
  BY <1>1
     DEF ReplyStep, Empty, Yield, Answer, Garbled, Round, Finish, Again
<1>5. ~CallStep
  BY DEF CallStep, Skip, Refuse, Halt, Exhaust, Launch, Enter, Return,
         Interrupt, Wait, HasCall, Runnable
<1>6. CASE EndStep
  BY <1>1, <1>6 DEF EndStep, Stall, YieldToUser, Iterate, Leave
<1>7. ~(Decline \/ StartStopped \/ Start \/ Cancel \/ Notify \/ Restart)
  BY DEF Decline, StartStopped, Start, Cancel, Notify, Restart, Idle
<1>8. QED
  BY <1>2, <1>3, <1>4, <1>5, <1>6, <1>7 DEF Next, Loop

(* ClosedOnExit: only an error of the model and a meltdown return without  *)
(* end_turn (core.rs:913 and core.rs:1028).                                *)
THEOREM ExitsCloseTurns == Spec => ClosedOnExit
<1>1. IInv /\ [Next]_vars
        => [pc # "idle" /\ pc' = "idle" /\ turn' # 0
              => exit' \in {"Error", "Stalled"}]_vars
  BY ClosedStep
<1>2. QED
  BY <1>1, Inductive, PTL DEF Spec, ClosedOnExit

(* A wait adds one at most.                                                *)
LEMMA WaitsOnce ==
  ASSUME late \in Nat, cancelled \in BOOLEAN, NEW place, Wait(place)
  PROVE  late' \in Nat /\ late' <= late + 1
BY DEF Wait

(* Every action keeps the bound on the waits that begin too late.          *)
LEMMA LatenessStep ==
  ASSUME IInv, Lateness, Next
  PROVE  Lateness'
<1>1. /\ late \in Nat /\ attempts \in 0 .. MaxAttempts /\ cancelled \in BOOLEAN
      /\ MaxAttempts \in Nat /\ MaxAttempts >= 1
  BY Limits DEF IInv, TypeOK, AuditTypes, LoopTypes, FlagTypes
<1>r. Reports \in 0 .. 1 /\ Reports' = Reports
  <2>1. mode' = mode
    BY DEF Next, Loop, GuardStep, StreamStep, ReplyStep, CallStep, EndStep,
           Stops, Spend, Exhausted, Refresh, Deplete, Prepare, Connect,
           StreamEnds, Retry, Fail, Backoff, StopWaiting, HearCall, Empty,
           Yield, Answer, Garbled, Round, Again, Skip, Refuse, Halt, Exhaust,
           Launch, Enter, Return, Interrupt, Stall, YieldToUser, Iterate,
           Decline, StartStopped, Start, Cancel, Notify, Restart, loopVars,
           callVars, waitVars, envVars
  <2>2. QED
    BY <2>1 DEF Reports, Autopilot
<1>2. ASSUME UNCHANGED <<cancelled, late>>, late <= MaxAttempts + Reports,
             \/ pc' \in {"idle", "guard", "reply", "call"} /\ pc # "idle"
             \/ pc' = pc /\ attempts' = attempts
             \/ pc' = "idle"
      PROVE  Lateness'
  BY <1>r, <1>2 DEF Lateness
<1>3. CASE GuardStep
  <2>1. CASE Stops
    BY <1>1, <1>2, <2>1 DEF Lateness, Stops, Finish, Leave, cancelVars
  <2>2. CASE Spend \/ Exhausted
    BY <1>1, <1>r, <2>2
       DEF Lateness, Spend, Exhausted, AtGuard, cancelVars
  <2>3. CASE Refresh
    <3>1. Reports = 1
      BY <2>3 DEF Refresh, Progress, Reports
    <3>2. late' <= 1 /\ late' \in Nat /\ (~cancelled => late' = 0)
      BY <2>3 DEF Lateness, Refresh, Report
    <3>3. pc' = "prepare" /\ cancelled' = cancelled
      BY <2>3 DEF Refresh, cancelVars
    <3>4. QED
      BY <1>1, <1>r, <3>1, <3>2, <3>3 DEF Lateness
  <2>4. CASE Deplete
    <3>1. late' <= 1 /\ late' \in Nat
      BY <2>4 DEF Lateness, Deplete, Report
    <3>2. pc' = "idle"
      BY <2>4 DEF Deplete, Finish, Leave
    <3>3. QED
      BY <1>1, <1>r, <3>1, <3>2 DEF Lateness
  <2>5. CASE Prepare
    <3>1. /\ late' <= late + 1 /\ late' \in Nat
          /\ ~cancelled => late' = 0
      BY <1>1, <2>5, WaitsOnce DEF Lateness, Prepare, Wait
    <3>2. pc' = "ask" /\ attempts' = 1 /\ cancelled' = cancelled
      BY <2>5 DEF Prepare, Wait, cancelVars
    <3>3. late <= Reports
      BY <2>5 DEF Lateness, Prepare
    <3>4. QED
      BY <1>1, <1>r, <3>1, <3>2, <3>3 DEF Lateness
  <2>6. QED
    BY <1>3, <2>1, <2>2, <2>3, <2>4, <2>5 DEF GuardStep
<1>4. CASE StreamStep
  <2>1. CASE Connect \/ Retry
    BY <1>1, <1>r, <2>1 DEF Lateness, Connect, Retry, waitVars, cancelVars
  <2>2. CASE StreamEnds
    BY <1>1, <1>2, <2>2 DEF Lateness, StreamEnds, waitVars, cancelVars
  <2>3. CASE Fail \/ StopWaiting
    BY <1>1, <1>2, <2>3
       DEF Lateness, Fail, StopWaiting, Finish, Leave, cancelVars
  <2>4. CASE Backoff
    <3>1. /\ attempts' = attempts + 1 /\ attempts + 1 <= MaxAttempts
          /\ late <= attempts + Reports
      BY <1>1, <2>4 DEF Backoff, Lateness, IInv, Positions
    <3>2. late' <= late + 1 /\ late' \in Nat
      BY <1>1, <2>4, WaitsOnce DEF Backoff
    <3>3. late' <= attempts' + Reports /\ late' <= MaxAttempts + Reports
      BY <1>1, <1>r, <3>1, <3>2
    <3>4. ~cancelled' => late' = 0
      BY <2>4 DEF Backoff, Wait, Lateness, waitVars, cancelVars
    <3>5. pc' = "ask"
      BY <2>4 DEF Backoff, Wait
    <3>6. QED
      BY <1>r, <3>3, <3>4, <3>5 DEF Lateness
  <2>5. CASE \E k \in Kinds : HearCall(k)
    BY <1>1, <1>2, <2>5 DEF Lateness, HearCall, waitVars, cancelVars
  <2>6. QED
    BY <1>4, <2>1, <2>2, <2>3, <2>4, <2>5 DEF StreamStep
<1>5. CASE ReplyStep
  BY <1>1, <1>2, <1>5
     DEF Lateness, ReplyStep, Empty, Yield, Answer, Garbled, Round, Finish,
         Leave, Again, AtReply, cancelVars
<1>6. CASE CallStep
  <2>1. CASE Skip \/ Refuse \/ Halt \/ Exhaust
    BY <1>1, <1>2, <2>1
       DEF Lateness, Skip, Refuse, Halt, Exhaust, callVars, cancelVars
  <2>2. CASE Launch
    BY <1>1, <1>r, <2>2
       DEF Lateness, Launch, Uncancelled, Runnable, HasCall, callVars,
           cancelVars
  <2>3. CASE Enter
    BY <1>1, <1>r, <2>3 DEF Lateness, Enter, Wait, callVars, cancelVars
  <2>4. ASSUME NEW ok \in BOOLEAN, NEW signal \in Signals, Return(ok, signal)
        PROVE  Lateness'
    BY <1>1, <1>2, <2>4 DEF Lateness, Return, callVars, cancelVars
  <2>5. ASSUME NEW signal \in Signals, Interrupt(signal)
        PROVE  Lateness'
    BY <1>1, <1>2, <2>5 DEF Lateness, Interrupt, callVars, cancelVars
  <2>6. QED
    BY <1>6, <2>1, <2>2, <2>3, <2>4, <2>5 DEF CallStep
<1>7. CASE EndStep
  BY <1>1, <1>2, <1>7
     DEF Lateness, EndStep, Stall, YieldToUser, Iterate, Leave, RoundEnds,
         cancelVars
<1>8. CASE Decline \/ StartStopped
  BY <1>1, <1>r, <1>8 DEF Lateness, Decline, StartStopped, Idle
<1>9. CASE Start \/ Restart
  BY <1>1, <1>r, <1>9 DEF Lateness, Start, Restart, Leave
<1>10. CASE Cancel \/ Notify
  BY <1>1, <1>r, <1>10 DEF Lateness, Cancel, Notify, loopVars
<1>11. QED
  BY <1>3, <1>4, <1>5, <1>6, <1>7, <1>8, <1>9, <1>10 DEF Next, Loop

(* PromptCancel: once the flag is set the step begins at most one request  *)
(* with its retries, or one tool (core.rs:346, tools/invocation.rs:299).   *)
THEOREM CancelIsPrompt == Spec => []PromptCancel
<1>1. Init => Lateness
  BY Limits DEF Init, Lateness, Reports
<1>2. IInv /\ Lateness /\ [Next]_vars => Lateness'
  <2>1. ASSUME Lateness, UNCHANGED vars
        PROVE  Lateness'
    BY <2>1 DEF Lateness, Reports, Autopilot, vars, envVars, cancelVars
  <2>2. QED
    BY <2>1, LatenessStep
<1>3. Lateness => PromptCancel
  BY DEF Lateness, PromptCancel, Reports
<1>4. QED
  BY <1>1, <1>2, <1>3, Inductive, PTL DEF Spec

(* An item more pays for one renewal more.                                 *)
LEMMA Renewal ==
  ASSUME NEW e \in Nat, NEW d \in Nat, NEW m \in Nat, m > d
  PROVE  e * m >= e * d + e
<1>1. PICK k \in Nat : m = d + 1 + k
  <2>1. m - (d + 1) \in Nat /\ m = d + 1 + (m - (d + 1))
    OBVIOUS
  <2>2. QED
    BY <2>1
<1>2. e * m = e * d + e + e * k
  BY <1>1
<1>3. e * k >= 0 /\ e * d \in Nat /\ e * k \in Nat
  OBVIOUS
<1>4. QED
  BY <1>2, <1>3


(* Every action keeps the account of the requests.                         *)
LEMMA SpentStep ==
  ASSUME IInv, Spent, Next
  PROVE  Spent'
<1>1. /\ energy \in Nat /\ energy >= 1 /\ asks \in Nat
      /\ baseline \in Nat /\ from \in Nat /\ todos.done \in Nat
  BY Limits DEF IInv, TypeOK, LoopTypes, AuditTypes, Todos
<1>2. ASSUME pc' = "idle", energy' = Budget
      PROVE  Spent'
  BY <1>2 DEF Spent
<1>3. ASSUME pc # "idle", pc # "prepare",
             pc' # "prepare", pc' # "idle", pc' # "audit",
             UNCHANGED <<energy, asks, baseline, from>>
      PROVE  Spent'
  BY <1>3 DEF Spent
<1>4. CASE GuardStep
  <2>1. CASE Stops \/ Deplete
    BY <1>2, <2>1 DEF Stops, Deplete, Finish, Leave
  <2>2. CASE Spend \/ Exhausted
    BY <1>1, <2>2, Limits DEF Spent, Spend, Exhausted, AtGuard, auditVars
  <2>3. CASE Refresh
    <3>1. /\ from <= baseline /\ energy = 1
          /\ asks + (energy - 1) <= (Budget - 1) + Energy * (baseline - from)
      BY <2>3 DEF Spent, Refresh, AtGuard
    <3>2. /\ baseline' > baseline /\ baseline' \in Nat /\ from' = from
          /\ energy' = Energy /\ asks' = asks /\ pc' = "prepare"
      BY <1>1, <2>3 DEF Refresh, Progress
    <3>3. /\ baseline - from \in Nat /\ baseline' - from \in Nat
          /\ baseline' - from > baseline - from
      <4>1. PICK b \in Nat : b = baseline'
        BY <3>2
      <4>2. b > baseline /\ baseline >= from
        BY <3>1, <3>2, <4>1
      <4>3. /\ baseline - from \in Nat /\ b - from \in Nat
            /\ b - from > baseline - from
        BY <1>1, <4>2
      <4>4. QED
        BY <4>1, <4>3
    <3>4. Energy * (baseline' - from) >= Energy * (baseline - from) + Energy
      BY <3>3, Renewal, Limits
    <3>5. PICK m \in Nat, d \in Nat :
            m = Energy * (baseline' - from) /\ d = Energy * (baseline - from)
      BY <3>3, Limits
    <3>6. asks + Energy <= (Budget - 1) + m
      BY <1>1, <3>1, <3>4, <3>5, Limits
    <3>7. from' <= baseline'
      BY <1>1, <3>1, <3>2
    <3>8. QED
      BY <3>2, <3>5, <3>6, <3>7 DEF Spent
  <2>4. CASE Prepare
    BY <1>1, <2>4, Limits DEF Spent, Prepare, Wait
  <2>5. QED
    BY <1>4, <2>1, <2>2, <2>3, <2>4 DEF GuardStep
<1>5. CASE StreamStep
  BY <1>2, <1>3, <1>5
     DEF StreamStep, Connect, StreamEnds, Retry, Fail, Backoff, StopWaiting,
         HearCall, Finish, Leave, Wait, waitVars, auditVars
<1>6. CASE ReplyStep
  BY <1>2, <1>3, <1>6
     DEF ReplyStep, Empty, Yield, Answer, Garbled, Round, Finish, Leave,
         Again, AtReply, auditVars
<1>7. CASE CallStep
  BY <1>3, <1>7
     DEF CallStep, Skip, Refuse, Halt, Exhaust, Launch, Enter, Return,
         Interrupt, Wait, HasCall, Runnable, callVars, auditVars
<1>8. CASE EndStep
  BY <1>2, <1>3, <1>8
     DEF EndStep, Stall, YieldToUser, Iterate, Leave, RoundEnds, auditVars
<1>9. CASE Start
  <2>1. energy = Budget
    BY <1>9 DEF Spent, Start, Idle
  <2>2. QED
    BY <1>1, <1>9, <2>1, Limits DEF Spent, Start, Audit
<1>10. CASE Decline \/ StartStopped \/ Restart
  BY <1>2, <1>10 DEF Spent, Decline, StartStopped, Restart, Idle, Leave
<1>11. CASE Cancel \/ Notify
  BY <1>11 DEF Spent, Cancel, Notify, loopVars, auditVars
<1>12. QED
  BY <1>4, <1>5, <1>6, <1>7, <1>8, <1>9, <1>10, <1>11 DEF Next, Loop


(* EnergyAudit: the requests of a step are within its budget and the       *)
(* renewals that finished items have paid for (step_helpers.rs:614).       *)
THEOREM EnergyPaidFor == Spec => []EnergyAudit
<1>1. Init => Spent
  BY DEF Init, Spent
<1>2. IInv /\ Spent /\ [Next]_vars => Spent'
  <2>1. ASSUME Spent, UNCHANGED vars
        PROVE  Spent'
    BY <2>1 DEF Spent, vars, auditVars
  <2>2. QED
    BY <2>1, SpentStep
<1>3. IInv /\ Spent => EnergyAudit
  <2>1. ASSUME IInv, Spent, pc # "idle"
        PROVE  asks <= (Budget - 1) + Energy * (baseline - from)
    <3>1. /\ energy \in Nat /\ energy >= 1 /\ asks \in Nat
          /\ Energy * (baseline - from) \in Int
      BY <2>1, Limits DEF IInv, TypeOK, LoopTypes, AuditTypes
    <3>2. \/ asks + energy <= (Budget - 1) + Energy * (baseline - from)
          \/ asks + (energy - 1) <= (Budget - 1) + Energy * (baseline - from)
      BY <2>1 DEF Spent
    <3>3. QED
      BY <3>1, <3>2, Limits
  <2>2. QED
    BY <2>1 DEF EnergyAudit
<1>4. QED
  BY <1>1, <1>2, <1>3, Inductive, PTL DEF Spec

(* HistorySound: whatever happens in a round, in a stream or to the        *)
(* process, calls and responses stay paired, no attempt starts with the    *)
(* calls of another, and the file holds what the conversation remembers.   *)
THEOREM HistoryCorrect == Spec => []HistorySound
<1>1. TypeOK /\ HistoryPaired /\ MemoryOnDisk /\ FreshStream => HistorySound
  BY DEF HistorySound
<1>2. QED
  BY <1>1, TypeCorrect, EveryCallAnswered, MemoryKept, StreamsStartFresh, PTL

(* TurnsKept: no step forgets a turn, and none but the two returns of      *)
(* step() that reach no end_turn leaves its turn open.                     *)
THEOREM TurnsKeptCorrect == Spec => TurnsKept
BY NothingForgotten, ExitsCloseTurns, PTL DEF TurnsKept

=============================================================================
