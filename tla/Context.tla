------------------------------ MODULE Context ------------------------------
(***************************************************************************)
(* What the model gets to see: the prompt that build_llm_payload           *)
(* (context/prompt.rs) makes of the conversation (context/history.rs,      *)
(* context/sanitize.rs) and of the evidence that tools have gathered       *)
(* (evidence.rs, context_assembler.rs, core/step_helpers.rs,               *)
(* tools/files.rs, tools/bash.rs), and the three ways the conversation is  *)
(* made smaller: compaction, compression of the turn, truncation.          *)
(*                                                                         *)
(* Somebody else edits the workspace meanwhile.  A reading of a file and   *)
(* the note of the file's version are two steps, and a version is a time   *)
(* in seconds and a size, which an edit need not change.                   *)
(*                                                                         *)
(* Texts are left out; a message is its kind and its size in tokens.  The  *)
(* prompt is a function of the state, Prompt.                              *)
(***************************************************************************)
EXTENDS Integers, Sequences, FiniteSets, SequencesExt

CONSTANTS
  Window,       \* max_history_tokens
  Static, Task, \* tokens of the identity, and of the task summary
  Extras,       \* tokens of notices, memory and skill, in order of priority
  Status,       \* tokens of the system prompt that get_context_status counts
  Tomb,         \* tokens charged for evidence that has become stale
  Evicted,      \* tokens of the text that stands for evicted evidence
  Sizes,        \* sizes of results
  Safe,         \* the newest turns, kept whole (3)
  Reach,        \* how far back a user's reference is looked for (10)
  Old,          \* distance at which history becomes "earlier" (10)
  Stripped,     \* what is left of a stripped result, size of a summary
  Clip,         \* what is left of a large result in history
  TurnLimit,    \* results of the current turn above which it is compressed
  ResultLimit,  \* size above which a result of the current turn is cut
  Kinds,        \* kinds of evidence considered
  Keep,         \* turns that the compaction of autopilot keeps (3)
  MaxTurns,     \* bound: turns remembered
  MaxMessages,  \* bound: messages of the conversation before a call
  MaxEdits      \* bound: changes of the workspace

EvidenceKinds == {"diagnostic", "directory", "file"}

ASSUME ContextAssumption ==
  /\ {Window, Static, Task, Status, Tomb, Evicted, Safe, Reach, Old,
      Stripped, Clip, TurnLimit, ResultLimit, Keep, MaxTurns, MaxMessages,
      MaxEdits} \subseteq Nat
  /\ Extras \in Seq(Nat) /\ Sizes \subseteq Nat
  /\ Kinds \subseteq EvidenceKinds
  /\ Stripped <= Clip /\ Clip <= ResultLimit

VARIABLES
  dialogue,   \* dialogue_history
  current,   \* current_turn, or NoTurn
  evidence,  \* active_evidence
  reading,   \* a tool has looked at the workspace and not yet answered
  disk       \* the workspace: its contents, and what metadata() says of it

contextVars == <<dialogue, current, evidence, reading, disk>>

NoTurn == [refers |-> FALSE, messages |-> <<>>]
NoReading == [kind |-> "none", content |-> 0]

(* A message: who speaks, and how much.  "cut" is a result that was        *)
(* replaced by its beginning and end, "gone" one that was stripped.        *)
Message == [kind : {"user", "say", "think", "call", "result"},
            form : {"whole", "cut", "gone"}, size : Nat]
Msg(k, n) == [kind |-> k, form |-> "whole", size |-> n]

(* A turn, and whether its user message speaks of earlier output.          *)
Turn == [refers : BOOLEAN, messages : Seq(Message)]

(* Evidence: what it shows of the workspace, the version noted for it and  *)
(* its size.  Every kind here has one source.                              *)
Version == 0 .. MaxEdits + 2     \* 0: None, MaxEdits + 2: invalidated_by_write
Evidence == [kind : EvidenceKinds, content : 0 .. MaxEdits,
             version : Version, size : Nat]

Sum(s) ==
  LET upto[k \in 0 .. Len(s)] == IF k = 0 THEN 0 ELSE upto[k - 1] + s[k]
  IN  upto[Len(s)]
Tokens(messages) == Sum([i \in DOMAIN messages |-> messages[i].size])
Less(a, b) == IF a > b THEN a - b ELSE 0         \* saturating_sub
Least(a, b) == IF a < b THEN a ELSE b
Clamp(n, lo, hi) == IF n < lo THEN lo ELSE Least(n, hi)

-----------------------------------------------------------------------------
(* History                                                                 *)

ResponseReserve ==
  IF Window < 8192 THEN Window \div 10 ELSE Clamp(Window \div 10, 4096, 32000)

(* Mutant: the turn is not counted.                                        *)
BudgetBesideSystem(system, now) ==
  Least((Window * 85) \div 100, Less(Less(Window, system), ResponseReserve))

HistoryBudget(system, now) ==
  Least((Window * 85) \div 100,
        Less(Less(Less(Window, system), now), ResponseReserve))

(* strip_response_payload, and truncate_function_response.                 *)
Strip(m) ==
  IF m.kind = "result" /\ m.size > Stripped
  THEN [m EXCEPT !.size = Stripped, !.form = "gone"] ELSE m
CutOld(m) ==
  IF m.kind = "result" /\ m.size > Clip
  THEN [m EXCEPT !.size = Clip, !.form = "cut"] ELSE m

(* Of a call's arguments the ones that name its object are left, of an     *)
(* answer that is only thought a placeholder.                              *)
Brief(m) == IF m.kind = "call" THEN [m EXCEPT !.size = 1] ELSE m
Reconstructed(m) ==
  IF m.kind = "think" THEN Msg("say", 1) ELSE Strip(Brief(m))

(* Mutant: the results of an old turn are left out, its calls are kept.    *)
ShownCalls(turn, i, protected) ==
  IF i >= Safe /\ ~protected
  THEN SelectSeq(turn.messages, LAMBDA m : m.kind # "result")
  ELSE [j \in DOMAIN turn.messages |-> CutOld(turn.messages[j])]

(* The turn at distance i from the newest, as the prompt shows it: an old  *)
(* one without its results, unless the turn after it refers to them.       *)
Shown(turn, i, protected) ==
  [j \in DOMAIN turn.messages |->
     IF i >= Safe /\ ~protected THEN Reconstructed(turn.messages[j])
     ELSE CutOld(turn.messages[j])]

(* The turn at distance i, if there is room for it beside those taken; no  *)
(* turn is taken after one that was too large.                             *)
(* Mutant, as it stands: the turns after it are.                           *)
Nothing == [tokens |-> 0, blocks |-> <<>>, protect |-> FALSE, full |-> FALSE]
TakeAny(budget, acc, i) ==
  LET turn  == dialogue[Len(dialogue) - i]
      shown == Shown(turn, i, acc.protect)
      total == acc.tokens + Tokens(shown)
  IN  IF total > budget THEN [acc EXCEPT !.full = TRUE]
      ELSE [tokens |-> total, full |-> FALSE,
            blocks |-> <<[distance |-> i, messages |-> shown]>> \o acc.blocks,
            protect |-> i < Reach /\ turn.refers]
Take(budget, acc, i) == IF acc.full THEN acc ELSE TakeAny(budget, acc, i)

(* From the newest turn back, as long as the budget lasts.  An element of  *)
(* blocks is the turn's distance and its messages.                         *)
Chosen(budget) ==
  LET taken[k \in 0 .. Len(dialogue)] ==
        IF k = 0 THEN Nothing ELSE Take(budget, taken[k - 1], k - 1)
  IN  taken[Len(dialogue)]

(* The blocks one after the other, a label before each zone but the newest.*)
Zone(i) == IF i >= Old THEN 0 ELSE IF i >= Safe THEN 1 ELSE 2
Flattened(blocks) ==
  LET Label(j) ==
        IF /\ Zone(blocks[j].distance) # 2
           /\ j = 1 \/ Zone(blocks[j - 1].distance) # Zone(blocks[j].distance)
        THEN <<Msg("user", 1)>> ELSE <<>>
  IN  FlattenSeq([j \in DOMAIN blocks |-> Label(j) \o blocks[j].messages])

-----------------------------------------------------------------------------
(* Evidence                                                                *)

(* generate_freshness: only a path that exists has a version, and the      *)
(* "path" of a listing is the command, that of diagnostics a word.         *)
CurrentVersion(kind) == IF kind = "file" THEN disk.version ELSE 0

IsFresh(e) ==
  e.kind \in {"file", "directory"} => CurrentVersion(e.kind) = e.version

(* Candidates in the order in which room is given to them: stale evidence, *)
(* of which a tombstone is shown, the extras, fresh evidence.  All that is *)
(* fresh has score 1, and its identifier, which begins with its kind,      *)
(* decides.                                                                *)
ByKind(S) ==
  LET Of(kind) == SetToSeq({e \in S : e.kind = kind})
  IN  Of("diagnostic") \o Of("directory") \o Of("file")
NoEvidence == [kind |-> "file", content |-> 0, version |-> 0, size |-> 0]
Items(what, s) ==
  [i \in DOMAIN s |-> [what |-> what, of |-> s[i],
                       cost |-> IF what = "stale" THEN Tomb ELSE s[i].size]]
Candidates ==
  LET fresh == {e \in evidence : IsFresh(e)}
  IN  Items("stale", ByKind(evidence \ fresh))
      \o [i \in DOMAIN Extras |->
            [what |-> "extra", of |-> NoEvidence, cost |-> Extras[i]]]
      \o Items("evidence", ByKind(fresh))

(* assemble_prompt: what is required first, then what fits.  Evidence that *)
(* does not fit is replaced by a sentence if that fits; the sentence takes *)
(* its own size from the budget, and is counted with the evidence's.       *)
Require(acc, cost) ==
  IF cost <= acc.left
  THEN [acc EXCEPT !.left = @ - cost, !.used = @ + cost, !.text = @ + cost]
  ELSE [acc EXCEPT !.left = 0]
Allot(acc, item) ==
  IF item.cost <= acc.left
  THEN [acc EXCEPT !.left = @ - item.cost, !.used = @ + item.cost,
                   !.text = @ + item.cost, !.shown = @ \cup {item}]
  ELSE IF item.what \in {"evidence", "stale"} /\ Evicted <= acc.left
  THEN [acc EXCEPT !.left = @ - Evicted, !.used = @ + item.cost,
                   !.text = @ + Evicted, !.evicted = @ \cup {item}]
  ELSE [acc EXCEPT !.evicted = @ \cup {item}]
Required(budget) ==
  Require(Require([left |-> budget, used |-> 0, text |-> 0,
                   shown |-> {}, evicted |-> {}], Static), Task)
AssembledPrompt(budget) ==
  LET items == Candidates
      given[k \in 0 .. Len(items)] ==
        IF k = 0 THEN Required(budget) ELSE Allot(given[k - 1], items[k])
  IN  given[Len(items)]

-----------------------------------------------------------------------------
(* build_llm_payload                                                       *)

Now == IF current = NoTurn THEN <<>> ELSE <<Msg("user", 1)>> \o current.messages

Prompt ==
  LET now    == Tokens(Now)
      system == AssembledPrompt(Less(Less(Window, now), ResponseReserve))
      budget == HistoryBudget(system.used, now)
      past   == Chosen(budget)
  IN  [system |-> system, now |-> now, budget |-> budget, past |-> past,
       messages |-> Flattened(past.blocks) \o Now]

(* get_context_status: a system prompt of its own, without evidence.       *)
Usage(turn) ==
  Chosen(HistoryBudget(Status, Tokens(turn.messages))).tokens
    + Tokens(turn.messages) + Status

-----------------------------------------------------------------------------
ContextInit ==
  /\ dialogue = <<>> /\ current = NoTurn
  /\ evidence = {} /\ reading = NoReading
  /\ disk = [content |-> 0, version |-> 1]

(* oldest_turns_for_compaction: at least two, and 30% of the window.       *)
ToCompact ==
  LET Enough(n) ==
        /\ n >= 2
        /\ Sum([i \in 1 .. n |-> Tokens(dialogue[i].messages)]) >= (Window * 30) \div 100
      enough == {n \in 1 .. Len(dialogue) : Enough(n)}
  IN  IF enough = {} THEN Len(dialogue)
      ELSE CHOOSE n \in enough : \A m \in enough : n <= m

(* rule_based_compact: one turn that stands for the oldest n.              *)
Summary == [refers |-> FALSE, messages |-> <<Msg("user", Stripped)>>]
Compacted(n) == <<Summary>> \o SubSeq(dialogue, n + 1, Len(dialogue))

(* A step begins: start_turn, then maybe_compact_history.                  *)
NewTurn(refers) == [refers |-> refers, messages |-> <<Msg("user", 1)>>]
StartTurn(refers) ==
  /\ current = NoTurn
  /\ Len(dialogue) < MaxTurns
  /\ current' = NewTurn(refers)
  /\ dialogue' = IF Usage(NewTurn(refers)) > (Window * 85) \div 100 /\ dialogue # <<>>
                THEN Compacted(ToCompact) ELSE dialogue
  /\ UNCHANGED <<evidence, reading, disk>>

(* The step was cancelled before it began.                                 *)
StopAtOnce(refers) ==
  /\ current = NoTurn
  /\ Len(dialogue) < MaxTurns
  /\ dialogue' = Append(dialogue, NewTurn(refers))
  /\ UNCHANGED <<current, evidence, reading, disk>>

(* check_loop_guards: autopilot gets energy anew and keeps the last turns. *)
Audit ==
  /\ current # NoTurn /\ reading = NoReading
  /\ Last(current.messages).kind # "call"
  /\ Len(dialogue) > Keep
  /\ dialogue' = Compacted(Len(dialogue) - Keep)
  /\ UNCHANGED <<current, evidence, reading, disk>>

Length == Len(current.messages)
            + Sum([i \in DOMAIN dialogue |-> Len(dialogue[i].messages)])
Open == current # NoTurn /\ Last(current.messages).kind \in {"user", "result"}

(* The model calls tools.                                                  *)
Call ==
  /\ Open /\ Length < MaxMessages
  /\ current' = [current EXCEPT !.messages = Append(@, Msg("call", 2))]
  /\ UNCHANGED <<dialogue, evidence, reading, disk>>

(* An answer that is not accepted as the last: prepare_finished_run.       *)
Deny ==
  /\ Open /\ Length < MaxMessages
  /\ current' = [current EXCEPT !.messages = @ \o <<Msg("say", 1), Msg("user", 1)>>]
  /\ UNCHANGED <<dialogue, evidence, reading, disk>>

(* A tool looks at the workspace: read_file, or a command that builds,     *)
(* tests or lists.                                                         *)
Running == current # NoTurn /\ Last(current.messages).kind = "call" /\ reading = NoReading
Look(kind) ==
  /\ Running
  /\ reading' = [kind |-> kind, content |-> disk.content]
  /\ UNCHANGED <<dialogue, current, evidence, disk>>
ReadFile == "file" \in Kinds /\ Look("file")
RunCommand == \E kind \in Kinds \ {"file"} : Look(kind)

(* What becomes of the answer: evidence, with the version there is now.    *)
Seen(size) == [kind |-> reading.kind, content |-> reading.content,
               version |-> CurrentVersion(reading.kind), size |-> size]

(* Mutant: what the evidence replaces is kept.                             *)
RegisterMore(size) ==
  /\ reading # NoReading
  /\ evidence' = evidence \cup {Seen(size)}
  /\ reading' = NoReading
  /\ UNCHANGED <<dialogue, current, disk>>

(* handle_successful_tool_effects: evidence of the same kind and source is *)
(* replaced.                                                               *)
Register(size) ==
  /\ reading # NoReading
  /\ evidence' = {e \in evidence : e.kind # reading.kind} \cup {Seen(size)}
  /\ reading' = NoReading
  /\ UNCHANGED <<dialogue, current, disk>>

(* The tool failed, a build with errors too: nothing is kept.              *)
Fail ==
  /\ reading # NoReading
  /\ reading' = NoReading
  /\ UNCHANGED <<dialogue, current, evidence, disk>>

(* The contents change; the time and the size may be what they were.       *)
Changed(seen) ==
  disk' = [content |-> disk.content + 1,
           version |-> IF seen THEN disk.version + 1 ELSE disk.version]

(* A tool that writes: diagnostics get a version of their own.             *)
Invalidated ==
  {IF e.kind = "diagnostic" THEN [e EXCEPT !.version = MaxEdits + 2] ELSE e : e \in evidence}
Changes(seen) ==
  /\ Running
  /\ disk.content < MaxEdits
  /\ Changed(seen)
  /\ evidence' = Invalidated
  /\ UNCHANGED <<dialogue, current, reading>>

(* write_file may leave the size what it was; patch_file, if each text is  *)
(* found once, replaces it by one of any size.                             *)
WriteFile == \E seen \in BOOLEAN : Changes(seen)
PatchFile == \E seen \in BOOLEAN : Changes(seen)

(* Somebody else edits.                                                    *)
Edit ==
  /\ disk.content < MaxEdits
  /\ \E seen \in BOOLEAN : Changed(seen)
  /\ UNCHANGED <<dialogue, current, evidence, reading>>

(* compress_current_turn: the oldest results are stripped until the rest   *)
(* is small enough, never those of the last round.                         *)
Results(messages) == {i \in DOMAIN messages : messages[i].kind = "result"}
ResultTokens(messages) == Sum([i \in DOMAIN messages |->
                                 IF i \in Results(messages) THEN messages[i].size ELSE 0])
(* Mutant: the first result is kept, not the last.                         *)
KeepFirst(messages) ==
  {i \in Results(messages) : \E j \in Results(messages) : j < i}

Compressible(messages) == Results(messages) \ {Len(messages)}

Squeeze(messages, i) ==
  IF ResultTokens(messages) <= TurnLimit \/ i \notin Compressible(messages)
  THEN messages ELSE [messages EXCEPT ![i] = Strip(@)]
Compressed(messages) ==
  LET squeezed[i \in 0 .. Len(messages)] ==
        IF i = 0 THEN messages ELSE Squeeze(squeezed[i - 1], i)
  IN  squeezed[Len(messages)]

(* truncate_current_turn_tool_results: each result on its own.  What is    *)
(* put in its place is larger than the limit by the note of what was cut,  *)
(* and is cut again in the next round.                                     *)
Truncated(messages) ==
  [i \in DOMAIN messages |->
     IF i \in Results(messages) /\ messages[i].size > ResultLimit
     THEN [messages[i] EXCEPT !.size = ResultLimit + 1, !.form = "cut"]
     ELSE messages[i]]

(* The round's results are recorded, and the turn is made smaller.         *)
Reconcile(size) ==
  /\ Running
  /\ current' = [current EXCEPT !.messages =
                   Truncated(Compressed(Append(@, Msg("result", size))))]
  /\ UNCHANGED <<dialogue, evidence, reading, disk>>

(* end_turn, after an answer of which something can be seen or nothing, or *)
(* at a guard of the loop.                                                 *)
EndTurn(messages) ==
  /\ dialogue' = Append(dialogue, [current EXCEPT !.messages = @ \o messages])
  /\ current' = NoTurn
  /\ UNCHANGED <<evidence, reading, disk>>
Finish == Open /\ \E kind \in {"say", "think"} : EndTurn(<<Msg(kind, 1)>>)
Stop == Open /\ EndTurn(<<>>)

ContextNext ==
  \/ \E refers \in BOOLEAN : StartTurn(refers) \/ StopAtOnce(refers)
  \/ Audit \/ Call \/ Deny
  \/ ReadFile \/ RunCommand
  \/ \E size \in Sizes : Register(size)
  \/ Fail
  \/ WriteFile \/ PatchFile \/ Edit
  \/ \E size \in Sizes : Reconcile(size)
  \/ Finish \/ Stop

ContextSpec == ContextInit /\ [][ContextNext]_contextVars

-----------------------------------------------------------------------------
ContextTypeOK ==
  /\ dialogue \in Seq(Turn) /\ current \in Turn
  /\ evidence \subseteq Evidence
  /\ reading \in [kind : EvidenceKinds \cup {"none"}, content : 0 .. MaxEdits]
  /\ disk \in [content : 0 .. MaxEdits, version : Version \ {0}]

(* Whatever was compacted, compressed, stripped or left out: in the prompt *)
(* a message with calls is followed by their results, and there are no     *)
(* other results.  A provider refuses a prompt that is not so.             *)
CallsPaired(m) ==
  /\ \A i \in DOMAIN m :
       m[i].kind = "result" => i > 1 /\ m[i - 1].kind = "call"
  /\ \A i \in DOMAIN m :
       m[i].kind = "call" /\ i < Len(m) => m[i + 1].kind = "result"
PromptPaired == CallsPaired(Prompt.messages)

(* No prompt is malformed, whatever was evicted, clipped or stripped       *)
(* (build_llm_payload, sanitize).                                          *)
PromptSound == ContextTypeOK /\ PromptPaired

(* The text of the prompt leaves the room that is kept for the answer,     *)
(* unless the turn alone takes it: build_llm_payload gives the system      *)
(* prompt what the turn leaves, and the history what both leave.           *)
FitsWindow ==
  LET p == Prompt
  IN  p.now + ResponseReserve <= Window =>
        p.system.text + p.past.tokens + p.now + ResponseReserve <= Window

(* The history shown is the newest part of it without a gap, and in it the *)
(* newest turns, and one that the user's next message refers to, have      *)
(* their results (build_history_with_token_budget).                        *)
NewestWhole ==
  LET blocks == Prompt.past.blocks
      turn(b) == dialogue[Len(dialogue) - b.distance]
      Referred(b) == /\ b.distance \in 1 .. Reach
                     /\ dialogue[Len(dialogue) - b.distance + 1].refers
  IN  /\ \A j \in DOMAIN blocks : blocks[j].distance = Len(blocks) - j
      /\ \A j \in DOMAIN blocks :
           blocks[j].distance < Safe \/ Referred(blocks[j]) =>
             \A k \in Results(turn(blocks[j]).messages) :
               blocks[j].messages[k].size =
                 Least(turn(blocks[j]).messages[k].size, Clip)

(* After each round the turn's results are within the limit, or all but    *)
(* those of the last round are stripped (compress_current_turn).           *)
TurnBounded ==
  LET m == current.messages
      results == Results(m)
  IN  results # {} /\ Last(m).kind = "result" =>
        \/ ResultTokens(m) <= TurnLimit
        \/ \A i \in results \ {Len(m)} : m[i].size <= Stripped

(* There is one piece of evidence for a source, and a step never replaces  *)
(* it by an older look (handle_successful_tool_effects).                   *)
LatestLook ==
  [][\A e \in evidence, f \in evidence' :
       e.kind = f.kind =>
         /\ e.content <= f.content
         /\ e.content < f.content => e \notin evidence']_contextVars

(* Refuted.  Evidence of a build that a write has invalidated is not shown *)
(* as fresh (the version "invalidated_by_write" that step_helpers sets).   *)
WrittenIsStale ==
  \A e \in evidence : e.version = MaxEdits + 2 => ~IsFresh(e)

(* Refuted.  A turn is left out only if the prompt has no room for it: its *)
(* text beside the rest, or its share of the window, would be too much.    *)
RoomIsUsed ==
  LET p == Prompt
      n == Len(p.past.blocks)
      total == p.past.tokens +
                 Tokens(Shown(dialogue[Len(dialogue) - n], n,
                              n > 0 /\ n - 1 < Reach /\ dialogue[Len(dialogue) - n + 1].refers))
  IN  n < Len(dialogue) =>
        \/ total > (Window * 85) \div 100
        \/ p.system.text + p.now + ResponseReserve + total > Window
=============================================================================
