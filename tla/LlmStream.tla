----------------------------- MODULE LlmStream -----------------------------
(***************************************************************************)
(* The LLM clients (src/llm_client/): from the history and the system      *)
(* instruction of a session to a request, and from the bytes of the reply  *)
(* to the events the agent loop consumes.  The OpenAI-compatible client    *)
(* assembles tool calls from fragments; the Gemini client, on its two      *)
(* platforms, takes them whole, uploads what is over 512 KiB and keeps an  *)
(* instruction over 128 KiB in a cache of the provider.                    *)
(*                                                                         *)
(* A reply is a sequence of lines (blocks, for Gemini), each of two halves *)
(* and a separator; the network cuts it into chunks anywhere, may break it *)
(* and may end it early.  One request is followed at a time: what requests *)
(* of other sessions share, the cache entry, is read and replaced under    *)
(* its lock.  The channel's capacity is left out: its receiver drains it.  *)
(***************************************************************************)
EXTENDS Naturals, Sequences, FiniteSets, SequencesExt

CONSTANTS
  Instructions,  \* the system instructions of the session
  Large,         \* those of over 128 KiB and at most 512: a larger one is
                 \* uploaded, and what is left of it is small
  Calls,         \* the tool calls a reply may make
  Parts,         \* in how many pieces the arguments of a call are written
  Spelling,      \* for a call, what of its name is written after each piece
  Replies,       \* for a kind of client, the replies its provider may send
  MaxAttempts,   \* max_attempts
  Requests,      \* bound: requests
  Nil            \* no value

Clients == {"openai", "gen", "vertex"}

(* The lines of the replies.                                               *)
Lines == UNION {ToSet(lines) : lines \in UNION {Replies[c] : c \in Clients}}

ASSUME LlmStreamAssumption ==
  /\ Large \subseteq Instructions
  /\ Parts \in [Calls -> Nat]
  /\ \A c \in Calls : Len(Spelling[c]) \in Nat \ {0} /\ Last(Spelling[c]) # <<>>
  /\ MaxAttempts \in Nat \ {0} /\ Requests \in Nat
  /\ \A c \in Clients : Replies[c] \subseteq Seq(Lines)
  /\ \A line \in Lines : line.kind = "fragment" => line.index \in Nat
  /\ Nil # "generated"

VARIABLES
  client,   \* the client of the session
  cached,   \* cached_content: the instruction cached last, and its id
  caches,   \* the provider's caches: of what, and whether not expired yet
  history,  \* the rounds of calls of the session: their ids, and of which client
  phase,    \* idle, connect, read or over
  count,    \* requests so far
  request,  \* the request
  attempts, \* attempts
  reply,    \* the lines the provider sends, and whether all were received
  wire,     \* what is still to be received of them
  buffer,   \* buffer: the line received in part
  tools,    \* active_tools
  places,   \* index_map
  events    \* what was sent to the channel

sessionVars == <<client, cached, caches, history>>
readVars == <<reply, wire, buffer, tools, places>>
vars == <<sessionVars, phase, count, request, attempts, readVars, events>>

-----------------------------------------------------------------------------
(* The request.                                                            *)

(* A call of the history without an id is given a new one; the answer to   *)
(* it says "unknown".                                                      *)
CallId(id) == IF id = Nil THEN "generated" ELSE id
AnswerId(id) == IF id = Nil THEN "unknown" ELSE id

(* The part of OpenAiCompatClient::stream that translates the history: the *)
(* ids of an assistant message, and of the tool messages that follow it.   *)
Messages(rounds) ==
  [r \in DOMAIN rounds |->
     [asked |-> [c \in DOMAIN rounds[r].ids |-> CallId(rounds[r].ids[c])],
      answered |-> [c \in DOMAIN rounds[r].ids |-> AnswerId(rounds[r].ids[c])]]]

(* What a provider of that protocol wants of them.                         *)
Paired(messages) ==
  \A r \in DOMAIN messages : messages[r].asked = messages[r].answered

(* final_system_instruction and request_body_json: an instruction that is  *)
(* in a cache is not sent, and Vertex is not told of the cache.            *)
Body(i, id) ==
  [instruction |-> i,
   system |-> IF id = Nil THEN i ELSE Nil,
   cache |-> IF client = "vertex" THEN Nil ELSE id,
   messages |-> IF client = "openai" THEN Messages(history) ELSE <<>>]

Send(body) ==
  /\ phase' = "connect"
  /\ request' = body
  /\ attempts' = 0

(* resolve_cached_content under the lock: the entry is taken if it is of   *)
(* this instruction, however old it is; create_context_cache may fail.     *)
(* Mutant: what is cached is taken for every instruction.                  *)
AnyCache(i) == cached # Nil

CacheHit(i) == cached # Nil /\ cached.of = i

Resolve(i) ==
  \/ /\ i \notin Large
     /\ Send(Body(i, Nil))
     /\ UNCHANGED <<cached, caches>>
  \/ /\ i \in Large /\ CacheHit(i)
     /\ Send(Body(i, cached.id))
     /\ UNCHANGED <<cached, caches>>
  \/ /\ i \in Large /\ ~CacheHit(i)
     /\ LET id == Len(caches) + 1
        IN /\ caches' = Append(caches, [of |-> i, alive |-> TRUE])
           /\ cached' = [of |-> i, id |-> id]
           /\ Send(Body(i, id))
  \/ /\ i \in Large /\ ~CacheHit(i)
     /\ Send(Body(i, Nil))
     /\ UNCHANGED <<cached, caches>>

Asked ==
  /\ phase = "idle" /\ count < Requests
  /\ count' = count + 1

Stream(i) ==
  /\ Asked
  /\ IF client = "openai"
       THEN Send(Body(i, Nil)) /\ UNCHANGED <<cached, caches>>
       ELSE Resolve(i)
  /\ UNCHANGED <<client, history, readVars, events>>

(* dehydrate_messages and dehydrate_message: a text of over 512 KiB, of a  *)
(* message or of the instruction, is uploaded; an upload that fails fails  *)
(* the call of stream, before there is a channel.                          *)
UploadFails ==
  /\ Asked
  /\ client # "openai"
  /\ UNCHANGED <<sessionVars, phase, request, attempts, readVars, events>>

-----------------------------------------------------------------------------
(* Connecting: the loop of stream and stream_connect_with_retry.           *)

(* The units of a reply.  A line is wide if its halves meet inside a       *)
(* character of several bytes.                                             *)
Eol == [half |-> 0]
Half(line, h) == [half |-> h, line |-> line, intact |-> TRUE]
Wire(lines) ==
  [n \in 1..(3 * Len(lines)) |->
     IF n % 3 = 0 THEN Eol ELSE Half(lines[(n + 2) \div 3], n % 3)]

(* What the provider makes of the request: a cache that has expired or a   *)
(* tool message that answers no call is refused.                           *)
Acceptable ==
  /\ request.cache # Nil => caches[request.cache].alive
  /\ Paired(request.messages)

Try == phase = "connect" /\ attempts' = attempts + 1

Accepted ==
  /\ Try /\ Acceptable
  /\ phase' = "read"
  /\ \E lines \in Replies[client] :
       /\ reply' = [lines |-> lines, whole |-> FALSE]
       /\ wire' = Wire(lines)
  /\ buffer' = <<>> /\ tools' = <<>> /\ places' = <<>>
  /\ UNCHANGED <<sessionVars, count, request, events>>

End(event) ==
  /\ phase' = "over"
  /\ events' = Append(events, [kind |-> event])

(* is_transient is false: no retry.                                        *)
Refused ==
  /\ Try
  /\ End("error")
  /\ UNCHANGED <<sessionVars, count, request, readVars>>

(* A status 5xx or 429, or no answer from the network.                     *)
Transient ==
  /\ Try
  /\ IF attempts + 1 >= MaxAttempts
       THEN End("error")
       ELSE UNCHANGED <<phase, events>>
  /\ UNCHANGED <<sessionVars, count, request, readVars>>

-----------------------------------------------------------------------------
(* The reply of an OpenAI-compatible provider: process_delta_json.         *)

(* The place in active_tools of the call a fragment is of.                 *)
Held(acc, id) == {k \in DOMAIN acc.tools : acc.tools[k].id = id}
Greatest(S) == CHOOSE k \in S : \A j \in S : j <= k
NextPlace(acc) ==
  IF DOMAIN acc.tools = {} THEN 0 ELSE Greatest(DOMAIN acc.tools) + 1

(* Mutant: an id begins a call even when it has begun one.                 *)
PlaceOfEveryId(acc, f) ==
  IF f.id # Nil THEN NextPlace(acc)
  ELSE IF f.index \in DOMAIN acc.places THEN acc.places[f.index] ELSE f.index

Place(acc, f) ==
  IF f.id # Nil
    THEN IF Held(acc, f.id) # {}
           THEN CHOOSE k \in Held(acc, f.id) : TRUE
           ELSE NextPlace(acc)
    ELSE IF f.index \in DOMAIN acc.places THEN acc.places[f.index] ELSE f.index

Opens(acc, f) == f.id # Nil /\ Held(acc, f.id) = {}

Set(function, key, value) ==
  [k \in DOMAIN function \cup {key} |-> IF k = key THEN value ELSE function[k]]

Entry(acc, k) ==
  IF k \in DOMAIN acc.tools THEN acc.tools[k]
                            ELSE [name |-> <<>>, args |-> <<>>, id |-> Nil,
                                  intact |-> TRUE]

(* A name is a sequence of letters, which may come in pieces.              *)
Within(piece, name) ==
  /\ Len(piece) <= Len(name)
  /\ \E i \in 0..(Len(name) - Len(piece)) :
       SubSeq(name, i + 1, i + Len(piece)) = piece

(* A piece that occurs anywhere in what has come of the name is taken for  *)
(* a repetition, and is not added.                                         *)
Repeats(entry, f) == entry.name # <<>> /\ Within(f.name, entry.name)

AddFragment(entry, f, intact) ==
  [name |-> IF f.name = Nil \/ Repeats(entry, f)
              THEN entry.name ELSE entry.name \o f.name,
   args |-> IF f.args = Nil THEN entry.args ELSE Append(entry.args, f.args),
   id |-> IF f.id = Nil THEN entry.id ELSE f.id,
   intact |-> entry.intact /\ intact]

Fragment(acc, f, intact) ==
  LET k == Place(acc, f)
  IN [acc EXCEPT
        !.tools = Set(@, k, AddFragment(Entry(acc, k), f, intact)),
        !.places = IF Opens(acc, f) THEN Set(@, f.index, k) ELSE @]

-----------------------------------------------------------------------------
(* A line of either client.                                                *)

Says(line, intact) == [kind |-> line.kind, line |-> line.of, intact |-> intact]

Delta(acc, line, intact) ==
  CASE line.kind \in {"text", "thought"} ->
         [acc EXCEPT !.events = Append(@, Says(line, intact))]
    [] line.kind = "fragment" -> Fragment(acc, line, intact)
    [] OTHER -> acc           \* "[DONE]", a comment, an unknown delta

(* The arguments of a call: none is an empty object, and what does not     *)
(* parse is null.  Of the pieces of an object only all parse.              *)
Written(call) == [k \in 1..Parts[call] |-> <<call, k>>]
Parsed(args) ==
  IF args = <<>> \/ \E c \in Calls : args = Written(c) THEN args ELSE Nil

(* Mutant: [DONE] does not stop the client.                                *)
BlockGoesOn(acc, line, intact) ==
  CASE line.kind \in {"text", "thought"} ->
         [acc EXCEPT !.events = Append(@, Says(line, intact))]
    [] line.kind = "call" /\ line.pieces # Nil ->
         [acc EXCEPT !.events =
            Append(@, [kind |-> "call", name |-> line.name, id |-> line.id,
                       args |-> Parsed(line.pieces), intact |-> intact])]
    [] line.kind = "done" ->
         [acc EXCEPT !.events = Append(@, [kind |-> "done"])]
    [] OTHER -> acc

(* emit_sse_data_block and parse_function_call_basic: a call without args  *)
(* is none.                                                                *)
Block(acc, line, intact) ==
  CASE line.kind \in {"text", "thought"} ->
         [acc EXCEPT !.events = Append(@, Says(line, intact))]
    [] line.kind = "call" /\ line.pieces # Nil ->
         [acc EXCEPT !.events =
            Append(@, [kind |-> "call", name |-> line.name, id |-> line.id,
                       args |-> Parsed(line.pieces), intact |-> intact])]
    [] line.kind = "done" ->
         [acc EXCEPT !.events = Append(@, [kind |-> "done"]), !.over = TRUE]
    [] OTHER -> acc

(* A line that is not whole does not parse, and is ignored.                *)
OnLine(acc, halves) ==
  IF Len(halves) < 2 THEN acc
  ELSE LET line == halves[1].line
           intact == halves[1].intact /\ halves[2].intact
       IN IF client = "openai" THEN Delta(acc, line, intact)
                               ELSE Block(acc, line, intact)

(* The loop over the separators of the buffer; a client that has returned  *)
(* looks at nothing more.                                                  *)
OnUnit(acc, unit) ==
  IF acc.over THEN acc
  ELSE IF unit = Eol
    THEN [OnLine(acc, acc.buffer) EXCEPT !.buffer = <<>>]
    ELSE [acc EXCEPT !.buffer = Append(@, unit)]

(* String::from_utf8_lossy of a chunk: a character cut by its ends is      *)
(* replaced.                                                               *)
Decoded(chunk) ==
  [k \in DOMAIN chunk |->
     IF /\ chunk[k] # Eol /\ chunk[k].line.wide
        /\ \/ k = 1 /\ chunk[k].half = 2
           \/ k = Len(chunk) /\ chunk[k].half = 1
       THEN [chunk[k] EXCEPT !.intact = FALSE]
       ELSE chunk[k]]

Acc == [buffer |-> buffer, tools |-> tools, places |-> places,
        events |-> events, over |-> FALSE]

-----------------------------------------------------------------------------
(* Reading: the task stream spawns.                                        *)

(* The state of the task after the first units of a chunk.                 *)
Scan(chunk) ==
  LET after[k \in 0..Len(chunk)] ==
        IF k = 0 THEN Acc ELSE OnUnit(after[k - 1], chunk[k])
  IN after[Len(chunk)]

Read(n) ==
  /\ phase = "read"
  /\ n \in 1..Len(wire)
  /\ LET acc == Scan(Decoded(SubSeq(wire, 1, n)))
     IN /\ buffer' = acc.buffer
        /\ tools' = acc.tools
        /\ places' = acc.places
        /\ events' = acc.events
        /\ phase' = IF acc.over THEN "over" ELSE "read"
        /\ reply' = [reply EXCEPT !.whole = acc.over]
  /\ wire' = SubSeq(wire, n + 1, Len(wire))
  /\ UNCHANGED <<sessionVars, count, request, attempts>>

(* The connection breaks, or the client's time of 600 s is up.             *)
(* Mutant: a reply that breaks is asked for again.                         *)
ReadRetried ==
  /\ phase = "read"
  /\ phase' = "connect"
  /\ attempts' = 0
  /\ UNCHANGED <<sessionVars, count, request, readVars, events>>

ReadFails ==
  /\ phase = "read"
  /\ End("error")
  /\ UNCHANGED <<sessionVars, count, request, attempts, readVars>>

(* Mutant: no id is made for a call that came without one.                 *)
CallEventAsIs(entry) ==
  [kind |-> "call", name |-> entry.name, args |-> Parsed(entry.args),
   intact |-> entry.intact, id |-> entry.id]

CallEvent(entry) ==
  [kind |-> "call", name |-> entry.name, args |-> Parsed(entry.args),
   intact |-> entry.intact,
   id |-> CallId(entry.id)]

(* A set of numbers, from the least to the greatest.                       *)
InOrder(S) ==
  [n \in 1..Cardinality(S) |->
     CHOOSE k \in S : Cardinality({j \in S : j <= k}) = n]

(* The calls of active_tools, in the order of their places.                *)
Assembled(held) ==
  LET named == {k \in DOMAIN held : held[k].name # <<>>}
      order == InOrder(named)
  IN [j \in DOMAIN order |-> CallEvent(held[order[j]])]

(* The reply ends, here or early.  The OpenAI client still looks at a line *)
(* that has no end, then sends its calls; the Gemini client drops it.      *)
ReplyEnds ==
  /\ phase = "read"
  /\ LET acc == IF client = "openai" THEN OnLine(Acc, buffer) ELSE Acc
     IN events' = acc.events \o Assembled(acc.tools) \o <<[kind |-> "done"]>>
  /\ phase' = "over"
  /\ reply' = [reply EXCEPT !.whole = wire = <<>>]
  /\ tools' = <<>>
  /\ UNCHANGED <<sessionVars, count, request, attempts, wire, buffer, places>>

-----------------------------------------------------------------------------
(* The session.                                                            *)

Those(s, S) ==
  LET order == InOrder(S)
  IN [c \in DOMAIN order |-> s[order[c]]]
CallsOf(sent) == Those(sent, {k \in DOMAIN sent : sent[k].kind = "call"})

Round(calls) ==
  [by |-> client, ids |-> [c \in DOMAIN calls |-> calls[c].id]]

(* What is left of a stream once its task has returned.                    *)
Forgotten ==
  /\ request' = Nil /\ attempts' = 0 /\ reply' = Nil /\ events' = <<>>
  /\ wire' = <<>> /\ buffer' = <<>> /\ tools' = <<>> /\ places' = <<>>

(* collect_stream_response, then the round of the calls it heard: after an *)
(* error there is none.                                                    *)
Consume ==
  /\ phase = "over"
  /\ phase' = "idle"
  /\ history' = IF Last(events).kind = "done" /\ CallsOf(events) # <<>>
                  THEN Append(history, Round(CallsOf(events)))
                  ELSE history
  /\ Forgotten
  /\ UNCHANGED <<client, cached, caches, count>>

(* update_session_llm: another client, with nothing cached.                *)
Switch(c) ==
  /\ phase = "idle" /\ c # client
  /\ client' = c
  /\ cached' = Nil
  /\ UNCHANGED <<caches, history, phase, count, request, attempts, readVars,
                 events>>

(* The provider: a cache lives for the 3600 s of its ttl.                  *)
Expire(id) ==
  /\ id \in DOMAIN caches /\ caches[id].alive
  /\ caches' = [caches EXCEPT ![id].alive = FALSE]
  /\ UNCHANGED <<client, cached, history, phase, count, request, attempts,
                 readVars, events>>

-----------------------------------------------------------------------------
Init ==
  /\ client \in Clients
  /\ cached = Nil /\ caches = <<>> /\ history = <<>>
  /\ phase = "idle" /\ count = 0 /\ request = Nil /\ attempts = 0
  /\ reply = Nil /\ wire = <<>> /\ buffer = <<>>
  /\ tools = <<>> /\ places = <<>> /\ events = <<>>

Answer == Accepted \/ Refused \/ Transient
Receive == (\E n \in 1..Len(wire) : Read(n)) \/ ReadFails \/ ReplyEnds

Next ==
  \/ \E i \in Instructions : Stream(i)
  \/ UploadFails \/ Answer \/ Receive \/ Consume
  \/ \E c \in Clients : Switch(c)
  \/ \E id \in DOMAIN caches : Expire(id)

Spec == Init /\ [][Next]_vars

(* The timeouts of create_standard_client end every wait for the provider, *)
(* and the agent loop reads its channel.                                   *)
FairSpec == Spec /\ WF_vars(Answer) /\ WF_vars(Receive) /\ WF_vars(Consume)

-----------------------------------------------------------------------------
(* What a reply says, whatever way it came.  A fragment is of a call, which*)
(* the client is not told.                                                 *)
IsCall(line) == line.kind = "fragment" \/ (line.kind = "call" /\ line.pieces # Nil)
CallLines(lines, c, n) == {k \in 1..n : IsCall(lines[k]) /\ lines[k].call = c}
Begun(lines, n) ==
  {k \in 1..n : /\ IsCall(lines[k])
                /\ CallLines(lines, lines[k].call, k - 1) = {}}
CallsIn(lines) == Those(lines, Begun(lines, Len(lines)))

NameOf(c) == Last(Spelling[c])

(* The id under which a call is heard whose first line is this one.        *)
IdOf(line) == IF client = "openai" THEN CallId(line.id) ELSE line.id

Speech(s) == Those(s, {k \in DOMAIN s : s[k].kind \in {"text", "thought"}})

(* What the providers keep to.  Gemini writes a call in one block, and     *)
(* nothing after the end.                                                  *)
WholeCalls(lines) ==
  /\ \A k \in DOMAIN lines : lines[k].kind # "fragment"
  /\ \A k \in DOMAIN lines : lines[k].kind = "done" => k = Len(lines)
  /\ \A k \in DOMAIN lines : IsCall(lines[k]) =>
       /\ k \in Begun(lines, k)
       /\ lines[k].call \in Calls /\ lines[k].pieces = Written(lines[k].call)
       /\ lines[k].name = NameOf(lines[k].call)

(* The others write one in fragments.  The pieces of its arguments come in *)
(* order and all of them come.  So do those of its name, none of which     *)
(* occurs in what came before it; then the name, or a part, may come again.*)
(* An id is its own and comes with the first fragment, if it comes.  A     *)
(* fragment without one has the index of that first fragment, and no call  *)
(* was begun with it since; if that had no id, the number of the calls     *)
(* begun before.                                                           *)
Pieces(lines, c, n) == {k \in CallLines(lines, c, n) : lines[k].args # Nil}
Namings(lines, c, n) == {k \in CallLines(lines, c, n) : lines[k].name # Nil}

Spelt(c, n) ==
  IF n = 0 THEN <<>>
  ELSE IF n <= Len(Spelling[c]) THEN Spelling[c][n] ELSE NameOf(c)
Spells(piece, c, n) ==
  IF n <= Len(Spelling[c])
    THEN /\ Spelt(c, n) = Spelt(c, n - 1) \o piece
         /\ Spelt(c, n - 1) = <<>> \/ ~Within(piece, Spelt(c, n - 1))
    ELSE Within(piece, NameOf(c))
Opened(lines, i, from, to) ==
  {k \in Begun(lines, to) : k >= from /\ lines[k].id # Nil /\ lines[k].index = i}
Placed(lines, f, b, k) ==
  IF lines[b].id # Nil
    THEN lines[b].index = f.index /\ Opened(lines, f.index, b + 1, k - 1) = {}
    ELSE /\ f.index = Cardinality(Begun(lines, b - 1))
         /\ Opened(lines, f.index, 1, k - 1) = {}
InFragments(lines) ==
  /\ \A k \in DOMAIN lines : lines[k].kind # "call"
  /\ \A k \in DOMAIN lines : lines[k].kind = "fragment" =>
       LET f == lines[k]
           n == Cardinality(Pieces(lines, f.call, k))
           m == Cardinality(Namings(lines, f.call, k))
       IN /\ f.call \in Calls
          /\ f.args # Nil => f.args = <<f.call, n>>
          /\ f.name # Nil => Spells(f.name, f.call, m)
          /\ \A j \in Begun(lines, k) :
               /\ f.id # Nil => (lines[j].id = f.id <=> lines[j].call = f.call)
               /\ f.id = Nil /\ lines[j].call = f.call => Placed(lines, f, j, k)
          /\ Cardinality(Pieces(lines, f.call, Len(lines))) = Parts[f.call]
          /\ Cardinality(Namings(lines, f.call, Len(lines))) >= Len(Spelling[f.call])
RepliesRegular ==
  \A c \in Clients : \A lines \in Replies[c] :
    IF c = "openai" THEN InFragments(lines) ELSE WholeCalls(lines)

(* TypeOK: the state of a stream.                                          *)
TypeOK ==
  /\ client \in Clients
  /\ phase \in {"idle", "connect", "read", "over"}
  /\ count \in 0..Requests /\ attempts \in 0..MaxAttempts
  /\ DOMAIN places \subseteq Nat /\ DOMAIN tools \subseteq Nat
  /\ \A k \in DOMAIN events :
       events[k].kind \in {"text", "thought", "call", "done", "error"}

(* ReplyHeard: process_delta_json, emit_sse_data_block and the end of      *)
(* stream.  However the bytes of a reply were cut into chunks and the      *)
(* fragments of parallel calls were mixed, a reply that came to its end is *)
(* heard as it was written: every text once and in order, every call once, *)
(* in the order they were begun, with the whole of its own name, its own   *)
(* arguments and its own id.                                               *)
ReplyHeard ==
  phase = "over" /\ reply # Nil /\ reply.whole =>
    LET calls == CallsIn(reply.lines)
        heard == CallsOf(events)
        said == Speech(events)
        spoken == Speech(reply.lines)
    IN /\ Len(heard) = Len(calls)
       /\ \A k \in DOMAIN calls :
            /\ heard[k].name = NameOf(calls[k].call)
            /\ heard[k].args = Written(calls[k].call)
            /\ heard[k].id = IdOf(calls[k])
       /\ Len(said) = Len(spoken)
       /\ \A k \in DOMAIN said :
            said[k].kind = spoken[k].kind /\ said[k].line = spoken[k].of

(* EndsOnce: the returns of the task stream spawns.  The loop that reads   *)
(* the channel finds one Done or one Error, and nothing after it; and no   *)
(* call of a reply that broke is heard of an OpenAI-compatible provider.   *)
EndsOnce ==
  /\ \A k \in DOMAIN events :
       events[k].kind \in {"done", "error"} => phase \notin {"connect", "read"}
                                              /\ k = Len(events)
  /\ phase = "over" => events # <<>> /\ Last(events).kind \in {"done", "error"}
  /\ phase = "over" /\ client = "openai" /\ Last(events).kind = "error" =>
       CallsOf(events) = <<>>

(* StreamSound: EndsOnce, and every variable of a stream has its type.     *)
StreamSound == TypeOK /\ EndsOnce

(* CacheIsOfInstruction: resolve_cached_content compares the hash of the   *)
(* instruction.  A request that names a cache in the place of its          *)
(* instruction names one made of that very instruction.                    *)
CacheIsOfInstruction ==
  phase # "idle" /\ request.cache # Nil =>
    caches[request.cache].of = request.instruction

(* CallsAnswerable: stream gives every call an id and translates the       *)
(* history with those ids.  In a session that has had one client only, the *)
(* tool messages of every request answer the calls they follow.            *)
CallsAnswerable ==
  phase # "idle" /\ (\A r \in DOMAIN history : history[r].by = client) =>
    Paired(request.messages)

(* RequestSound: every request of stream is one its provider can read as   *)
(* the session means it, as far as caches and ids of calls go.             *)
RequestSound == CacheIsOfInstruction /\ CallsAnswerable

(* Answered: the loop that connects counts its attempts and the one that   *)
(* reads stops at the first error.  Every request comes to an end the      *)
(* session hears of.                                                       *)
Answered == (phase = "connect") ~> (phase = "idle")

(* InstructionReaches: docs/LARGE_REQUEST_STRATEGY.md says of an           *)
(* instruction that was cached that all later requests refer to it by the  *)
(* id of the cache.  The model is told the session's instruction, in the   *)
(* request or by that id.                                                  *)
InstructionReaches ==
  phase = "connect" =>
    \/ request.system = request.instruction
    \/ request.cache # Nil

(* SwitchKeepsHistory: update_session_llm gives a session another client.  *)
(* The provider of that client accepts the history the session has.        *)
SwitchKeepsHistory == phase = "connect" => Paired(request.messages)

=============================================================================
