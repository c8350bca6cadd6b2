---------------------------- MODULE MCLlmStream ----------------------------
(* Instance of LlmStream for TLC: two calls, and the ways in which the     *)
(* providers write them.                                                   *)
EXTENDS LlmStream

MCParts == ("a" :> 2) @@ ("b" :> 1) @@ ("c" :> 0)

(* The name of "a" is written in two pieces, the others in one; that of "a"*)
(* occurs in that of "b".                                                  *)
MCSpelling == ("a" :> <<<<"get">>, <<"get", "task">>>>)
           @@ ("b" :> <<<<"get", "task", "list">>>>) @@ ("c" :> <<<<"task">>>>)

Text(n, isWide) == [kind |-> "text", of |-> n, wide |-> isWide]
Thought(n) == [kind |-> "thought", of |-> n, wide |-> FALSE]
DoneLine == [kind |-> "done", wide |-> FALSE]
Comment == [kind |-> "comment", wide |-> FALSE]

Frag(c, at, id, called, piece) ==
  [kind |-> "fragment", call |-> c, index |-> at, id |-> id,
   name |-> called, args |-> IF piece = 0 THEN Nil ELSE <<c, piece>>,
   wide |-> FALSE]
Whole(c, id) ==
  [kind |-> "call", call |-> c, name |-> NameOf(c), pieces |-> Written(c),
   id |-> id, wide |-> FALSE]
Argless(c) == [Whole(c, Nil) EXCEPT !.pieces = Nil]

(* Text only; an index for each call, and an id with its first fragment;   *)
(* one index for all, and an id with every fragment; one index for all,    *)
(* and an id with the first; an index for each call, and no id.            *)
OpenAiReplies ==
  { <<Thought(1), Comment, Text(2, TRUE), Text(3, FALSE), DoneLine>>,
    <<Text(1, FALSE), Frag("a", 0, "ida", <<"get">>, 0), Frag("b", 1, "idb", NameOf("b"), 0),
      Frag("b", 1, Nil, Nil, 1), Frag("a", 0, Nil, Nil, 1),
      Frag("c", 2, "idc", NameOf("c"), 0), Frag("a", 0, Nil, <<"task">>, 2), DoneLine>>,
    <<Frag("b", 0, "idb", NameOf("b"), 0), Frag("a", 0, "ida", <<"get">>, 1),
      Frag("b", 0, "idb", <<"task">>, 1), Frag("a", 0, "ida", <<"task">>, 2)>>,
    <<Frag("a", 0, "ida", <<"get">>, 1), Frag("a", 0, Nil, <<"task">>, 2),
      Frag("b", 0, "idb", NameOf("b"), 1), Text(1, FALSE)>>,
    <<Frag("a", 0, Nil, <<"get">>, 1), Frag("b", 1, Nil, NameOf("b"), 1),
      Frag("a", 0, Nil, <<"task">>, 2)>> }

GeminiReplies ==
  { <<Thought(1), Text(2, TRUE), Whole("a", "ida"), Comment, Whole("b", Nil), DoneLine>>,
    <<Whole("c", "idc"), Text(1, FALSE), Argless("a")>> }

MCReplies == [c \in Clients |-> IF c = "openai" THEN OpenAiReplies
                                                ELSE GeminiReplies]

ASSUME MCLlmStreamAssumption == RepliesRegular
=============================================================================
