-------------------------- MODULE ModelCallProofs --------------------------
(***************************************************************************)
(* Proofs about the call of a model: how a stream ends and what a request  *)
(* names (LlmStream), for any replies of the providers, any chunks they    *)
(* come in, any number of requests and attempts; what the model is asked   *)
(* (Context), for any window, limits and sizes, any length of the          *)
(* conversation and any number of edits; and that its answer is heard as   *)
(* it was written (LlmStream), for any replies of providers that keep to   *)
(* their protocols.                                                        *)
(***************************************************************************)
EXTENDS Context, LlmStream, FiniteSetTheorems, WellFoundedInduction, TLAPS

-----------------------------------------------------------------------------
(* What holds of the loop that reads a reply, between two units of it ...  *)

Halves == [half : {1, 2}, line : Lines, intact : BOOLEAN]
IsSeq(s) == s \in Seq(ToSet(s))

PlacesFit(t, p) ==
  /\ DOMAIN t \subseteq Nat /\ IsFiniteSet(DOMAIN t)
  /\ DOMAIN p \subseteq Nat /\ \A k \in DOMAIN p : p[k] \in Nat

EventKinds == {"text", "thought", "call", "done", "error"}

AccOK(acc) ==
  /\ acc = [buffer |-> acc.buffer, tools |-> acc.tools, places |-> acc.places,
            events |-> acc.events, over |-> acc.over]
  /\ acc.buffer \in Seq(Halves) /\ acc.over \in BOOLEAN
  /\ PlacesFit(acc.tools, acc.places)
  /\ IsSeq(acc.events)
  /\ \A k \in DOMAIN acc.events :
       /\ acc.events[k].kind \in EventKinds
       /\ acc.events[k].kind \in {"done", "error"} => acc.over /\ k = Len(acc.events)
       /\ client = "openai" => acc.events[k].kind # "call"
  /\ acc.over =>
       client # "openai" /\ acc.events # <<>> /\ Last(acc.events).kind = "done"

(* ... and of what is in the channel when it has returned.                 *)
Closed ==
  /\ IsSeq(events) /\ events # <<>> /\ Last(events).kind \in {"done", "error"}
  /\ \A k \in DOMAIN events :
       /\ events[k].kind \in EventKinds
       /\ events[k].kind \in {"done", "error"} => k = Len(events)
       /\ client = "openai" /\ events[k].kind = "call" =>
            events[k].id # Nil /\ Last(events).kind = "done"

StreamInv ==
  /\ client \in Clients /\ phase \in {"idle", "connect", "read", "over"}
  /\ count \in 0..Requests /\ attempts \in 0..MaxAttempts
  /\ PlacesFit(tools, places)
  /\ wire \in Seq(Halves \cup {Eol}) /\ buffer \in Seq(Halves)
  /\ phase = "connect" => attempts < MaxAttempts
  /\ phase \in {"idle", "connect"} => events = <<>>
  /\ phase = "read" => AccOK(Acc)
  /\ phase = "over" => Closed

(* The cache and the history, and what the request took from them.         *)
RequestInv ==
  /\ caches \in Seq([of : Instructions, alive : BOOLEAN])
  /\ cached # Nil => cached.id \in DOMAIN caches /\ caches[cached.id].of = cached.of
  /\ phase # "idle" /\ request.cache # Nil => request.cache \in DOMAIN caches
  /\ IsSeq(history)
  /\ \A r \in DOMAIN history : history[r].by = "openai" =>
       \A c \in DOMAIN history[r].ids : history[r].ids[c] # Nil
  /\ RequestSound

-----------------------------------------------------------------------------
(* Sequences, and sets of numbers.                                         *)

(* What is appended to a sequence of anything comes last ...               *)
LEMMA AppendSeq ==
  ASSUME NEW s, IsSeq(s), NEW e
  PROVE  /\ IsSeq(Append(s, e)) /\ Len(s) \in Nat /\ Len(Append(s, e)) = Len(s) + 1
         /\ DOMAIN s = 1..Len(s) /\ DOMAIN Append(s, e) = 1..(Len(s) + 1)
         /\ \A k \in DOMAIN s : Append(s, e)[k] = s[k]
         /\ Append(s, e)[Len(s) + 1] = e /\ Append(s, e) # <<>>
<1> DEFINE R == ToSet(s) \cup {e}
           t == Append(s, e)
<1>1. s \in Seq(R)
  <2>1. s \in Seq(ToSet(s))
    BY DEF IsSeq
  <2> HIDE DEF R
  <2>2. ToSet(s) \subseteq R
    BY DEF R
  <2>3. QED
    BY <2>1, <2>2
<1>2. e \in R
  OBVIOUS
<1> HIDE DEF R
<1>3. /\ t \in Seq(R) /\ Len(s) \in Nat /\ Len(t) = Len(s) + 1
      /\ DOMAIN s = 1..Len(s) /\ DOMAIN t = 1..(Len(s) + 1)
      /\ \A k \in DOMAIN s : t[k] = s[k]
      /\ t[Len(s) + 1] = e /\ t # <<>>
  BY <1>1, <1>2
<1> HIDE DEF t
<1>4. IsSeq(t)
  <2>1. \A k \in 1..Len(t) : t[k] \in ToSet(t)
    BY <1>3 DEF ToSet
  <2>2. QED
    BY <1>3, <2>1 DEF IsSeq
<1>5. QED
  BY <1>3, <1>4 DEF t

(* u is t after s.                                                         *)
Joins(s, t, u) ==
  /\ IsSeq(u) /\ Len(s) \in Nat /\ Len(t) \in Nat /\ Len(u) = Len(s) + Len(t)
  /\ DOMAIN s = 1..Len(s) /\ DOMAIN t = 1..Len(t) /\ DOMAIN u = 1..(Len(s) + Len(t))
  /\ \A k \in DOMAIN s : u[k] = s[k]
  /\ \A k \in DOMAIN t : u[Len(s) + k] = t[k]
  /\ \A k \in DOMAIN u : k \in DOMAIN s \/ k - Len(s) \in DOMAIN t

(* ... and of two joined the first comes first.                            *)
LEMMA JoinSeq ==
  ASSUME NEW s, IsSeq(s), NEW t, IsSeq(t)
  PROVE  Joins(s, t, s \o t)
<1> DEFINE R == ToSet(s) \cup ToSet(t)
           u == s \o t
<1>1. s \in Seq(R) /\ t \in Seq(R)
  <2>1. s \in Seq(ToSet(s)) /\ t \in Seq(ToSet(t))
    BY DEF IsSeq
  <2> HIDE DEF R
  <2>2. ToSet(s) \subseteq R /\ ToSet(t) \subseteq R
    BY DEF R
  <2>3. QED
    BY <2>1, <2>2
<1> HIDE DEF R
<1>2. /\ u \in Seq(R) /\ Len(s) \in Nat /\ Len(t) \in Nat /\ Len(u) = Len(s) + Len(t)
      /\ DOMAIN s = 1..Len(s) /\ DOMAIN t = 1..Len(t) /\ DOMAIN u = 1..(Len(s) + Len(t))
      /\ \A k \in DOMAIN s : u[k] = s[k]
      /\ \A k \in DOMAIN t : u[Len(s) + k] = t[k]
      /\ \A k \in DOMAIN u : k \in DOMAIN s \/ k - Len(s) \in DOMAIN t
  BY <1>1
<1> HIDE DEF u
<1>3. IsSeq(u)
  <2>1. \A k \in 1..Len(u) : u[k] \in ToSet(u)
    BY <1>2 DEF ToSet
  <2>2. QED
    BY <1>2, <2>1 DEF IsSeq
<1>4. QED
  BY <1>2, <1>3 DEF u, Joins

(* The empty sequence, one of one element, and functions on 1..n.          *)
LEMMA ShortSeqs ==
  /\ IsSeq(<<>>) /\ \A e : IsSeq(<<e>>)
  /\ \A f : \A n \in Nat :
            DOMAIN f = 1..n /\ f = [k \in 1..n |-> f[k]] => IsSeq(f) /\ Len(f) = n
<1>1. \A f : \A n \in Nat :
        DOMAIN f = 1..n /\ f = [k \in 1..n |-> f[k]] => IsSeq(f) /\ Len(f) = n
  BY DEF IsSeq, ToSet
<1>2. IsSeq(<<>>)
  BY DEF IsSeq, ToSet
<1>3. \A e : IsSeq(<<e>>)
  BY DEF IsSeq, ToSet
<1>4. QED
  BY <1>1, <1>2, <1>3

(* Induction over the natural numbers, for a set.                          *)
LEMMA SetInduction ==
  ASSUME NEW S, S \subseteq Nat, 0 \in S, \A n \in Nat : n \in S => n + 1 \in S
  PROVE  S = Nat
<1> DEFINE R == {ss \in Nat \X Nat : ss[1] < ss[2]}
           T == Nat \ S
<1> SUFFICES ASSUME T # {} PROVE FALSE
  OBVIOUS
<1>1. IsWellFoundedOn(R, Nat)
  BY NatLessThanWellFounded DEF OpToRel
<1> HIDE DEF R
<1>2. PICK m \in T : \A k \in T : ~(<<k, m>> \in R)
  BY <1>1, WFMin
<1>3. \A k \in T : ~(k < m)
  BY <1>2 DEF R
<1>4. m - 1 \in Nat /\ m - 1 \in S
  BY <1>3
<1>5. QED
  BY <1>4

(* A finite set of numbers has a greatest.                                 *)
LEMMA HasGreatest ==
  ASSUME NEW S \in SUBSET Nat, IsFiniteSet(S), S # {}
  PROVE  \E k \in S : \A j \in S : j <= k
<1> DEFINE Top(U) == \E k \in U : \A j \in U : j <= k
           N == {n \in Nat : \A U \in SUBSET Nat :
                   IsFiniteSet(U) /\ U # {} /\ Cardinality(U) = n => Top(U)}
<1>1. 0 \in N
  BY FS_EmptySet
<1>2. ASSUME NEW n \in Nat, n \in N PROVE n + 1 \in N
  <2> SUFFICES ASSUME NEW U \in SUBSET Nat, IsFiniteSet(U), U # {}, Cardinality(U) = n + 1
               PROVE  Top(U)
    OBVIOUS
  <2>1. PICK x \in U : TRUE
    OBVIOUS
  <2> DEFINE V == U \ {x}
  <2>2. IsFiniteSet(V) /\ Cardinality(V) = n /\ V \in SUBSET Nat
    <3>1. IsFiniteSet(V) /\ Cardinality(V) = Cardinality(U) - 1
      BY FS_RemoveElement
    <3>2. QED
      BY <3>1
  <2>3. CASE V = {}
    <3>1. \A j \in U : j = x
      BY <2>3
    <3>2. \A j \in U : j <= x
      BY <3>1
    <3>3. QED
      BY <2>1, <3>2
  <2>4. CASE V # {}
    <3>1. Top(V)
      BY <1>2, <2>2, <2>4
    <3>2. PICK m \in V : \A j \in V : j <= m
      BY <3>1
    <3>3. \A j \in U : j \in V \/ j = x
      OBVIOUS
    <3>4. CASE m <= x
      <4>1. \A j \in U : j <= x
        BY <3>2, <3>3, <3>4
      <4>2. QED
        BY <2>1, <4>1
    <3>5. CASE ~(m <= x)
      <4>1. \A j \in U : j <= m
        BY <3>2, <3>3, <3>5
      <4>2. QED
        BY <3>2, <4>1
    <3>6. QED
      BY <3>4, <3>5
  <2>5. QED
    BY <2>3, <2>4
<1>3. N = Nat
  <2>1. N \subseteq Nat
    OBVIOUS
  <2> HIDE DEF N
  <2>2. QED
    BY <1>1, <1>2, <2>1, SetInduction
<1>4. Cardinality(S) \in N
  BY <1>3, FS_CardinalityType
<1>5. QED
  BY <1>4

(* Greatest is the greatest, of a finite set that is not empty.            *)
LEMMA GreatestOf ==
  ASSUME NEW S \in SUBSET Nat, IsFiniteSet(S), S # {}
  PROVE  Greatest(S) \in S /\ \A j \in S : j <= Greatest(S)
BY HasGreatest DEF Greatest

(* InOrder lists the elements of a finite set of numbers.                  *)
LEMMA InOrderOf ==
  ASSUME NEW S \in SUBSET Nat, IsFiniteSet(S)
  PROVE  /\ Cardinality(S) \in Nat /\ DOMAIN InOrder(S) = 1..Cardinality(S)
         /\ \A n \in DOMAIN InOrder(S) :
              /\ InOrder(S)[n] \in S
              /\ Cardinality({j \in S : j <= InOrder(S)[n]}) = n
<1> DEFINE Nth(U, n) == \E k \in U : Cardinality({j \in U : j <= k}) = n
           N == {m \in Nat : \A U \in SUBSET Nat :
                   IsFiniteSet(U) /\ Cardinality(U) = m => \A n \in 1..m : Nth(U, n)}
<1>1. 0 \in N
  OBVIOUS
<1>2. ASSUME NEW m \in Nat, m \in N PROVE m + 1 \in N
  <2> SUFFICES ASSUME NEW U \in SUBSET Nat, IsFiniteSet(U), Cardinality(U) = m + 1,
                      NEW n \in 1..(m + 1)
               PROVE  Nth(U, n)
    OBVIOUS
  <2>1. U # {}
    BY FS_EmptySet
  <2>2. PICK x \in U : \A j \in U : j <= x
    BY <2>1, HasGreatest
  <2> DEFINE V == U \ {x}
  <2>3. IsFiniteSet(V) /\ Cardinality(V) = m /\ V \in SUBSET Nat
    <3>1. IsFiniteSet(V) /\ Cardinality(V) = Cardinality(U) - 1
      BY FS_RemoveElement
    <3>2. QED
      BY <3>1
  <2>4. CASE n = m + 1
    <3>1. {j \in U : j <= x} = U
      BY <2>2
    <3>2. QED
      BY <2>4, <3>1
  <2>5. CASE n # m + 1
    <3>1. n \in 1..m
      BY <2>5
    <3>2. Nth(V, n)
      BY <1>2, <2>3, <3>1
    <3>3. PICK k \in V : Cardinality({j \in V : j <= k}) = n
      BY <3>2
    <3>4. \A j \in U : j <= k => j # x
      BY <2>2, <3>3
    <3>5. {j \in U : j <= k} = {j \in V : j <= k}
      BY <3>4
    <3>6. QED
      BY <3>3, <3>5
  <2>6. QED
    BY <2>4, <2>5
<1>3. N = Nat
  <2>1. N \subseteq Nat
    OBVIOUS
  <2> HIDE DEF N
  <2>2. QED
    BY <1>1, <1>2, <2>1, SetInduction
<1>4. Cardinality(S) \in N /\ Cardinality(S) \in Nat
  BY <1>3, FS_CardinalityType
<1>5. \A n \in 1..Cardinality(S) : Nth(S, n)
  BY <1>4
<1>6. QED
  BY <1>4, <1>5 DEF InOrder

-----------------------------------------------------------------------------
(* The loop over the units of a chunk.                                     *)

ScanAt(chunk, k, f) == IF k = 0 THEN Acc ELSE OnUnit(f[k - 1], chunk[k])
Scans(chunk, n, f) == f = [k \in 0..n |-> ScanAt(chunk, k, f)]

(* Scan is the value of its recursive function.                            *)
LEMMA ScanExists ==
  ASSUME NEW chunk, Len(chunk) \in Nat
  PROVE  \E f : Scans(chunk, Len(chunk), f) /\ Scan(chunk) = f[Len(chunk)]
<1> DEFINE S == {n \in Nat : \E f : Scans(chunk, n, f)}
<1>1. 0 \in S
  <2> DEFINE f == [k \in 0..0 |-> ScanAt(chunk, k, <<>>)]
  <2>1. \A k \in 0..0 : ScanAt(chunk, k, <<>>) = ScanAt(chunk, k, f)
    BY DEF ScanAt
  <2>2. f = [k \in 0..0 |-> ScanAt(chunk, k, f)]
    BY <2>1
  <2> HIDE DEF f
  <2>3. QED
    BY <2>2 DEF Scans
<1>2. ASSUME NEW n \in Nat, n \in S PROVE n + 1 \in S
  <2>1. PICK f : Scans(chunk, n, f)
    BY <1>2
  <2> DEFINE g == [k \in 0..(n + 1) |-> IF k <= n THEN f[k] ELSE ScanAt(chunk, k, f)]
  <2>2. \A k \in 0..(n + 1) : k # 0 => k - 1 \in 0..(n + 1) /\ k - 1 <= n /\ k - 1 \in 0..n
    OBVIOUS
  <2>3. \A k \in 0..(n + 1) : k # 0 => g[k - 1] = f[k - 1]
    BY <2>2
  <2> HIDE DEF g
  <2>4. \A k \in 0..(n + 1) : ScanAt(chunk, k, g) = ScanAt(chunk, k, f)
    BY <2>3 DEF ScanAt
  <2>5. \A k \in 0..n : f[k] = ScanAt(chunk, k, f)
    BY <2>1 DEF Scans
  <2>6. \A k \in 0..(n + 1) : k <= n => k \in 0..n
    OBVIOUS
  <2>7. g = [k \in 0..(n + 1) |-> ScanAt(chunk, k, g)]
    BY <2>4, <2>5, <2>6 DEF g
  <2>8. QED
    BY <2>7 DEF Scans
<1> HIDE DEF S
<1>3. S = Nat
  <2>1. S \subseteq Nat
    BY DEF S
  <2>2. QED
    BY <1>1, <1>2, <2>1, SetInduction
<1> DEFINE F == CHOOSE f : Scans(chunk, Len(chunk), f)
<1>4. Scans(chunk, Len(chunk), F)
  BY <1>3 DEF S
<1>5. Scan(chunk) = F[Len(chunk)]
  BY DEF Scan, Scans, ScanAt
<1>6. QED
  BY <1>4, <1>5

(* What every unit keeps, the chunk keeps.                                 *)
LEMMA ScanKeeps ==
  ASSUME NEW chunk \in Seq(Halves \cup {Eol}), AccOK(Acc),
         \A acc : \A unit \in Halves \cup {Eol} : AccOK(acc) => AccOK(OnUnit(acc, unit))
  PROVE  AccOK(Scan(chunk))
<1> DEFINE n == Len(chunk)
<1>1. n \in Nat /\ \A k \in 1..n : chunk[k] \in Halves \cup {Eol}
  OBVIOUS
<1>2. PICK f : Scans(chunk, n, f) /\ Scan(chunk) = f[n]
  BY <1>1, ScanExists
<1> DEFINE S == {k \in Nat : k <= n => AccOK(f[k])}
<1> HIDE DEF n
<1>3. \A k \in 0..n : f[k] = ScanAt(chunk, k, f)
  BY <1>2 DEF Scans
<1>4. 0 \in S
  <2>1. 0 \in 0..n /\ ScanAt(chunk, 0, f) = Acc
    BY <1>1 DEF ScanAt
  <2>2. f[0] = Acc
    BY <1>3, <2>1
  <2>3. QED
    BY <2>2
<1>5. ASSUME NEW k \in Nat, k \in S PROVE k + 1 \in S
  <2> SUFFICES ASSUME k + 1 <= n PROVE AccOK(f[k + 1])
    OBVIOUS
  <2>1. k + 1 \in 0..n /\ k + 1 \in 1..n /\ k + 1 # 0 /\ (k + 1) - 1 = k /\ k <= n
    BY <1>1
  <2>2. f[k + 1] = OnUnit(f[k], chunk[k + 1])
    BY <1>3, <2>1 DEF ScanAt
  <2>3. AccOK(f[k])
    BY <1>5, <2>1
  <2>4. QED
    BY <1>1, <2>1, <2>2, <2>3
<1>6. S \subseteq Nat
  OBVIOUS
<1> HIDE DEF S
<1>7. S = Nat
  BY <1>4, <1>5, <1>6, SetInduction
<1>8. AccOK(f[n])
  BY <1>1, <1>7 DEF S
<1>9. QED
  BY <1>2, <1>8 DEF n

(* The fields of the state of the loop, changed.                           *)
LEMMA AccFields ==
  ASSUME NEW acc, AccOK(acc)
  PROVE  /\ \A e : [acc EXCEPT !.events = Append(@, e)] =
                     [buffer |-> acc.buffer, tools |-> acc.tools, places |-> acc.places,
                      events |-> Append(acc.events, e), over |-> acc.over]
         /\ \A e : [acc EXCEPT !.events = Append(@, e), !.over = TRUE] =
                     [buffer |-> acc.buffer, tools |-> acc.tools, places |-> acc.places,
                      events |-> Append(acc.events, e), over |-> TRUE]
         /\ \A t, p : [acc EXCEPT !.tools = t, !.places = p] =
                        [buffer |-> acc.buffer, tools |-> t, places |-> p,
                         events |-> acc.events, over |-> acc.over]
         /\ \A b : [acc EXCEPT !.buffer = b] =
                     [buffer |-> b, tools |-> acc.tools, places |-> acc.places,
                      events |-> acc.events, over |-> acc.over]
<1>1. PICK b, t, p, es, o :
        acc = [buffer |-> b, tools |-> t, places |-> p, events |-> es, over |-> o]
  BY DEF AccOK
<1>2. /\ acc.buffer = b /\ acc.tools = t /\ acc.places = p /\ acc.events = es
      /\ acc.over = o
  BY <1>1
<1>3. \A e : [acc EXCEPT !.events = Append(@, e)] =
               [buffer |-> b, tools |-> t, places |-> p, events |-> Append(es, e), over |-> o]
  BY <1>1
<1>4. ASSUME NEW e
      PROVE  [acc EXCEPT !.events = Append(@, e), !.over = TRUE] =
               [buffer |-> b, tools |-> t, places |-> p, events |-> Append(es, e), over |-> TRUE]
  <2>1. PICK r, new, yes : r = [acc EXCEPT !.events = Append(@, e)] /\ new = Append(es, e)
                           /\ yes = TRUE
    OBVIOUS
  <2>2. r = [buffer |-> b, tools |-> t, places |-> p, events |-> new, over |-> o]
    BY <1>3, <2>1
  <2>3. [r EXCEPT !.over = yes] =
          [buffer |-> b, tools |-> t, places |-> p, events |-> new, over |-> yes]
    BY <2>2
  <2>4. [acc EXCEPT !.events = Append(@, e), !.over = TRUE] = [r EXCEPT !.over = TRUE]
    BY <1>1, <2>1
  <2>5. QED
    BY <2>1, <2>3, <2>4
<1>5. ASSUME NEW u, NEW q
      PROVE  [acc EXCEPT !.tools = u, !.places = q] =
               [buffer |-> b, tools |-> u, places |-> q, events |-> es, over |-> o]
  <2>1. PICK r : r = [acc EXCEPT !.tools = u]
    OBVIOUS
  <2>2. r = [buffer |-> b, tools |-> u, places |-> p, events |-> es, over |-> o]
    BY <1>1, <2>1
  <2>3. [r EXCEPT !.places = q] =
          [buffer |-> b, tools |-> u, places |-> q, events |-> es, over |-> o]
    BY <2>2
  <2>4. [acc EXCEPT !.tools = u, !.places = q] = [r EXCEPT !.places = q]
    BY <1>1, <2>1
  <2>5. QED
    BY <2>3, <2>4
<1>6. \A c : [acc EXCEPT !.buffer = c] =
               [buffer |-> c, tools |-> t, places |-> p, events |-> es, over |-> o]
  BY <1>1
<1>7. QED
  BY <1>2, <1>3, <1>4, <1>5, <1>6

(* An event that a line of the reply brings.                               *)
LEMMA EventKept ==
  ASSUME NEW acc, AccOK(acc), ~acc.over, NEW e,
         e.kind \in {"text", "thought", "call"}, e.kind = "call" => client # "openai"
  PROVE  AccOK([acc EXCEPT !.events = Append(@, e)])
<1> DEFINE es == acc.events
           new == [acc EXCEPT !.events = Append(@, e)]
<1>1. /\ new.buffer = acc.buffer /\ new.tools = acc.tools /\ new.places = acc.places
      /\ new.over = acc.over /\ new.events = Append(es, e)
      /\ new = [buffer |-> new.buffer, tools |-> new.tools, places |-> new.places,
                events |-> new.events, over |-> new.over]
  <2>1. new = [buffer |-> acc.buffer, tools |-> acc.tools, places |-> acc.places,
               events |-> Append(es, e), over |-> acc.over]
    BY AccFields
  <2> HIDE DEF new, es
  <2>2. /\ new.buffer = acc.buffer /\ new.tools = acc.tools /\ new.places = acc.places
        /\ new.over = acc.over /\ new.events = Append(es, e)
    BY <2>1
  <2>3. QED
    BY <2>1, <2>2
<1>2. /\ IsSeq(Append(es, e)) /\ Len(es) \in Nat /\ Len(Append(es, e)) = Len(es) + 1
      /\ DOMAIN es = 1..Len(es) /\ DOMAIN Append(es, e) = 1..(Len(es) + 1)
      /\ \A k \in DOMAIN es : Append(es, e)[k] = es[k]
      /\ Append(es, e)[Len(es) + 1] = e
  BY AppendSeq DEF AccOK
<1>3. \A k \in DOMAIN es :
        /\ es[k].kind \in EventKinds /\ es[k].kind \notin {"done", "error"}
        /\ client = "openai" => es[k].kind # "call"
  BY DEF AccOK
<1> HIDE DEF es
<1>4. ASSUME NEW k \in DOMAIN Append(es, e)
      PROVE  /\ Append(es, e)[k].kind \in EventKinds /\ Append(es, e)[k].kind \notin {"done", "error"}
             /\ client = "openai" => Append(es, e)[k].kind # "call"
  <2>1. CASE k \in DOMAIN es
    BY <1>2, <1>3, <2>1
  <2>2. CASE k = Len(es) + 1
    BY <1>2, <2>2 DEF EventKinds
  <2>3. QED
    BY <1>2, <1>4, <2>1, <2>2
<1> HIDE DEF new
<1>5. QED
  BY <1>1, <1>2, <1>4 DEF AccOK, new

(* A call of active_tools has a place, old or new.                         *)
LEMMA PlaceOf ==
  ASSUME NEW acc, AccOK(acc), NEW f, f.index \in Nat
  PROVE  Place(acc, f) \in Nat
<1>1. PlacesFit(acc.tools, acc.places)
  BY DEF AccOK
<1>2. NextPlace(acc) \in Nat
  <2>1. DOMAIN acc.tools = {} => NextPlace(acc) = 0
    BY DEF NextPlace
  <2>2. DOMAIN acc.tools # {} =>
          NextPlace(acc) = Greatest(DOMAIN acc.tools) + 1 /\ Greatest(DOMAIN acc.tools) \in Nat
    BY <1>1, GreatestOf DEF NextPlace, PlacesFit
  <2>3. QED
    BY <2>1, <2>2
<1>3. Held(acc, f.id) \subseteq Nat
  BY <1>1 DEF Held, PlacesFit
<1>4. QED
  BY <1>1, <1>2, <1>3 DEF Place, PlacesFit

(* A fragment: where it goes is a place, and nothing is sent.              *)
LEMMA FragmentKept ==
  ASSUME NEW acc, AccOK(acc), NEW f, f.index \in Nat, NEW intact
  PROVE  AccOK(Fragment(acc, f, intact))
<1> DEFINE k == Place(acc, f)
           t == Set(acc.tools, k, AddFragment(Entry(acc, k), f, intact))
           p == IF Opens(acc, f) THEN Set(acc.places, f.index, k) ELSE acc.places
           new == Fragment(acc, f, intact)
<1>1. k \in Nat
  BY PlaceOf
<1>2. PlacesFit(acc.tools, acc.places)
  BY DEF AccOK
<1>3. new = [acc EXCEPT !.tools = t, !.places = p]
  BY DEF Fragment
<1> HIDE DEF k, t, p
<1>4. new = [buffer |-> acc.buffer, tools |-> t, places |-> p, events |-> acc.events,
             over |-> acc.over]
  BY <1>3, AccFields
<1> USE DEF t, p
<1>5. DOMAIN t = DOMAIN acc.tools \cup {k}
  BY DEF Set
<1>6. DOMAIN t \subseteq Nat /\ IsFiniteSet(DOMAIN t)
  BY <1>1, <1>2, <1>5, FS_AddElement DEF PlacesFit
<1>7. DOMAIN p \subseteq Nat /\ \A j \in DOMAIN p : p[j] \in Nat
  BY <1>1, <1>2 DEF Set, PlacesFit
<1>8. PlacesFit(t, p)
  BY <1>6, <1>7 DEF PlacesFit
<1> HIDE DEF t, p, new
<1>9. QED
  BY <1>4, <1>8 DEF AccOK, new

(* emit_sse_data_block and process_delta_json keep it ...                  *)
LEMMA DeltaKept ==
  ASSUME NEW acc, AccOK(acc), ~acc.over, client = "openai",
         NEW line \in Lines, NEW intact
  PROVE  AccOK(Delta(acc, line, intact))
<1>1. CASE line.kind \in {"text", "thought"}
  <2>1. PICK e : e = Says(line, intact)
    OBVIOUS
  <2>2. Delta(acc, line, intact) = [acc EXCEPT !.events = Append(@, e)]
    BY <1>1, <2>1 DEF Delta
  <2>3. e.kind \in {"text", "thought", "call"} /\ e.kind # "call"
    BY <1>1, <2>1 DEF Says
  <2>4. QED
    BY <2>2, <2>3, EventKept
<1>2. CASE line.kind = "fragment"
  <2>1. Delta(acc, line, intact) = Fragment(acc, line, intact)
    BY <1>2 DEF Delta
  <2>2. line.index \in Nat
    BY <1>2, LlmStreamAssumption
  <2>3. QED
    BY <2>1, <2>2, FragmentKept
<1>3. CASE line.kind \notin {"text", "thought", "fragment"}
  BY <1>3 DEF Delta
<1>4. QED
  BY <1>1, <1>2, <1>3

(* A block of Gemini: at most one event, and Done is the last.             *)
LEMMA BlockKept ==
  ASSUME NEW acc, AccOK(acc), ~acc.over, client # "openai",
         NEW line \in Lines, NEW intact
  PROVE  AccOK(Block(acc, line, intact))
<1>1. CASE line.kind \in {"text", "thought"}
  <2>1. Block(acc, line, intact) = [acc EXCEPT !.events = Append(@, Says(line, intact))]
    BY <1>1 DEF Block
  <2>2. Says(line, intact).kind \in {"text", "thought", "call"} /\ Says(line, intact).kind # "call"
    BY <1>1 DEF Says
  <2>3. QED
    BY <2>1, <2>2, EventKept
<1>2. CASE line.kind = "call" /\ line.pieces # Nil
  <2> DEFINE e == [kind |-> "call", name |-> line.name, id |-> line.id,
                   args |-> Parsed(line.pieces), intact |-> intact]
  <2>1. Block(acc, line, intact) = [acc EXCEPT !.events = Append(@, e)]
    BY <1>2 DEF Block
  <2>2. e.kind \in {"text", "thought", "call"}
    OBVIOUS
  <2> HIDE DEF e
  <2>3. QED
    BY <2>1, <2>2, EventKept
<1>3. CASE line.kind = "done"
  <2> DEFINE e == [kind |-> "done"]
             es == acc.events
             new == Block(acc, line, intact)
  <2>1. new = [acc EXCEPT !.events = Append(@, e), !.over = TRUE]
    BY <1>3 DEF Block
  <2>2. e.kind = "done"
    OBVIOUS
  <2> HIDE DEF e
  <2>3. new = [buffer |-> acc.buffer, tools |-> acc.tools, places |-> acc.places,
               events |-> Append(es, e), over |-> TRUE]
    BY <2>1, AccFields
  <2>4. /\ IsSeq(Append(es, e)) /\ Len(es) \in Nat /\ Len(Append(es, e)) = Len(es) + 1
        /\ DOMAIN es = 1..Len(es) /\ DOMAIN Append(es, e) = 1..(Len(es) + 1)
        /\ \A k \in DOMAIN es : Append(es, e)[k] = es[k]
        /\ Append(es, e)[Len(es) + 1] = e /\ Append(es, e) # <<>>
    BY AppendSeq DEF AccOK
  <2>5. \A k \in DOMAIN es : es[k].kind \in EventKinds /\ es[k].kind \notin {"done", "error"}
    BY DEF AccOK
  <2> HIDE DEF es, new
  <2>6. ASSUME NEW k \in DOMAIN Append(es, e)
        PROVE  /\ Append(es, e)[k].kind \in EventKinds
               /\ Append(es, e)[k].kind \in {"done", "error"} => k = Len(Append(es, e))
    <3>1. CASE k \in DOMAIN es
      BY <2>4, <2>5, <3>1
    <3>2. CASE k = Len(es) + 1
      BY <2>2, <2>4, <3>2 DEF EventKinds
    <3>3. QED
      BY <2>4, <2>6, <3>1, <3>2
  <2>7. Last(Append(es, e)) = e
    BY <2>4 DEF Last
  <2>8. QED
    BY <2>2, <2>3, <2>4, <2>6, <2>7 DEF AccOK, new, es
<1>4. CASE line.kind \notin {"text", "thought", "done"} /\ ~(line.kind = "call" /\ line.pieces # Nil)
  BY <1>4 DEF Block
<1>5. QED
  BY <1>1, <1>2, <1>3, <1>4

(* ... and so does every line ...                                          *)
LEMMA LineKept ==
  ASSUME NEW acc, AccOK(acc), ~acc.over, NEW halves \in Seq(Halves)
  PROVE  AccOK(OnLine(acc, halves))
<1>1. CASE Len(halves) < 2
  BY <1>1 DEF OnLine
<1>2. CASE ~(Len(halves) < 2)
  <2> DEFINE line == halves[1].line
             intact == halves[1].intact /\ halves[2].intact
  <2>1. line \in Lines
    <3>1. halves[1] \in Halves
      BY <1>2
    <3>2. QED
      BY <3>1 DEF Halves
  <2>2. OnLine(acc, halves) = IF client = "openai" THEN Delta(acc, line, intact)
                              ELSE Block(acc, line, intact)
    BY <1>2 DEF OnLine
  <2> HIDE DEF line, intact
  <2>3. QED
    BY <2>1, <2>2, DeltaKept, BlockKept
<1>3. QED
  BY <1>1, <1>2

(* ... and every unit.                                                     *)
LEMMA UnitKept ==
  ASSUME NEW acc, AccOK(acc), NEW unit \in Halves \cup {Eol}
  PROVE  AccOK(OnUnit(acc, unit))
<1>1. acc.buffer \in Seq(Halves)
  BY DEF AccOK
<1>2. CASE acc.over
  BY <1>2 DEF OnUnit
<1>3. CASE ~acc.over /\ unit = Eol
  <2>1. PICK new : new = OnLine(acc, acc.buffer) /\ AccOK(new)
    BY <1>1, <1>3, LineKept
  <2>2. OnUnit(acc, unit) = [buffer |-> <<>>, tools |-> new.tools, places |-> new.places,
                             events |-> new.events, over |-> new.over]
    BY <1>3, <2>1, AccFields DEF OnUnit
  <2>3. <<>> \in Seq(Halves)
    OBVIOUS
  <2>4. QED
    BY <2>1, <2>2, <2>3 DEF AccOK
<1>4. CASE ~acc.over /\ unit # Eol
  <2>1. PICK b : b = Append(acc.buffer, unit) /\ b \in Seq(Halves)
    <3>1. unit \in Halves
      BY <1>4
    <3>2. Append(acc.buffer, unit) \in Seq(Halves)
      BY <1>1, <3>1
    <3>3. QED
      BY <3>2
  <2>2. OnUnit(acc, unit) = [acc EXCEPT !.buffer = b]
    BY <1>4, <2>1 DEF OnUnit
  <2>3. OnUnit(acc, unit) = [buffer |-> b, tools |-> acc.tools, places |-> acc.places,
                             events |-> acc.events, over |-> acc.over]
    BY <2>2, AccFields
  <2>4. QED
    BY <2>1, <2>3 DEF AccOK
<1>5. QED
  BY <1>2, <1>3, <1>4

(* Decoding a chunk changes no more than what is intact.                   *)
LEMMA DecodedTypes ==
  ASSUME NEW chunk \in Seq(Halves \cup {Eol})
  PROVE  Decoded(chunk) \in Seq(Halves \cup {Eol})
<1>1. \A u \in Halves : [u EXCEPT !.intact = FALSE] \in Halves
  BY DEF Halves
<1>2. \A k \in DOMAIN chunk : chunk[k] # Eol => chunk[k] \in Halves
  OBVIOUS
<1>3. \A k \in DOMAIN chunk : Decoded(chunk)[k] \in Halves \cup {Eol}
  BY <1>1, <1>2 DEF Decoded
<1>4. /\ DOMAIN chunk = 1..Len(chunk) /\ Len(chunk) \in Nat
      /\ Decoded(chunk) = [k \in DOMAIN chunk |-> Decoded(chunk)[k]]
  BY DEF Decoded
<1>5. QED
  BY <1>3, <1>4

(* A reply is a sequence of units.                                         *)
LEMMA WireTypes ==
  ASSUME NEW lines \in Seq(Lines)
  PROVE  Wire(lines) \in Seq(Halves \cup {Eol})
<1> DEFINE n == 3 * Len(lines)
<1>1. Len(lines) \in Nat /\ n \in Nat
  OBVIOUS
<1>2. ASSUME NEW k \in 1..n, k % 3 # 0 PROVE Half(lines[(k + 2) \div 3], k % 3) \in Halves
  <2>1. (k + 2) \div 3 \in 1..Len(lines) /\ k % 3 \in {1, 2}
    BY <1>1, <1>2
  <2>2. lines[(k + 2) \div 3] \in Lines
    BY <2>1
  <2>3. QED
    BY <2>1, <2>2 DEF Half, Halves
<1>3. QED
  BY <1>1, <1>2 DEF Wire

-----------------------------------------------------------------------------
(* The steps of a stream.                                                  *)

(* The calls that an OpenAI-compatible stream sends at its end.            *)
LEMMA AssembledCalls ==
  ASSUME NEW held, DOMAIN held \subseteq Nat, IsFiniteSet(DOMAIN held)
  PROVE  /\ IsSeq(Assembled(held))
         /\ \A j \in DOMAIN Assembled(held) :
              Assembled(held)[j].kind = "call" /\ Assembled(held)[j].id # Nil
<1> DEFINE named == {k \in DOMAIN held : held[k].name # <<>>}
           order == InOrder(named)
<1>1. named \in SUBSET Nat /\ IsFiniteSet(named)
  BY FS_Subset
<1>2. Cardinality(named) \in Nat /\ DOMAIN order = 1..Cardinality(named)
  BY <1>1, InOrderOf
<1>3. Assembled(held) = [j \in DOMAIN order |-> CallEvent(held[order[j]])]
  BY DEF Assembled
<1> HIDE DEF order, named
<1>4. IsSeq(Assembled(held))
  BY <1>2, <1>3, ShortSeqs
<1>5. \A entry : CallEvent(entry).kind = "call" /\ CallEvent(entry).id # Nil
  BY LlmStreamAssumption DEF CallEvent, CallId
<1>6. QED
  BY <1>3, <1>4, <1>5

(* The calls the loop hears are calls it was sent.                         *)
LEMMA CallsHeard ==
  ASSUME NEW sent, IsSeq(sent)
  PROVE  /\ \A c \in DOMAIN CallsOf(sent) :
              \E k \in DOMAIN sent : CallsOf(sent)[c] = sent[k] /\ sent[k].kind = "call"
         /\ (\A k \in DOMAIN sent : sent[k].kind # "call") => CallsOf(sent) = <<>>
<1> DEFINE calls == {k \in DOMAIN sent : sent[k].kind = "call"}
           order == InOrder(calls)
<1>1. Len(sent) \in Nat /\ DOMAIN sent = 1..Len(sent)
  BY DEF IsSeq
<1>2. calls \in SUBSET Nat /\ IsFiniteSet(calls)
  <2>1. IsFiniteSet(1..Len(sent))
    BY <1>1, FS_Interval
  <2>2. calls \in SUBSET (1..Len(sent))
    BY <1>1
  <2> HIDE DEF calls
  <2>3. IsFiniteSet(calls)
    BY <2>1, <2>2, FS_Subset
  <2>4. QED
    BY <2>2, <2>3
<1>3. /\ Cardinality(calls) \in Nat /\ DOMAIN order = 1..Cardinality(calls)
      /\ \A n \in DOMAIN order : order[n] \in calls
  BY <1>2, InOrderOf
<1>4. CallsOf(sent) = [c \in DOMAIN order |-> sent[order[c]]]
  BY DEF CallsOf, Those
<1>5. calls = {} => DOMAIN order = {}
  BY <1>3, FS_EmptySet
<1> HIDE DEF order
<1>6. \A c \in DOMAIN CallsOf(sent) :
        \E k \in DOMAIN sent : CallsOf(sent)[c] = sent[k] /\ sent[k].kind = "call"
  BY <1>3, <1>4
<1>7. (\A k \in DOMAIN sent : sent[k].kind # "call") => CallsOf(sent) = <<>>
  BY <1>4, <1>5
<1>8. QED
  BY <1>6, <1>7

(* A stream that is over by an error, or by the end of the reply.          *)
LEMMA EndCloses ==
  ASSUME NEW event \in {"done", "error"}, IsSeq(events), End(event),
         \A k \in DOMAIN events :
           /\ events[k].kind \in EventKinds /\ events[k].kind \notin {"done", "error"}
           /\ client = "openai" => events[k].kind # "call",
         client' = client
  PROVE  Closed'
<1> DEFINE e == [kind |-> event]
<1>1. /\ IsSeq(Append(events, e)) /\ Len(events) \in Nat
      /\ Len(Append(events, e)) = Len(events) + 1
      /\ DOMAIN events = 1..Len(events) /\ DOMAIN Append(events, e) = 1..(Len(events) + 1)
      /\ \A k \in DOMAIN events : Append(events, e)[k] = events[k]
      /\ Append(events, e)[Len(events) + 1] = e /\ Append(events, e) # <<>>
  BY AppendSeq
<1>2. events' = Append(events, e)
  BY DEF End
<1>3. PICK new : new = Append(events, e)
  OBVIOUS
<1>4. e.kind = event
  OBVIOUS
<1> HIDE DEF e
<1>5. Last(new) = e
  BY <1>1, <1>3 DEF Last
<1>6. ASSUME NEW k \in DOMAIN new
      PROVE  /\ new[k].kind \in EventKinds
             /\ new[k].kind \in {"done", "error"} => k = Len(new)
             /\ client = "openai" => new[k].kind # "call"
  <2>1. CASE k \in DOMAIN events
    BY <1>1, <1>3, <2>1
  <2>2. CASE k = Len(events) + 1
    BY <1>1, <1>3, <1>4, <2>2 DEF EventKinds
  <2>3. QED
    BY <1>1, <1>3, <1>6, <2>1, <2>2
<1>7. QED
  BY <1>1, <1>2, <1>3, <1>4, <1>5, <1>6 DEF Closed

(* The invariants hold at first.                                           *)
LEMMA InitInv ==
  ASSUME Init
  PROVE  StreamInv /\ RequestInv
<1>1. /\ client \in Clients /\ phase = "idle" /\ count = 0 /\ attempts = 0 /\ tools = <<>>
      /\ places = <<>> /\ wire = <<>> /\ buffer = <<>> /\ events = <<>> /\ cached = Nil
      /\ caches = <<>> /\ history = <<>>
  BY DEF Init
<1>2. PlacesFit(tools, places)
  BY <1>1, FS_EmptySet DEF PlacesFit
<1>3. 0 \in 0..Requests /\ 0 \in 0..MaxAttempts
  BY LlmStreamAssumption
<1>4. StreamInv
  BY <1>1, <1>2, <1>3 DEF StreamInv
<1>5. RequestInv
  BY <1>1, ShortSeqs DEF RequestInv, RequestSound, CacheIsOfInstruction, CallsAnswerable
<1>6. QED
  BY <1>4, <1>5

(* A chunk.                                                                *)
LEMMA ReadKept ==
  ASSUME StreamInv, NEW n \in 1..Len(wire), Read(n)
  PROVE  StreamInv'
<1> DEFINE chunk == SubSeq(wire, 1, n)
           acc == Scan(Decoded(chunk))
<1>1. /\ wire \in Seq(Halves \cup {Eol}) /\ Len(wire) \in Nat /\ AccOK(Acc) /\ phase = "read"
      /\ client \in Clients /\ count \in 0..Requests /\ attempts \in 0..MaxAttempts
  BY DEF StreamInv, Read
<1>2. chunk \in Seq(Halves \cup {Eol}) /\ wire' \in Seq(Halves \cup {Eol})
  BY <1>1 DEF Read
<1>3. AccOK(acc)
  <2>1. PICK d : d = Decoded(chunk) /\ d \in Seq(Halves \cup {Eol})
    BY <1>2, DecodedTypes
  <2>2. QED
    BY <1>1, <2>1, ScanKeeps, UnitKept
<1>4. PICK a : a = acc
  OBVIOUS
<1>5. /\ buffer' = a.buffer /\ tools' = a.tools /\ places' = a.places /\ events' = a.events
      /\ phase' = IF a.over THEN "over" ELSE "read"
      /\ client' = client /\ count' = count /\ attempts' = attempts
  BY <1>4 DEF Read, sessionVars
<1>6. AccOK(a)
  BY <1>3, <1>4
<1>7. /\ a = [buffer |-> a.buffer, tools |-> a.tools, places |-> a.places,
              events |-> a.events, over |-> a.over]
      /\ PlacesFit(a.tools, a.places) /\ a.buffer \in Seq(Halves) /\ a.over \in BOOLEAN
  BY <1>6 DEF AccOK
<1> HIDE DEF acc
<1>8. PlacesFit(tools, places)' /\ buffer' \in Seq(Halves)
  BY <1>5, <1>7 DEF PlacesFit
<1>9. CASE a.over
  <2>1. Closed'
    BY <1>5, <1>6, <1>9 DEF AccOK, Closed
  <2>2. QED
    BY <1>1, <1>2, <1>5, <1>8, <1>9, <2>1 DEF StreamInv
<1>10. CASE ~a.over
  <2>1. Acc' = a
    BY <1>5, <1>7, <1>10 DEF Acc
  <2>2. AccOK(Acc)'
    <3>1. \A x, y : x = y /\ AccOK(y) => AccOK(x)
      OBVIOUS
    <3>2. client' = client
      BY <1>5
    <3>3. QED
      BY <1>6, <2>1, <3>2 DEF AccOK
  <2>3. QED
    BY <1>1, <1>2, <1>5, <1>8, <1>10, <2>2 DEF StreamInv
<1>11. QED
  BY <1>7, <1>9, <1>10

(* The end of the reply: the calls of active_tools, then Done.             *)
LEMMA EndsKept ==
  ASSUME StreamInv, ReplyEnds
  PROVE  StreamInv'
<1>1. AccOK(Acc) /\ phase = "read" /\ buffer \in Seq(Halves) /\ ~Acc.over
  BY DEF StreamInv, ReplyEnds, Acc
<1>2. PICK a : /\ a = IF client = "openai" THEN OnLine(Acc, buffer) ELSE Acc
               /\ AccOK(a)
  BY <1>1, LineKept
<1>3. ~a.over
  BY <1>1, <1>2 DEF AccOK
<1>4. /\ IsSeq(a.events) /\ PlacesFit(a.tools, a.places)
      /\ \A k \in DOMAIN a.events :
           /\ a.events[k].kind \in EventKinds /\ a.events[k].kind \notin {"done", "error"}
           /\ client = "openai" => a.events[k].kind # "call"
  BY <1>2, <1>3 DEF AccOK
<1>5. PICK calls : /\ calls = Assembled(a.tools) /\ IsSeq(calls)
                   /\ \A j \in DOMAIN calls : calls[j].kind = "call" /\ calls[j].id # Nil
  BY <1>4, AssembledCalls DEF PlacesFit
<1>6. PICK sent : /\ sent = a.events \o calls /\ IsSeq(sent)
                  /\ \A k \in DOMAIN sent :
                       /\ sent[k].kind \in EventKinds /\ sent[k].kind \notin {"done", "error"}
                       /\ client = "openai" /\ sent[k].kind = "call" => sent[k].id # Nil
  <2> DEFINE es == a.events
             s == es \o calls
  <2>0. IsSeq(es) /\ IsSeq(calls)
    BY <1>4, <1>5
  <2> HIDE DEF es
  <2>1. /\ IsSeq(s) /\ Len(es) \in Nat /\ DOMAIN s = 1..(Len(es) + Len(calls))
        /\ \A k \in DOMAIN es : s[k] = es[k]
        /\ \A k \in DOMAIN calls : s[Len(es) + k] = calls[k]
        /\ \A k \in DOMAIN s : k \in DOMAIN es \/ k - Len(es) \in DOMAIN calls
        /\ Len(calls) \in Nat
    <3>1. Joins(es, calls, es \o calls)
      BY <2>0, JoinSeq
    <3>2. QED
      BY <3>1 DEF Joins
  <2> HIDE DEF s
  <2>2. ASSUME NEW k \in DOMAIN s
        PROVE  /\ s[k].kind \in EventKinds /\ s[k].kind \notin {"done", "error"}
               /\ client = "openai" /\ s[k].kind = "call" => s[k].id # Nil
    <3>1. CASE k \in DOMAIN es
      BY <1>4, <2>1, <3>1 DEF es
    <3>2. CASE k - Len(es) \in DOMAIN calls
      <4>1. Len(es) + (k - Len(es)) = k
        BY <2>1
      <4>2. s[k] = calls[k - Len(es)]
        BY <2>1, <3>2, <4>1
      <4>3. QED
        BY <1>5, <3>2, <4>2 DEF EventKinds
    <3>3. QED
      BY <2>1, <3>1, <3>2
  <2>3. QED
    BY <2>1, <2>2 DEF s, es
<1>7. /\ events' = sent \o <<[kind |-> "done"]>> /\ phase' = "over" /\ tools' = <<>>
      /\ UNCHANGED <<client, count, attempts, wire, buffer, places>>
  BY <1>2, <1>5, <1>6 DEF ReplyEnds, sessionVars
<1>8. Closed'
  <2> DEFINE d == [kind |-> "done"]
             s == sent \o <<d>>
  <2>0. d.kind = "done"
    OBVIOUS
  <2> HIDE DEF d
  <2>1. /\ IsSeq(s) /\ Len(sent) \in Nat /\ Len(s) = Len(sent) + 1
        /\ DOMAIN s = 1..(Len(sent) + 1) /\ DOMAIN sent = 1..Len(sent)
        /\ \A k \in DOMAIN sent : s[k] = sent[k]
        /\ s[Len(sent) + 1] = d
    <3>1. IsSeq(<<d>>)
      BY ShortSeqs
    <3>2. PICK t : t = <<d>> /\ IsSeq(t)
      BY <3>1
    <3>3. Len(t) = 1 /\ DOMAIN t = 1..1 /\ t[1] = d
      BY <3>2
    <3>4. /\ IsSeq(sent \o t) /\ Len(sent) \in Nat /\ Len(sent \o t) = Len(sent) + Len(t)
          /\ DOMAIN (sent \o t) = 1..(Len(sent) + Len(t)) /\ DOMAIN sent = 1..Len(sent)
          /\ \A k \in DOMAIN sent : (sent \o t)[k] = sent[k]
          /\ \A k \in DOMAIN t : (sent \o t)[Len(sent) + k] = t[k]
      <4>1. Joins(sent, t, sent \o t)
        BY <1>6, <3>2, JoinSeq
      <4>2. QED
        BY <4>1 DEF Joins
    <3>5. (sent \o t)[Len(sent) + 1] = d
      BY <3>3, <3>4
    <3>6. QED
      BY <3>2, <3>3, <3>4, <3>5
  <2>2. events' = s
    BY <1>7 DEF d
  <2> HIDE DEF s
  <2>3. Last(s) = d /\ s # <<>>
    BY <2>1 DEF Last
  <2>4. ASSUME NEW k \in DOMAIN s
        PROVE  /\ s[k].kind \in EventKinds
               /\ s[k].kind \in {"done", "error"} => k = Len(s)
               /\ client = "openai" /\ s[k].kind = "call" => s[k].id # Nil
    <3>1. CASE k \in DOMAIN sent
      BY <1>6, <2>1, <3>1
    <3>2. CASE k = Len(sent) + 1
      BY <2>0, <2>1, <3>2 DEF EventKinds
    <3>3. QED
      BY <2>1, <2>4, <3>1, <3>2
  <2>5. QED
    BY <1>7, <2>0, <2>1, <2>2, <2>3, <2>4 DEF Closed
<1>9. PlacesFit(tools', places')
  BY <1>7, FS_EmptySet DEF StreamInv, PlacesFit
<1>10. QED
  BY <1>7, <1>8, <1>9 DEF StreamInv

(* A request that is sent, and one that is accepted.                       *)
LEMMA AcceptedKept ==
  ASSUME StreamInv, Accepted
  PROVE  StreamInv'
<1>1. /\ phase = "connect" /\ attempts' = attempts + 1 /\ attempts < MaxAttempts
      /\ attempts \in 0..MaxAttempts /\ events = <<>> /\ phase' = "read"
      /\ buffer' = <<>> /\ tools' = <<>> /\ places' = <<>> /\ events' = <<>>
      /\ client' = client /\ count' = count /\ client \in Clients /\ count \in 0..Requests
  BY DEF StreamInv, Accepted, Try, sessionVars
<1>2. attempts' \in 0..MaxAttempts
  BY <1>1, LlmStreamAssumption
<1>3. wire' \in Seq(Halves \cup {Eol})
  BY <1>1, LlmStreamAssumption, WireTypes DEF Accepted
<1>4. PlacesFit(<<>>, <<>>)
  BY FS_EmptySet DEF PlacesFit
<1>5. AccOK(Acc)'
  BY <1>1, <1>4, ShortSeqs DEF AccOK, Acc
<1>6. PlacesFit(tools, places)'
  BY <1>1, <1>4 DEF PlacesFit
<1>7. QED
  BY <1>1, <1>2, <1>3, <1>5, <1>6 DEF StreamInv

(* A stream that ends before its reply does.                               *)
LEMMA ErrorCloses ==
  ASSUME StreamInv, phase \in {"connect", "read"}, End("error"), client' = client
  PROVE  Closed'
<1>1. CASE phase = "connect"
  <2>1. events = <<>>
    BY <1>1 DEF StreamInv
  <2>2. IsSeq(events) /\ DOMAIN events = {}
    BY <2>1, ShortSeqs
  <2>3. QED
    BY <2>2, EndCloses
<1>2. CASE phase = "read"
  <2>1. AccOK(Acc) /\ Acc.events = events /\ ~Acc.over
    BY <1>2 DEF StreamInv, Acc
  <2>2. /\ IsSeq(events)
        /\ \A k \in DOMAIN events :
             /\ events[k].kind \in EventKinds /\ events[k].kind \notin {"done", "error"}
             /\ client = "openai" => events[k].kind # "call"
    BY <2>1 DEF AccOK
  <2>3. QED
    BY <2>2, EndCloses
<1>3. QED
  BY <1>1, <1>2

(* Every step keeps the invariant of the stream.                           *)
LEMMA StreamStep ==
  ASSUME StreamInv, [Next]_vars
  PROVE  StreamInv'
<1>0. 0 \in 0..MaxAttempts /\ 0 < MaxAttempts /\ MaxAttempts \in Nat /\ Requests \in Nat
  BY LlmStreamAssumption
<1>1. ASSUME NEW i \in Instructions, Stream(i) PROVE StreamInv'
  <2>1. /\ phase' = "connect" /\ attempts' = 0 /\ phase = "idle"
        /\ UNCHANGED <<client, wire, buffer, tools, places, events>>
    BY <1>1 DEF Stream, Asked, Resolve, Send, readVars
  <2>2. count' \in 0..Requests
    BY <1>1, <1>0 DEF Stream, Asked, StreamInv
  <2>3. QED
    BY <1>0, <2>1, <2>2 DEF StreamInv, PlacesFit
<1>2. CASE UploadFails
  <2>1. count' \in 0..Requests /\ phase = "idle"
    BY <1>0, <1>2 DEF UploadFails, Asked, StreamInv
  <2>2. UNCHANGED <<client, phase, attempts, wire, buffer, tools, places, events>>
    BY <1>2 DEF UploadFails, sessionVars, readVars
  <2>3. QED
    BY <2>1, <2>2 DEF StreamInv, PlacesFit
<1>3. CASE Accepted
  BY <1>3, AcceptedKept
<1>4. CASE Refused \/ Transient
  <2>1. /\ phase = "connect" /\ attempts' = attempts + 1 /\ attempts < MaxAttempts
        /\ attempts \in 0..MaxAttempts
        /\ UNCHANGED <<client, count, wire, buffer, tools, places>>
    BY <1>4 DEF StreamInv, Refused, Transient, Try, sessionVars, readVars
  <2>2. attempts' \in 0..MaxAttempts
    BY <1>0, <2>1
  <2>3. CASE End("error")
    <3>1. Closed' /\ phase' = "over"
      BY <2>1, <2>3, ErrorCloses DEF End
    <3>2. QED
      BY <2>1, <2>2, <3>1 DEF StreamInv, PlacesFit
  <2>4. CASE UNCHANGED <<phase, events>> /\ attempts + 1 < MaxAttempts
    BY <2>1, <2>2, <2>4 DEF StreamInv, PlacesFit
  <2>5. QED
    BY <1>0, <1>4, <2>1, <2>3, <2>4 DEF Refused, Transient
<1>5. ASSUME NEW n \in 1..Len(wire), Read(n) PROVE StreamInv'
  BY <1>5, ReadKept
<1>6. CASE ReadFails
  <2>1. UNCHANGED <<client, count, attempts, wire, buffer, tools, places>> /\ phase = "read"
    BY <1>6 DEF ReadFails, sessionVars, readVars
  <2>2. Closed' /\ phase' = "over"
    BY <1>6, <2>1, ErrorCloses DEF ReadFails, End
  <2>3. QED
    BY <2>1, <2>2 DEF StreamInv, PlacesFit
<1>7. CASE ReplyEnds
  BY <1>7, EndsKept
<1>8. CASE Consume
  <2>1. /\ phase' = "idle" /\ attempts' = 0 /\ events' = <<>> /\ wire' = <<>>
        /\ buffer' = <<>> /\ tools' = <<>> /\ places' = <<>> /\ UNCHANGED <<client, count>>
    BY <1>8 DEF Consume, Forgotten
  <2>2. PlacesFit(<<>>, <<>>)
    BY FS_EmptySet DEF PlacesFit
  <2>3. PlacesFit(tools, places)'
    BY <2>1, <2>2 DEF PlacesFit
  <2>4. QED
    BY <1>0, <2>1, <2>3 DEF StreamInv
<1>9. ASSUME NEW c \in Clients, Switch(c) PROVE StreamInv'
  <2>1. /\ client' = c /\ phase = "idle"
        /\ UNCHANGED <<phase, count, attempts, wire, buffer, tools, places, events>>
    BY <1>9 DEF Switch, readVars
  <2>2. QED
    BY <2>1 DEF StreamInv, PlacesFit
<1>10. ASSUME UNCHANGED <<client, phase, count, attempts, wire, buffer, tools, places, events>>
       PROVE  StreamInv'
  <2>1. Acc' = Acc
    BY <1>10 DEF Acc
  <2>2. phase = "read" => AccOK(Acc)'
    <3>1. AccOK(Acc) /\ client' = client => AccOK(Acc)'
      BY <2>1 DEF AccOK
    <3>2. QED
      BY <1>10, <3>1 DEF StreamInv
  <2>3. phase = "over" => Closed'
    BY <1>10 DEF StreamInv, Closed
  <2>4. QED
    BY <1>10, <2>2, <2>3 DEF StreamInv, PlacesFit
<1>11. ASSUME NEW id \in DOMAIN caches, Expire(id) PROVE StreamInv'
  BY <1>10, <1>11 DEF Expire, readVars
<1>12. CASE UNCHANGED vars
  BY <1>10, <1>12 DEF vars, sessionVars, readVars
<1>13. QED
  BY <1>1, <1>2, <1>3, <1>4, <1>5, <1>6, <1>7, <1>8, <1>9, <1>11, <1>12
  DEF Next, Answer, Receive

-----------------------------------------------------------------------------
(* The steps of the session.                                               *)

(* What stream makes of the history when every call in it has an id.       *)
LEMMA PairedMessages ==
  ASSUME NEW rounds,
         \A r \in DOMAIN rounds : \A c \in DOMAIN rounds[r].ids : rounds[r].ids[c] # Nil
  PROVE  Paired(Messages(rounds))
BY DEF Paired, Messages, CallId, AnswerId

(* What the body of a request takes from the session.                      *)
LEMMA BodySound ==
  ASSUME RequestInv, NEW i, NEW id
  PROVE  /\ Body(i, id).instruction = i
         /\ Body(i, id).cache # Nil => Body(i, id).cache = id
         /\ (\A r \in DOMAIN history : history[r].by = client) =>
              Paired(Body(i, id).messages)
<1>1. Paired(<<>>)
  BY DEF Paired
<1>2. client = "openai" /\ (\A r \in DOMAIN history : history[r].by = client) =>
        Paired(Messages(history))
  BY PairedMessages DEF RequestInv
<1>3. QED
  BY <1>1, <1>2 DEF Body

(* A request, with or without a cache.                                     *)
LEMMA StreamRequests ==
  ASSUME StreamInv, RequestInv, NEW i \in Instructions, Stream(i)
  PROVE  RequestInv'
<1>0. phase' # "idle" /\ UNCHANGED <<client, history>> /\ caches \in Seq([of : Instructions, alive : BOOLEAN])
  BY DEF Stream, Asked, Resolve, Send, RequestInv
<1> DEFINE n == Len(caches) + 1
<1>1. CASE request' = Body(i, Nil) /\ UNCHANGED <<cached, caches>>
  BY <1>0, <1>1, BodySound DEF RequestInv, RequestSound, CacheIsOfInstruction, CallsAnswerable
<1>2. CASE request' = Body(i, cached.id) /\ CacheHit(i) /\ UNCHANGED <<cached, caches>>
  BY <1>0, <1>2, BodySound
  DEF RequestInv, RequestSound, CacheIsOfInstruction, CallsAnswerable, CacheHit
<1>3. CASE /\ request' = Body(i, n) /\ caches' = Append(caches, [of |-> i, alive |-> TRUE])
           /\ cached' = [of |-> i, id |-> n]
  <2>1. /\ caches' \in Seq([of : Instructions, alive : BOOLEAN])
        /\ n \in DOMAIN caches' /\ caches'[n] = [of |-> i, alive |-> TRUE]
    BY <1>0, <1>3
  <2>2. caches'[n].of = i
    BY <2>1
  <2> HIDE DEF n
  <2>3. cached'.id = n /\ cached'.of = i
    BY <1>3
  <2>4. request'.instruction = i /\ (request'.cache # Nil => request'.cache = n)
        /\ ((\A r \in DOMAIN history : history[r].by = client) => Paired(request'.messages))
    BY <1>3, BodySound
  <2>5. RequestSound'
    BY <1>0, <2>2, <2>4 DEF RequestSound, CacheIsOfInstruction, CallsAnswerable
  <2>6. QED
    BY <1>0, <2>1, <2>2, <2>3, <2>4, <2>5 DEF RequestInv
<1>4. QED
  BY <1>1, <1>2, <1>3 DEF Stream, Resolve, Send

(* A round of calls that is added to the history.                          *)
LEMMA ConsumeRequests ==
  ASSUME StreamInv, RequestInv, Consume
  PROVE  RequestInv'
<1>1. /\ phase' = "idle" /\ UNCHANGED <<client, cached, caches>> /\ Closed /\ IsSeq(history)
  BY DEF Consume, StreamInv, RequestInv
<1>2. PICK calls : calls = CallsOf(events)
  OBVIOUS
<1>3. client = "openai" => \A c \in DOMAIN calls : calls[c].id # Nil
  BY <1>1, <1>2, CallsHeard DEF Closed
<1>4. CASE history' = history
  BY <1>1, <1>4 DEF RequestInv, RequestSound, CacheIsOfInstruction, CallsAnswerable, IsSeq
<1>5. CASE history' = Append(history, Round(calls))
  <2>1. PICK e : e = Round(calls)
    OBVIOUS
  <2>2. e.by = client /\ DOMAIN e.ids = DOMAIN calls /\ \A c \in DOMAIN calls : e.ids[c] = calls[c].id
    BY <2>1 DEF Round
  <2>3. /\ IsSeq(Append(history, e)) /\ Len(history) \in Nat
        /\ DOMAIN history = 1..Len(history)
        /\ DOMAIN Append(history, e) = 1..(Len(history) + 1)
        /\ \A r \in DOMAIN history : Append(history, e)[r] = history[r]
        /\ Append(history, e)[Len(history) + 1] = e
    BY <1>1, AppendSeq
  <2>4. PICK new : new = Append(history, e)
    OBVIOUS
  <2>5. ASSUME NEW r \in DOMAIN new, new[r].by = "openai", NEW c \in DOMAIN new[r].ids
        PROVE  new[r].ids[c] # Nil
    <3>1. CASE r \in DOMAIN history
      BY <2>3, <2>4, <2>5, <3>1 DEF RequestInv
    <3>2. CASE r = Len(history) + 1
      BY <1>3, <2>2, <2>3, <2>4, <2>5, <3>2
    <3>3. QED
      BY <2>3, <2>4, <3>1, <3>2
  <2>6. history' = new /\ IsSeq(new)
    BY <1>5, <2>1, <2>3, <2>4
  <2>7. IsSeq(history)'
    BY <2>6 DEF IsSeq
  <2>8. RequestSound'
    BY <1>1 DEF RequestSound, CacheIsOfInstruction, CallsAnswerable
  <2>9. QED
    BY <1>1, <2>5, <2>6, <2>7, <2>8 DEF RequestInv
<1>6. QED
  BY <1>2, <1>4, <1>5 DEF Consume

(* Every step keeps the invariant of the requests.                         *)
LEMMA RequestStep ==
  ASSUME StreamInv, RequestInv, [Next]_vars
  PROVE  RequestInv'
<1>1. ASSUME NEW i \in Instructions, Stream(i) PROVE RequestInv'
  BY <1>1, StreamRequests
<1>2. CASE Consume
  BY <1>2, ConsumeRequests
<1>3. ASSUME UNCHANGED <<client, cached, caches, history>>,
             phase # "idle" \/ phase' = "idle", UNCHANGED request
      PROVE  RequestInv'
  BY <1>3 DEF RequestInv, RequestSound, CacheIsOfInstruction, CallsAnswerable, IsSeq
<1>4. CASE UploadFails
  BY <1>3, <1>4 DEF UploadFails, sessionVars, Asked
<1>5. CASE Answer
  BY <1>3, <1>5 DEF Answer, Accepted, Refused, Transient, Try, sessionVars
<1>6. CASE Receive
  BY <1>3, <1>6 DEF Receive, Read, ReadFails, ReplyEnds, sessionVars
<1>7. ASSUME NEW c \in Clients, Switch(c) PROVE RequestInv'
  BY <1>7 DEF Switch, RequestInv, RequestSound, CacheIsOfInstruction, CallsAnswerable, IsSeq
<1>8. ASSUME NEW id \in DOMAIN caches, Expire(id) PROVE RequestInv'
  <2>1. /\ UNCHANGED <<client, cached, history, phase, request>>
        /\ caches' = [caches EXCEPT ![id].alive = FALSE]
        /\ caches \in Seq([of : Instructions, alive : BOOLEAN])
    BY <1>8 DEF Expire, RequestInv
  <2>2. /\ caches' \in Seq([of : Instructions, alive : BOOLEAN])
        /\ DOMAIN caches' = DOMAIN caches
        /\ \A k \in DOMAIN caches : caches'[k].of = caches[k].of
    <3> DEFINE T == [of : Instructions, alive : BOOLEAN]
    <3>1. PICK e : e = [caches[id] EXCEPT !.alive = FALSE]
      OBVIOUS
    <3>2. caches \in Seq(T)
      BY <2>1
    <3>3. caches' = [caches EXCEPT ![id] = e]
      BY <2>1, <3>1
    <3> HIDE DEF T
    <3>4. caches[id] \in T
      BY <1>8, <3>2
    <3>5. e \in T /\ e.of = caches[id].of
      BY <3>1, <3>4 DEF T
    <3>6. caches' \in Seq(T) /\ DOMAIN caches' = DOMAIN caches
      BY <1>8, <3>2, <3>3, <3>5
    <3>7. \A k \in DOMAIN caches : caches'[k].of = caches[k].of
      BY <3>3, <3>5
    <3>8. QED
      BY <3>6, <3>7 DEF T
  <2>3. RequestSound'
    BY <2>1, <2>2 DEF RequestInv, RequestSound, CacheIsOfInstruction, CallsAnswerable
  <2>4. QED
    BY <2>1, <2>2, <2>3 DEF RequestInv, IsSeq
<1>9. CASE UNCHANGED vars
  BY <1>3, <1>9 DEF vars, sessionVars
<1>10. QED
  BY <1>1, <1>2, <1>4, <1>5, <1>6, <1>7, <1>8, <1>9 DEF Next

-----------------------------------------------------------------------------
(* The invariants hold in every behaviour.                                 *)

(* Both hold in every state, for all the replies a provider may send.      *)
THEOREM StreamInvariant == Spec => [](StreamInv /\ RequestInv)
<1>1. Init => StreamInv /\ RequestInv
  BY InitInv
<1>2. StreamInv /\ RequestInv /\ [Next]_vars => (StreamInv /\ RequestInv)'
  BY StreamStep, RequestStep
<1>3. QED
  BY <1>1, <1>2, PTL DEF Spec

(* The loop that reads the channel finds what has a type, and one Done or  *)
(* one Error at its end, whatever a provider sends and however it is cut.  *)
THEOREM StreamSoundCorrect == Spec => []StreamSound
<1>1. StreamInv => TypeOK
  <2> SUFFICES ASSUME StreamInv PROVE TypeOK
    OBVIOUS
  <2>1. \A k \in DOMAIN events : events[k].kind \in EventKinds
    <3>1. CASE phase = "read"
      BY <3>1 DEF StreamInv, AccOK, Acc
    <3>2. CASE phase = "over"
      BY <3>2 DEF StreamInv, Closed
    <3>3. QED
      BY <3>1, <3>2 DEF StreamInv
  <2>2. QED
    BY <2>1 DEF StreamInv, PlacesFit, TypeOK, EventKinds
<1>2. StreamInv => EndsOnce
  <2> SUFFICES ASSUME StreamInv PROVE EndsOnce
    OBVIOUS
  <2>1. CASE phase = "over"
    <3>1. Closed
      BY <2>1 DEF StreamInv
    <3>2. client = "openai" /\ Last(events).kind = "error" =>
            \A k \in DOMAIN events : events[k].kind # "call"
      BY <3>1 DEF Closed
    <3>3. client = "openai" /\ Last(events).kind = "error" => CallsOf(events) = <<>>
      BY <3>1, <3>2, CallsHeard DEF Closed
    <3>4. QED
      BY <2>1, <3>1, <3>3 DEF Closed, EndsOnce
  <2>2. CASE phase = "read"
    <3>1. \A k \in DOMAIN events : events[k].kind \notin {"done", "error"}
      BY <2>2 DEF StreamInv, AccOK, Acc
    <3>2. QED
      BY <2>2, <3>1 DEF EndsOnce
  <2>3. QED
    BY <2>1, <2>2 DEF StreamInv, EndsOnce
<1>3. StreamInv => StreamSound
  BY <1>1, <1>2 DEF StreamSound
<1>4. QED
  BY StreamInvariant, <1>3, PTL

(* A cache named by a request was made of its instruction, and in a        *)
(* session of one client every tool message answers its call.              *)
THEOREM RequestSoundCorrect == Spec => []RequestSound
<1>1. RequestInv => RequestSound
  BY DEF RequestInv
<1>2. QED
  BY StreamInvariant, <1>1, PTL

-----------------------------------------------------------------------------
(* Context.  What it computes by going through a sequence, it computes by  *)
(* a function of the steps taken.                                          *)

(* Induction up to n.                                                      *)
LEMMA UpTo ==
  ASSUME NEW n \in Nat, NEW S, 0 \in S, \A k \in 1..n : k - 1 \in S => k \in S
  PROVE  n \in S /\ \A k \in 0..n : k \in S
<1> DEFINE T == {k \in Nat : k <= n => k \in S}
<1>1. 0 \in T
  OBVIOUS
<1>2. ASSUME NEW k \in Nat, k \in T PROVE k + 1 \in T
  <2> SUFFICES ASSUME k + 1 <= n PROVE k + 1 \in S
    OBVIOUS
  <2>1. k + 1 \in 1..n /\ (k + 1) - 1 = k /\ k <= n
    OBVIOUS
  <2>2. k \in S
    BY <1>2, <2>1
  <2>3. QED
    BY <2>1, <2>2
<1>3. T \subseteq Nat
  OBVIOUS
<1> HIDE DEF T
<1>4. T = Nat
  BY <1>1, <1>2, <1>3, SetInduction
<1>5. QED
  BY <1>4 DEF T

(* One step after the other: step[k] leads from the state before it to the *)
(* state after it.                                                         *)
Follows(f, n, base, step) == f[0] = base /\ \A k \in 1..n : f[k] = step[k][f[k - 1]]

(* A sequence of steps within a set can be followed to its end.            *)
LEMMA Followed ==
  ASSUME NEW D, NEW n \in Nat, NEW base \in D, NEW step \in [1..n -> [D -> D]]
  PROVE  \E f \in [0..n -> D] : Follows(f, n, base, step)
<1> DEFINE S == {m \in 0..n : \E f \in [0..m -> D] : Follows(f, m, base, step)}
<1>1. 0 \in S
  <2> DEFINE f == [k \in 0..0 |-> base]
  <2>1. f \in [0..0 -> D] /\ f[0] = base
    OBVIOUS
  <2> HIDE DEF f
  <2>2. Follows(f, 0, base, step)
    BY <2>1 DEF Follows
  <2>3. QED
    BY <2>1, <2>2
<1>2. ASSUME NEW m \in 1..n, m - 1 \in S PROVE m \in S
  <2>1. PICK f \in [0..(m - 1) -> D] : Follows(f, m - 1, base, step)
    BY <1>2
  <2>2. m - 1 \in 0..(m - 1) /\ 0 \in 0..(m - 1)
    OBVIOUS
  <2> DEFINE e == step[m][f[m - 1]]
             g == [k \in 0..m |-> IF k = m THEN e ELSE f[k]]
  <2>3. e \in D
    BY <2>1, <2>2
  <2> HIDE DEF e
  <2>4. \A k \in 0..m : k # m => k \in 0..(m - 1)
    OBVIOUS
  <2>5. g \in [0..m -> D]
    BY <2>1, <2>3, <2>4
  <2>6. g[0] = base
    BY <2>1 DEF Follows
  <2>7. ASSUME NEW k \in 1..m PROVE g[k] = step[k][g[k - 1]]
    <3>1. k - 1 \in 0..m /\ k - 1 # m /\ k \in 0..m
      OBVIOUS
    <3>2. g[k - 1] = f[k - 1]
      BY <3>1
    <3>3. CASE k = m
      BY <3>1, <3>2, <3>3 DEF e
    <3>4. CASE k # m
      <4>1. k \in 1..(m - 1)
        BY <3>4
      <4>2. g[k] = f[k]
        BY <3>1, <3>4
      <4>3. QED
        BY <2>1, <3>2, <4>1, <4>2 DEF Follows
    <3>5. QED
      BY <3>3, <3>4
  <2> HIDE DEF g
  <2>8. Follows(g, m, base, step)
    BY <2>6, <2>7 DEF Follows
  <2>9. \E h \in [0..m -> D] : Follows(h, m, base, step)
    BY <2>5, <2>8
  <2>10. QED
    BY <2>9
<1> HIDE DEF S
<1>3. n \in S
  BY <1>1, <1>2, UpTo
<1>4. QED
  BY <1>3 DEF S

(* Sum adds the numbers one by one.                                        *)
Adds(s, f) ==
  /\ f[0] = 0 /\ \A k \in 1..Len(s) : f[k] = f[k - 1] + s[k]
  /\ \A k \in 0..Len(s) : f[k] \in Nat

LEMMA SumAdds ==
  ASSUME NEW s, Len(s) \in Nat, \A k \in 1..Len(s) : s[k] \in Nat
  PROVE  \E f : Adds(s, f) /\ Sum(s) = f[Len(s)]
<1> DEFINE n == Len(s)
           Solves(f) == f = [k \in 0..n |-> IF k = 0 THEN 0 ELSE f[k - 1] + s[k]]
           step == [k \in 1..n |-> [a \in Nat |-> a + s[k]]]
           F == CHOOSE f : Solves(f)
<1>1. step \in [1..n -> [Nat -> Nat]]
  OBVIOUS
<1>2. PICK f \in [0..n -> Nat] : Follows(f, n, 0, step)
  BY <1>1, Followed
<1>3. Solves(f)
  <2>1. \A k \in 0..n : k # 0 => k \in 1..n /\ k - 1 \in 0..n
    OBVIOUS
  <2>2. \A k \in 0..n : f[k] = IF k = 0 THEN 0 ELSE f[k - 1] + s[k]
    BY <1>2, <2>1 DEF Follows
  <2>3. QED
    BY <2>2
<1>4. Solves(F)
  BY <1>3
<1>5. Sum(s) = F[n]
  BY DEF Sum
<1> HIDE DEF F, step
<1>6. F[0] = 0 /\ \A k \in 1..n : F[k] = F[k - 1] + s[k]
  BY <1>4
<1>7. \A k \in 0..n : F[k] \in Nat
  <2> DEFINE S == {k \in 0..n : F[k] \in Nat}
  <2>1. 0 \in S
    BY <1>6
  <2>2. ASSUME NEW k \in 1..n, k - 1 \in S PROVE k \in S
    <3>1. F[k] = F[k - 1] + s[k] /\ F[k - 1] \in Nat /\ s[k] \in Nat /\ k \in 0..n
      BY <1>6, <2>2
    <3>2. QED
      BY <3>1
  <2> HIDE DEF S
  <2>3. \A k \in 0..n : k \in S
    BY <2>1, <2>2, UpTo
  <2>4. QED
    BY <2>3 DEF S
<1>8. QED
  BY <1>5, <1>6, <1>7 DEF Adds

(* A sum of natural numbers is one, ...                                    *)
LEMMA SumType ==
  ASSUME NEW s, Len(s) \in Nat, \A k \in 1..Len(s) : s[k] \in Nat
  PROVE  Sum(s) \in Nat
BY SumAdds DEF Adds

(* ... and grows with them.                                                *)
LEMMA SumMonotone ==
  ASSUME NEW s, NEW t, Len(s) \in Nat, Len(t) = Len(s),
         \A k \in 1..Len(s) : s[k] \in Nat /\ t[k] \in Nat /\ s[k] <= t[k]
  PROVE  Sum(s) <= Sum(t)
<1>1. PICK f : Adds(s, f) /\ Sum(s) = f[Len(s)]
  BY SumAdds
<1>2. PICK g : Adds(t, g) /\ Sum(t) = g[Len(s)]
  BY SumAdds
<1> DEFINE S == {k \in 0..Len(s) : f[k] <= g[k]}
<1>3. 0 \in S
  BY <1>1, <1>2 DEF Adds
<1>4. ASSUME NEW k \in 1..Len(s), k - 1 \in S PROVE k \in S
  <2>1. f[k] = f[k - 1] + s[k] /\ g[k] = g[k - 1] + t[k]
    BY <1>1, <1>2 DEF Adds
  <2>2. k - 1 \in 0..Len(s) /\ f[k - 1] \in Nat /\ g[k - 1] \in Nat /\ f[k - 1] <= g[k - 1]
    BY <1>1, <1>2, <1>4 DEF Adds
  <2>3. QED
    BY <2>1, <2>2
<1> HIDE DEF S
<1>5. Len(s) \in S
  BY <1>3, <1>4, UpTo
<1>6. QED
  BY <1>1, <1>2, <1>5 DEF S

-----------------------------------------------------------------------------
(* Messages.                                                               *)

Speakers == {"user", "say", "think", "call", "result"}

LEMMA MsgType ==
  ASSUME NEW k \in Speakers, NEW n \in Nat
  PROVE  Msg(k, n) \in Message /\ Msg(k, n).kind = k
BY DEF Msg, Message, Speakers

LEMMA ConstantsType ==
  /\ {Window, Static, Task, Status, Tomb, Evicted, Safe, Reach, Old,
      Stripped, Clip, TurnLimit, ResultLimit, Keep, MaxTurns, MaxMessages,
      MaxEdits} \subseteq Nat
  /\ Window \in Nat /\ Static \in Nat /\ Task \in Nat /\ Status \in Nat
  /\ Tomb \in Nat /\ Evicted \in Nat /\ Safe \in Nat /\ Reach \in Nat /\ Old \in Nat
  /\ Stripped \in Nat /\ Clip \in Nat /\ TurnLimit \in Nat /\ ResultLimit \in Nat
  /\ MaxEdits \in Nat /\ Keep \in Nat
BY ContextAssumption

(* A message that is made smaller keeps its speaker.                       *)
LEMMA StripOf ==
  ASSUME NEW m \in Message
  PROVE  /\ Strip(m) \in Message /\ Strip(m).kind = m.kind /\ Strip(m).size <= m.size
         /\ m.kind = "result" => Strip(m).size <= Stripped
<1> DEFINE t == [m EXCEPT !.size = Stripped, !.form = "gone"]
<1>1. t \in Message /\ t.kind = m.kind /\ t.size = Stripped
  BY ConstantsType DEF Message
<1>2. m.size \in Nat
  BY DEF Message
<1> HIDE DEF t
<1>3. Strip(m) = IF m.kind = "result" /\ m.size > Stripped THEN t ELSE m
  BY DEF Strip, t
<1>4. QED
  BY <1>1, <1>2, <1>3, ConstantsType

LEMMA CutOldOf ==
  ASSUME NEW m \in Message
  PROVE  /\ CutOld(m) \in Message /\ CutOld(m).kind = m.kind
         /\ m.kind = "result" => CutOld(m).size = Least(m.size, Clip)
<1> DEFINE t == [m EXCEPT !.size = Clip, !.form = "cut"]
<1>1. t \in Message /\ t.kind = m.kind /\ t.size = Clip
  BY ConstantsType DEF Message
<1>2. m.size \in Nat
  BY DEF Message
<1> HIDE DEF t
<1>3. CutOld(m) = IF m.kind = "result" /\ m.size > Clip THEN t ELSE m
  BY DEF CutOld, t
<1>4. QED
  BY <1>1, <1>2, <1>3, ConstantsType DEF Least

(* Only what is thought and nothing else becomes an answer.                *)
LEMMA ReconstructedOf ==
  ASSUME NEW m \in Message
  PROVE  /\ Reconstructed(m) \in Message
         /\ Reconstructed(m).kind = IF m.kind = "think" THEN "say" ELSE m.kind
<1>1. CASE m.kind = "think"
  BY <1>1, MsgType DEF Reconstructed, Speakers
<1>2. CASE m.kind # "think"
  <2>1. Brief(m) \in Message /\ Brief(m).kind = m.kind
    BY DEF Brief, Message
  <2>2. QED
    BY <1>2, <2>1, StripOf DEF Reconstructed
<1>3. QED
  BY <1>1, <1>2

(* t has the messages of m, made smaller.                                  *)
Alike(t, m) ==
  /\ t \in Seq(Message) /\ Len(t) = Len(m)
  /\ \A i \in 1..Len(m) : t[i].kind = m[i].kind

LEMMA TokensType ==
  ASSUME NEW m \in Seq(Message)
  PROVE  Tokens(m) \in Nat /\ ResultTokens(m) \in Nat
<1>1. \A i \in 1..Len(m) : m[i] \in Message
  OBVIOUS
<1>5. \A i \in 1..Len(m) : m[i].size \in Nat
  BY <1>1 DEF Message
<1> DEFINE s == [i \in DOMAIN m |-> m[i].size]
           r == [i \in DOMAIN m |-> IF i \in Results(m) THEN m[i].size ELSE 0]
<1>2. Len(s) = Len(m) /\ Len(r) = Len(m) /\ Len(m) \in Nat
  OBVIOUS
<1>3. \A i \in 1..Len(m) : s[i] \in Nat /\ r[i] \in Nat
  BY <1>5
<1> HIDE DEF s, r
<1>4. Sum(s) \in Nat /\ Sum(r) \in Nat
  BY <1>2, <1>3, SumType
<1>6. QED
  BY <1>4 DEF Tokens, ResultTokens, s, r

(* The results of a turn whose messages are made smaller take less.        *)
LEMMA ResultsShrink ==
  ASSUME NEW m \in Seq(Message), NEW t, Alike(t, m),
         \A i \in 1..Len(m) : t[i].size <= m[i].size
  PROVE  ResultTokens(t) <= ResultTokens(m)
<1>1. \A i \in 1..Len(m) : m[i].size \in Nat /\ t[i].size \in Nat
  <2>1. \A i \in 1..Len(m) : m[i] \in Message /\ t[i] \in Message
    BY DEF Alike
  <2>2. QED
    BY <2>1 DEF Message
<1>2. Results(t) = Results(m)
  BY DEF Results, Alike
<1> DEFINE s == [i \in DOMAIN t |-> IF i \in Results(t) THEN t[i].size ELSE 0]
           r == [i \in DOMAIN m |-> IF i \in Results(m) THEN m[i].size ELSE 0]
<1>3. Len(s) = Len(m) /\ Len(r) = Len(m) /\ Len(m) \in Nat
  BY DEF Alike
<1>4. \A i \in 1..Len(m) : s[i] \in Nat /\ r[i] \in Nat /\ s[i] <= r[i]
  BY <1>1, <1>2 DEF Alike
<1> HIDE DEF s, r
<1>5. Sum(s) <= Sum(r)
  BY <1>3, <1>4, SumMonotone
<1>6. QED
  BY <1>5 DEF ResultTokens, s, r

(* compress_current_turn, result by result.                                *)
Squeezes(m, f) ==
  /\ f[0] = m /\ \A i \in 1..Len(m) : f[i] = Squeeze(f[i - 1], i)
  /\ \A i \in 0..Len(m) : Alike(f[i], m)

LEMMA SqueezeAlike ==
  ASSUME NEW m \in Seq(Message), NEW t, Alike(t, m), NEW i \in 1..Len(m)
  PROVE  Alike(Squeeze(t, i), m)
<1>1. t \in Seq(Message) /\ i \in 1..Len(t) /\ t[i] \in Message
  BY DEF Alike
<1>2. Strip(t[i]) \in Message /\ Strip(t[i]).kind = t[i].kind
  BY <1>1, StripOf
<1> DEFINE u == [t EXCEPT ![i] = Strip(t[i])]
<1>3. u \in Seq(Message) /\ Len(u) = Len(t) /\ \A j \in 1..Len(t) : u[j].kind = t[j].kind
  BY <1>1, <1>2
<1> HIDE DEF u
<1>4. Alike(u, m)
  BY <1>1, <1>3 DEF Alike
<1>5. QED
  BY <1>4 DEF Squeeze, u

LEMMA CompressedSqueezes ==
  ASSUME NEW m \in Seq(Message)
  PROVE  \E f : Squeezes(m, f) /\ Compressed(m) = f[Len(m)]
<1> DEFINE n == Len(m)
           D == {t \in Seq(Message) : Alike(t, m)}
           Solves(f) == f = [i \in 0..n |-> IF i = 0 THEN m ELSE Squeeze(f[i - 1], i)]
           step == [i \in 1..n |-> [t \in D |-> Squeeze(t, i)]]
           F == CHOOSE f : Solves(f)
<1>1. n \in Nat /\ m \in D
  BY DEF Alike
<1>2. \A t \in D : \A i \in 1..n : Squeeze(t, i) \in D
  BY SqueezeAlike DEF Alike
<1> HIDE DEF D
<1>3. step \in [1..n -> [D -> D]]
  BY <1>2
<1>4. PICK f \in [0..n -> D] : Follows(f, n, m, step)
  BY <1>1, <1>3, Followed
<1>5. Solves(f)
  <2>1. \A i \in 0..n : i # 0 => i \in 1..n /\ i - 1 \in 0..n
    BY <1>1
  <2>2. \A i \in 0..n : f[i] = IF i = 0 THEN m ELSE Squeeze(f[i - 1], i)
    BY <1>4, <2>1 DEF Follows
  <2>3. QED
    BY <2>2
<1>6. Solves(F)
  BY <1>5
<1>7. Compressed(m) = F[n]
  BY DEF Compressed
<1> HIDE DEF F, step
<1>8. F[0] = m /\ \A i \in 1..n : F[i] = Squeeze(F[i - 1], i)
  BY <1>1, <1>6
<1>9. \A i \in 0..n : F[i] \in D
  <2> DEFINE S == {i \in 0..n : F[i] \in D}
  <2>1. 0 \in S
    BY <1>1, <1>8
  <2>2. ASSUME NEW i \in 1..n, i - 1 \in S PROVE i \in S
    BY <1>2, <1>8, <2>2
  <2> HIDE DEF S
  <2>3. \A i \in 0..n : i \in S
    BY <1>1, <2>1, <2>2, UpTo
  <2>4. QED
    BY <2>3 DEF S
<1>10. QED
  BY <1>7, <1>8, <1>9 DEF D, Squeezes

(* What TurnBounded wants of a turn that ends with results.                *)
ResultsBounded(m) ==
  \/ ResultTokens(m) <= TurnLimit
  \/ \A i \in Results(m) \ {Len(m)} : m[i].size <= Stripped

LEMMA CompressedBounded ==
  ASSUME NEW m \in Seq(Message)
  PROVE  Alike(Compressed(m), m) /\ ResultsBounded(Compressed(m))
<1> DEFINE n == Len(m)
<1>1. PICK f : Squeezes(m, f) /\ Compressed(m) = f[n]
  BY CompressedSqueezes
<1> DEFINE Done(k) == \/ ResultTokens(f[k]) <= TurnLimit
                      \/ \A i \in Results(m) : i <= k /\ i # n => f[k][i].size <= Stripped
           S == {k \in 0..n : Done(k)}
<1>2. n \in Nat /\ n \in 0..n
  OBVIOUS
<1>3. \A k \in 0..n : Alike(f[k], m) /\ Results(f[k]) = Results(m)
  BY <1>1 DEF Squeezes, Alike, Results
<1>4. 0 \in S
  BY <1>2 DEF Results
<1>5. ASSUME NEW k \in 1..n, k - 1 \in S PROVE k \in S
  <2> DEFINE t == f[k - 1]
  <2>1. k - 1 \in 0..n /\ k \in 0..n /\ f[k] = Squeeze(t, k)
    BY <1>1 DEF Squeezes
  <2>2. CASE ResultTokens(t) <= TurnLimit
    BY <2>1, <2>2 DEF Squeeze
  <2>3. CASE ~(ResultTokens(t) <= TurnLimit) /\ k \notin Compressible(t)
    <3>1. f[k] = t
      BY <2>1, <2>3 DEF Squeeze
    <3>2. ~(k \in Results(m) /\ k # n)
      BY <1>3, <2>1, <2>3 DEF Compressible, Alike
    <3>3. \A i \in Results(m) : i <= k /\ i # n => i <= k - 1
      BY <3>2 DEF Results
    <3>4. \A i \in Results(m) : i <= k - 1 /\ i # n => t[i].size <= Stripped
      BY <1>5, <2>3
    <3>5. QED
      BY <2>1, <3>1, <3>3, <3>4
  <2>4. CASE ~(ResultTokens(t) <= TurnLimit) /\ k \in Compressible(t)
    <3>1. f[k] = [t EXCEPT ![k] = Strip(t[k])]
      BY <2>1, <2>4 DEF Squeeze
    <3>2. t \in Seq(Message) /\ DOMAIN t = 1..n /\ t[k] \in Message /\ t[k].kind = "result"
      BY <1>3, <2>1, <2>4 DEF Compressible, Alike, Results
    <3>3. f[k][k].size <= Stripped
      BY <3>1, <3>2, StripOf
    <3>4. \A i \in Results(m) : i # k => f[k][i] = t[i]
      BY <3>1, <3>2 DEF Results
    <3>5. \A i \in Results(m) : i <= k - 1 /\ i # n => t[i].size <= Stripped
      BY <1>5, <2>4
    <3>6. \A i \in Results(m) : i <= k => i = k \/ i <= k - 1
      BY DEF Results
    <3>7. Done(k)
      BY <3>3, <3>4, <3>5, <3>6
    <3>8. QED
      BY <2>1, <3>7
  <2>5. QED
    BY <2>2, <2>3, <2>4
<1>6. n \in S
  <2> HIDE DEF S
  <2>1. QED
    BY <1>2, <1>4, <1>5, UpTo
<1>7. Done(n)
  BY <1>6
<1>8. QED
  <2>1. Alike(f[n], m) /\ Results(f[n]) = Results(m) /\ Len(f[n]) = n
    BY <1>2, <1>3 DEF Alike
  <2>2. \A i \in Results(m) : i <= n
    BY DEF Results
  <2>3. ResultsBounded(f[n])
    BY <1>7, <2>1, <2>2 DEF ResultsBounded
  <2>4. QED
    BY <1>1, <2>1, <2>3

(* truncate_current_turn_tool_results makes nothing larger.                *)
LEMMA TruncatedOf ==
  ASSUME NEW m \in Seq(Message)
  PROVE  Alike(Truncated(m), m) /\ \A i \in 1..Len(m) : Truncated(m)[i].size <= m[i].size
<1> DEFINE CutTo(x) == [x EXCEPT !.size = ResultLimit + 1, !.form = "cut"]
           Cut(i) == CutTo(m[i])
           t == Truncated(m)
<1>1. ASSUME NEW i \in 1..Len(m)
      PROVE  Cut(i) \in Message /\ Cut(i).kind = m[i].kind /\ Cut(i).size = ResultLimit + 1
  <2>1. m[i] \in Message
    OBVIOUS
  <2>2. PICK n \in Nat : n = ResultLimit + 1
    BY ConstantsType
  <2>3. PICK x \in Message : x = m[i]
    BY <2>1
  <2> DEFINE u == [x EXCEPT !.size = n, !.form = "cut"]
  <2>4. u \in Message /\ u.kind = x.kind /\ u.size = n
    BY DEF Message
  <2>5. u = Cut(i)
    BY <2>2, <2>3
  <2> HIDE DEF u, Cut, CutTo
  <2>6. QED
    BY <2>2, <2>3, <2>4, <2>5
<1>2. \A i \in 1..Len(m) : m[i] \in Message /\ m[i].size \in Nat
  <2>1. \A i \in 1..Len(m) : m[i] \in Message
    OBVIOUS
  <2>2. QED
    BY <2>1 DEF Message
<1>3. t = [i \in 1..Len(m) |-> IF i \in Results(m) /\ m[i].size > ResultLimit THEN Cut(i) ELSE m[i]]
  BY DEF Truncated
<1> HIDE DEF t, Cut, CutTo
<1>4. \A i \in 1..Len(m) : t[i] \in Message /\ t[i].kind = m[i].kind /\ t[i].size <= m[i].size
  BY <1>1, <1>2, <1>3, ConstantsType
<1>5. t \in Seq(Message) /\ Len(t) = Len(m)
  BY <1>3, <1>4
<1>6. QED
  BY <1>4, <1>5 DEF Alike, t

(* What is left of a round.                                                *)
LEMMA RoundBounded ==
  ASSUME NEW m \in Seq(Message)
  PROVE  /\ Alike(Truncated(Compressed(m)), m)
         /\ ResultsBounded(Truncated(Compressed(m)))
<1> DEFINE c == Compressed(m)
           t == Truncated(c)
<1>1. Alike(c, m) /\ ResultsBounded(c) /\ c \in Seq(Message) /\ Len(c) = Len(m)
  BY CompressedBounded DEF Alike
<1>2. Alike(t, c) /\ \A i \in 1..Len(c) : t[i].size <= c[i].size
  BY <1>1, TruncatedOf
<1> HIDE DEF c, t
<1>3. Alike(t, m)
  BY <1>1, <1>2 DEF Alike
<1>4. ResultTokens(t) <= ResultTokens(c) /\ ResultTokens(c) \in Nat /\ ResultTokens(t) \in Nat
  BY <1>1, <1>2, ResultsShrink, TokensType DEF Alike
<1>5. Results(t) = Results(c) /\ Len(t) = Len(c)
  BY <1>2 DEF Results, Alike
<1>6. CASE ResultTokens(c) <= TurnLimit
  BY <1>3, <1>4, <1>6, ConstantsType DEF ResultsBounded, c, t
<1>7. CASE \A i \in Results(c) \ {Len(c)} : c[i].size <= Stripped
  <2>1. \A i \in Results(c) : t[i].size <= c[i].size /\ t[i].size \in Nat /\ c[i].size \in Nat
    <3>1. \A i \in Results(c) : t[i] \in Message /\ c[i] \in Message /\ i \in 1..Len(c)
      BY <1>1, <1>2 DEF Results, Alike
    <3>2. QED
      BY <1>2, <3>1 DEF Message
  <2>2. ASSUME NEW i \in Results(t) \ {Len(t)} PROVE t[i].size <= Stripped
    <3>1. i \in Results(c) /\ c[i].size <= Stripped
      BY <1>5, <1>7
    <3>2. QED
      BY <2>1, <3>1, ConstantsType
  <2>3. QED
    BY <1>3, <2>2 DEF ResultsBounded, c, t
<1>8. QED
  BY <1>1, <1>6, <1>7 DEF ResultsBounded

-----------------------------------------------------------------------------
(* The conversation and the evidence.                                      *)

(* A turn that is over: every call has its result.                         *)
Complete(m) == CallsPaired(m) /\ (m # <<>> => Last(m).kind # "call")

DialogueInv ==
  /\ \A i \in DOMAIN dialogue : Complete(dialogue[i].messages)
  /\ CallsPaired(current.messages)
  /\ current # NoTurn => current.messages # <<>>

(* One piece of evidence for a kind, none newer than the workspace or than *)
(* what a tool has seen that has yet to answer.                            *)
EvidenceInv ==
  /\ IsFiniteSet(evidence)
  /\ \A e, f \in evidence : e.kind = f.kind => e = f
  /\ \A e \in evidence : e.content <= disk.content
  /\ reading # NoReading =>
       /\ reading.kind \in EvidenceKinds /\ reading.content <= disk.content
       /\ \A e \in evidence : e.kind = reading.kind => e.content <= reading.content
  /\ disk.version <= disk.content + 1

ContextInv == ContextTypeOK /\ DialogueInv /\ EvidenceInv /\ TurnBounded

(* Where calls and results stand depends on who speaks only.               *)
LEMMA AlikePaired ==
  ASSUME NEW m \in Seq(Message), NEW t, Alike(t, m), CallsPaired(m)
  PROVE  CallsPaired(t)
<1>1. t \in Seq(Message) /\ Len(t) = Len(m) /\ DOMAIN t = 1..Len(m) /\ DOMAIN m = 1..Len(m)
  BY DEF Alike
<1>2. \A i \in 1..Len(m) : t[i].kind = m[i].kind
  BY DEF Alike
<1>3. ASSUME NEW i \in DOMAIN t, t[i].kind = "result" PROVE i > 1 /\ t[i - 1].kind = "call"
  BY <1>1, <1>2, <1>3 DEF CallsPaired
<1>4. ASSUME NEW i \in DOMAIN t, t[i].kind = "call", i < Len(t) PROVE t[i + 1].kind = "result"
  BY <1>1, <1>2, <1>4 DEF CallsPaired
<1>5. QED
  BY <1>3, <1>4 DEF CallsPaired

(* Two sequences one after the other.                                      *)
LEMMA Joined ==
  ASSUME NEW m \in Seq(Message), NEW t \in Seq(Message)
  PROVE  /\ m \o t \in Seq(Message) /\ Len(m \o t) = Len(m) + Len(t)
         /\ Len(m) \in Nat /\ Len(t) \in Nat
         /\ \A i \in 1..Len(m) : (m \o t)[i] = m[i]
         /\ \A i \in 1..Len(t) : (m \o t)[Len(m) + i] = t[i]
         /\ \A i \in 1..(Len(m) + Len(t)) : i \in 1..Len(m) \/ i - Len(m) \in 1..Len(t)
OBVIOUS

(* What follows a turn that is over is paired if it is by itself.          *)
LEMMA JoinedPaired ==
  ASSUME NEW m \in Seq(Message), NEW t \in Seq(Message), Complete(m), CallsPaired(t)
  PROVE  CallsPaired(m \o t) /\ (Complete(t) => Complete(m \o t))
<1> DEFINE u == m \o t
<1>1. /\ u \in Seq(Message) /\ Len(u) = Len(m) + Len(t)
      /\ Len(m) \in Nat /\ Len(t) \in Nat
      /\ \A i \in 1..Len(m) : u[i] = m[i]
      /\ \A i \in 1..Len(t) : u[Len(m) + i] = t[i]
      /\ \A i \in 1..(Len(m) + Len(t)) : i \in 1..Len(m) \/ i - Len(m) \in 1..Len(t)
  BY Joined
<1>2. \A i \in 1..Len(m) : (i = Len(m) => m[i].kind # "call")
  BY DEF Complete, Last
<1> HIDE DEF u
<1>3. ASSUME NEW i \in DOMAIN u, u[i].kind = "result" PROVE i > 1 /\ u[i - 1].kind = "call"
  <2>1. CASE i \in 1..Len(m)
    <3>1. m[i].kind = "result"
      BY <1>1, <1>3, <2>1
    <3>2. i > 1 /\ m[i - 1].kind = "call"
      BY <2>1, <3>1 DEF Complete, CallsPaired
    <3>3. i - 1 \in 1..Len(m)
      BY <1>1, <2>1, <3>2
    <3>4. QED
      BY <1>1, <3>2, <3>3
  <2>2. CASE i - Len(m) \in 1..Len(t)
    <3> DEFINE j == i - Len(m)
    <3>1. i = Len(m) + j /\ j \in 1..Len(t)
      BY <1>1, <2>2
    <3> HIDE DEF j
    <3>2. t[j].kind = "result"
      BY <1>1, <1>3, <3>1
    <3>3. j > 1 /\ t[j - 1].kind = "call"
      <4>1. j \in DOMAIN t
        BY <3>1
      <4>2. QED
        BY <3>2, <4>1 DEF CallsPaired
    <3>4. j - 1 \in 1..Len(t) /\ i - 1 = Len(m) + (j - 1) /\ i > 1
      BY <1>1, <3>1, <3>3
    <3>5. QED
      BY <1>1, <3>3, <3>4
  <2>3. QED
    BY <1>1, <2>1, <2>2
<1>4. ASSUME NEW i \in DOMAIN u, u[i].kind = "call", i < Len(u) PROVE u[i + 1].kind = "result"
  <2>1. CASE i \in 1..Len(m)
    <3>1. m[i].kind = "call" /\ i # Len(m)
      BY <1>1, <1>2, <1>4, <2>1
    <3>2. i + 1 \in 1..Len(m)
      BY <1>1, <2>1, <3>1
    <3>3. m[i + 1].kind = "result"
      BY <1>1, <2>1, <3>1, <3>2 DEF Complete, CallsPaired
    <3>4. QED
      BY <1>1, <3>2, <3>3
  <2>2. CASE i - Len(m) \in 1..Len(t)
    <3> DEFINE j == i - Len(m)
    <3>1. i = Len(m) + j /\ j \in 1..Len(t) /\ j < Len(t)
      BY <1>1, <1>4, <2>2
    <3> HIDE DEF j
    <3>2. t[j].kind = "call"
      BY <1>1, <1>4, <3>1
    <3>3. t[j + 1].kind = "result"
      BY <3>1, <3>2 DEF CallsPaired
    <3>4. j + 1 \in 1..Len(t) /\ i + 1 = Len(m) + (j + 1)
      BY <1>1, <3>1
    <3>5. QED
      BY <1>1, <3>3, <3>4
  <2>3. QED
    BY <1>1, <2>1, <2>2
<1>5. CallsPaired(u)
  BY <1>3, <1>4 DEF CallsPaired
<1>6. ASSUME Complete(t), u # <<>> PROVE Last(u).kind # "call"
  <2>1. CASE Len(t) = 0
    <3>1. Len(m) # 0 /\ Len(u) = Len(m) /\ Len(m) \in 1..Len(m)
      BY <1>1, <1>6, <2>1
    <3>2. QED
      BY <1>1, <1>2, <3>1 DEF Last
  <2>2. CASE Len(t) # 0
    <3>1. Len(t) \in 1..Len(t) /\ t # <<>>
      BY <1>1, <2>2
    <3>2. u[Len(u)] = t[Len(t)]
      BY <1>1, <3>1
    <3>3. QED
      BY <1>6, <3>1, <3>2 DEF Complete, Last
  <2>3. QED
    BY <2>1, <2>2
<1>7. QED
  BY <1>5, <1>6 DEF Complete, u

(* A sequence of one or two messages by which nothing is called.           *)
LEMMA ShortComplete ==
  ASSUME NEW k \in {"user", "say", "think"}, NEW n \in Nat
  PROVE  /\ <<Msg(k, n)>> \in Seq(Message) /\ Complete(<<Msg(k, n)>>)
         /\ <<>> \in Seq(Message) /\ Complete(<<>>)
         /\ <<Msg("say", 1), Msg(k, n)>> \in Seq(Message)
         /\ Complete(<<Msg("say", 1), Msg(k, n)>>)
<1>1. /\ Msg(k, n) \in Message /\ Msg(k, n).kind = k
      /\ Msg("say", 1) \in Message /\ Msg("say", 1).kind = "say"
  BY MsgType DEF Speakers
<1> DEFINE a == Msg(k, n)
           b == Msg("say", 1)
<1> HIDE DEF a, b
<1>2. a \in Message /\ a.kind = k /\ b \in Message /\ b.kind = "say"
  BY <1>1 DEF a, b
<1>3. <<a>> \in Seq(Message) /\ Complete(<<a>>)
  BY <1>2 DEF Complete, CallsPaired, Last
<1>4. <<>> \in Seq(Message) /\ Complete(<<>>)
  BY DEF Complete, CallsPaired
<1>5. <<b, a>> \in Seq(Message) /\ Complete(<<b, a>>)
  BY <1>2 DEF Complete, CallsPaired, Last
<1>6. QED
  BY <1>3, <1>4, <1>5 DEF a, b

(* A set of numbers has a least.                                           *)
LEMMA HasLeast ==
  ASSUME NEW S \in SUBSET Nat, S # {}
  PROVE  \E n \in S : \A m \in S : n <= m
<1> DEFINE R == {ss \in Nat \X Nat : ss[1] < ss[2]}
<1>1. IsWellFoundedOn(R, Nat)
  BY NatLessThanWellFounded DEF OpToRel
<1> HIDE DEF R
<1>2. PICK n \in S : \A m \in S : ~(<<m, n>> \in R)
  BY <1>1, WFMin
<1>3. \A m \in S : ~(m < n)
  BY <1>2 DEF R
<1>4. QED
  BY <1>3

(* How many turns maybe_compact_history takes.                             *)
LEMMA ToCompactOf ==
  ASSUME dialogue \in Seq(Turn)
  PROVE  ToCompact \in 0..Len(dialogue)
<1> DEFINE Enough(n) ==
             /\ n >= 2
             /\ Sum([i \in 1..n |-> Tokens(dialogue[i].messages)]) >= (Window * 30) \div 100
           enough == {n \in 1..Len(dialogue) : Enough(n)}
           least == CHOOSE n \in enough : \A m \in enough : n <= m
<1>1. Len(dialogue) \in Nat
  OBVIOUS
<1>2. ToCompact = IF enough = {} THEN Len(dialogue) ELSE least
  BY DEF ToCompact
<1>3. enough \subseteq 1..Len(dialogue)
  OBVIOUS
<1> HIDE DEF enough
<1>4. enough # {} => least \in enough
  <2>1. enough \in SUBSET Nat
    BY <1>3
  <2>2. QED
    BY <2>1, HasLeast
<1> HIDE DEF least
<1>5. CASE enough = {}
  <2>1. ToCompact = Len(dialogue)
    BY <1>2, <1>5
  <2>2. QED
    BY <1>1, <2>1
<1>6. CASE enough # {}
  <2>1. ToCompact = least /\ least \in 1..Len(dialogue)
    BY <1>2, <1>3, <1>4, <1>6
  <2>2. QED
    BY <1>1, <2>1
<1>7. QED
  BY <1>5, <1>6

(* A compacted conversation is one.                                        *)
LEMMA CompactedOf ==
  ASSUME dialogue \in Seq(Turn), NEW n \in 0..Len(dialogue),
         \A i \in DOMAIN dialogue : Complete(dialogue[i].messages)
  PROVE  /\ Compacted(n) \in Seq(Turn)
         /\ \A i \in DOMAIN Compacted(n) : Complete(Compacted(n)[i].messages)
<1>1. Summary \in Turn /\ Complete(Summary.messages)
  BY ShortComplete, ConstantsType DEF Summary, Turn
<1> DEFINE rest == SubSeq(dialogue, n + 1, Len(dialogue))
<1>2. rest \in Seq(Turn) /\ Len(rest) = Len(dialogue) - n
      /\ \A i \in 1..Len(rest) : rest[i] = dialogue[n + i] /\ n + i \in 1..Len(dialogue)
  OBVIOUS
<1> HIDE DEF rest
<1> DEFINE c == <<Summary>> \o rest
<1>3. /\ c \in Seq(Turn) /\ c[1] = Summary /\ Len(c) = 1 + Len(rest) /\ Len(rest) \in Nat
      /\ \A i \in 1..Len(rest) : c[1 + i] = rest[i]
  BY <1>1, <1>2
<1> HIDE DEF c
<1>4. ASSUME NEW i \in DOMAIN c PROVE Complete(c[i].messages)
  <2>1. CASE i = 1
    BY <1>1, <1>3, <2>1
  <2>2. CASE i # 1
    <3>1. PICK j \in 1..Len(rest) : i = 1 + j
      <4>1. i - 1 \in 1..Len(rest) /\ i = 1 + (i - 1)
        BY <1>3, <2>2
      <4>2. QED
        BY <4>1
    <3>2. c[i] = rest[j]
      BY <1>3, <3>1
    <3>3. c[i] = dialogue[n + j] /\ n + j \in DOMAIN dialogue
      BY <1>2, <3>1, <3>2
    <3>4. QED
      BY <3>3
  <2>3. QED
    BY <2>1, <2>2
<1>5. QED
  BY <1>3, <1>4 DEF Compacted, c, rest

(* Types.                                                                  *)
LEMMA TurnType ==
  /\ \A refers \in BOOLEAN : /\ NewTurn(refers) \in Turn /\ NewTurn(refers) # NoTurn
                             /\ NewTurn(refers).messages = <<Msg("user", 1)>>
                             /\ Complete(NewTurn(refers).messages)
                             /\ NewTurn(refers).messages # <<>>
  /\ NoTurn \in Turn /\ NoTurn.messages = <<>> /\ CallsPaired(NoTurn.messages)
  /\ \A t \in Turn : t.messages \in Seq(Message) /\ t.refers \in BOOLEAN
  /\ \A t \in Turn : \A m \in Seq(Message) :
       [t EXCEPT !.messages = m] \in Turn /\ [t EXCEPT !.messages = m].messages = m
<1>1. \A refers \in BOOLEAN :
        /\ NewTurn(refers) \in Turn
        /\ NewTurn(refers).messages = <<Msg("user", 1)>>
        /\ Complete(NewTurn(refers).messages)
        /\ NewTurn(refers).messages # <<>>
  BY ShortComplete DEF NewTurn, Turn
<1>2. NoTurn \in Turn /\ NoTurn.messages = <<>> /\ CallsPaired(NoTurn.messages)
  BY DEF NoTurn, Turn, CallsPaired
<1>3. \A refers \in BOOLEAN : NewTurn(refers) # NoTurn
  BY <1>1, <1>2
<1>4. \A t \in Turn : t.messages \in Seq(Message) /\ t.refers \in BOOLEAN
  BY DEF Turn
<1>5. ASSUME NEW t \in Turn, NEW m \in Seq(Message)
      PROVE  [t EXCEPT !.messages = m] \in Turn /\ [t EXCEPT !.messages = m].messages = m
  BY DEF Turn
<1>6. QED
  BY <1>1, <1>2, <1>3, <1>4, <1>5

DialogueTypes == dialogue \in Seq(Turn) /\ current \in Turn
EvidenceTypes ==
  /\ evidence \subseteq Evidence
  /\ reading \in [kind : EvidenceKinds \cup {"none"}, content : 0..MaxEdits]
  /\ disk \in [content : 0..MaxEdits, version : Version \ {0}]

LEMMA ContextInitInv == ContextInit => ContextInv
<1> SUFFICES ASSUME ContextInit PROVE ContextInv
  OBVIOUS
<1>1. ContextTypeOK
  BY TurnType, ConstantsType DEF ContextInit, ContextTypeOK, NoReading, Version
<1>2. DialogueInv
  BY TurnType DEF ContextInit, DialogueInv
<1>3. EvidenceInv
  BY FS_EmptySet DEF ContextInit, EvidenceInv, NoReading
<1>4. TurnBounded
  BY TurnType DEF ContextInit, TurnBounded, Results
<1>5. QED
  BY <1>1, <1>2, <1>3, <1>4 DEF ContextInv

(* The turn as it goes on: what is appended to it.                         *)
LEMMA TurnGoesOn ==
  ASSUME NEW m \in Seq(Message), m # <<>>, CallsPaired(m)
  PROVE  /\ Last(m).kind # "call" =>
              LET t == Append(m, Msg("call", 2))
              IN  t \in Seq(Message) /\ CallsPaired(t) /\ t # <<>> /\ Last(t).kind = "call"
         /\ \A n \in Nat : Last(m).kind = "call" =>
              LET t == Append(m, Msg("result", n))
              IN  t \in Seq(Message) /\ CallsPaired(t) /\ t # <<>>
<1> DEFINE n == Len(m)
<1>1. n \in Nat /\ n >= 1 /\ n \in 1..n
  OBVIOUS
<1>2. ASSUME NEW x \in Message
      PROVE  LET t == Append(m, x)
             IN  /\ t \in Seq(Message) /\ Len(t) = n + 1 /\ t[n + 1] = x
                 /\ \A i \in 1..n : t[i] = m[i]
  OBVIOUS
<1>3. ASSUME NEW x \in Message, NEW t \in Seq(Message), Len(t) = n + 1, t[n + 1] = x,
             \A i \in 1..n : t[i] = m[i],
             x.kind = "result" <=> m[n].kind = "call"
      PROVE  CallsPaired(t) /\ t # <<>> /\ Last(t) = x
  <2>1. ASSUME NEW i \in DOMAIN t, t[i].kind = "result" PROVE i > 1 /\ t[i - 1].kind = "call"
    <3>1. CASE i = n + 1
      BY <1>1, <1>3, <2>1, <3>1
    <3>2. CASE i # n + 1
      <4>1. i \in 1..n /\ m[i].kind = "result"
        BY <1>1, <1>3, <2>1, <3>2
      <4>2. i > 1 /\ m[i - 1].kind = "call"
        BY <4>1 DEF CallsPaired
      <4>3. i - 1 \in 1..n
        BY <4>1, <4>2
      <4>4. QED
        BY <1>3, <4>2, <4>3
    <3>3. QED
      BY <3>1, <3>2
  <2>2. ASSUME NEW i \in DOMAIN t, t[i].kind = "call", i < Len(t)
        PROVE  t[i + 1].kind = "result"
    <3>1. i \in 1..n /\ m[i].kind = "call"
      BY <1>1, <1>3, <2>2
    <3>2. CASE i = n
      BY <1>3, <3>1, <3>2
    <3>3. CASE i # n
      <4>1. m[i + 1].kind = "result" /\ i + 1 \in 1..n
        BY <1>1, <3>1, <3>3 DEF CallsPaired
      <4>2. QED
        BY <1>3, <4>1
    <3>4. QED
      BY <3>2, <3>3
  <2>3. t # <<>> /\ Last(t) = x
    BY <1>1, <1>3 DEF Last
  <2>4. QED
    BY <2>1, <2>2, <2>3 DEF CallsPaired
<1>4. ASSUME Last(m).kind # "call"
      PROVE  LET t == Append(m, Msg("call", 2))
             IN  t \in Seq(Message) /\ CallsPaired(t) /\ t # <<>> /\ Last(t).kind = "call"
  <2>1. Msg("call", 2) \in Message /\ Msg("call", 2).kind = "call" /\ m[n].kind # "call"
    BY <1>4, MsgType DEF Speakers, Last
  <2>2. QED
    BY <1>2, <1>3, <2>1
<1>5. ASSUME NEW l \in Nat, Last(m).kind = "call"
      PROVE  LET t == Append(m, Msg("result", l))
             IN  t \in Seq(Message) /\ CallsPaired(t) /\ t # <<>>
  <2>1. Msg("result", l) \in Message /\ Msg("result", l).kind = "result" /\ m[n].kind = "call"
    BY <1>5, MsgType DEF Speakers, Last
  <2>2. QED
    BY <1>2, <1>3, <2>1
<1>6. QED
  BY <1>4, <1>5

(* end_turn: a turn that is over is remembered.                            *)
LEMMA Remembered ==
  ASSUME DialogueTypes, DialogueInv, NEW t \in Turn, Complete(t.messages)
  PROVE  /\ Append(dialogue, t) \in Seq(Turn)
         /\ \A i \in DOMAIN Append(dialogue, t) : Complete(Append(dialogue, t)[i].messages)
<1>1. dialogue \in Seq(Turn)
  BY DEF DialogueTypes
<1> DEFINE d == Append(dialogue, t)
<1>2. /\ d \in Seq(Turn) /\ Len(d) = Len(dialogue) + 1 /\ d[Len(dialogue) + 1] = t
      /\ Len(dialogue) \in Nat /\ \A i \in 1..Len(dialogue) : d[i] = dialogue[i]
  BY <1>1
<1> HIDE DEF d
<1>3. ASSUME NEW i \in DOMAIN d PROVE Complete(d[i].messages)
  <2>1. CASE i = Len(dialogue) + 1
    BY <1>2, <2>1
  <2>2. CASE i # Len(dialogue) + 1
    <3>1. i \in 1..Len(dialogue) /\ d[i] = dialogue[i]
      BY <1>2, <2>2
    <3>2. QED
      BY <1>1, <3>1 DEF DialogueInv
  <2>3. QED
    BY <2>1, <2>2
<1>4. QED
  BY <1>2, <1>3 DEF d

(* A turn with m recorded, when m does not end with a result.              *)
QuietTurn(t) == t.messages # <<>> => Last(t.messages).kind # "result"

LEMMA QuietBounded ==
  ASSUME NEW t \in Turn, QuietTurn(t)
  PROVE  Results(t.messages) # {} /\ Last(t.messages).kind = "result" =>
           ResultsBounded(t.messages)
BY TurnType DEF QuietTurn, Results

(* Every step keeps the conversation as it should be.                      *)
LEMMA DialogueStep ==
  ASSUME DialogueTypes, DialogueInv, TurnBounded, [ContextNext]_contextVars
  PROVE  DialogueTypes' /\ DialogueInv' /\ TurnBounded'
<1> USE DEF DialogueTypes
<1>1. /\ dialogue \in Seq(Turn) /\ current \in Turn /\ current.messages \in Seq(Message)
      /\ Len(dialogue) \in Nat
  BY TurnType
<1>2. \A m \in Seq(Message) : m # <<>> =>
        LET t == [current EXCEPT !.messages = m]
        IN  t \in Turn /\ t.messages = m /\ t # NoTurn
  BY <1>1, TurnType
<1>3. ASSUME UNCHANGED <<dialogue, current>>
      PROVE  DialogueTypes' /\ DialogueInv' /\ TurnBounded'
  BY <1>1, <1>3 DEF DialogueInv, TurnBounded, Complete, CallsPaired, Results, ResultTokens, Last
<1>4. ASSUME NEW t \in Turn, current' = t, t # NoTurn => t.messages # <<>>,
             CallsPaired(t.messages),
             Results(t.messages) # {} /\ Last(t.messages).kind = "result" =>
               ResultsBounded(t.messages),
             dialogue' \in Seq(Turn),
             \A i \in DOMAIN dialogue' : Complete(dialogue'[i].messages)
      PROVE  DialogueTypes' /\ DialogueInv' /\ TurnBounded'
  <2>1. DialogueTypes'
    BY <1>4
  <2>2. DialogueInv'
    BY <1>4 DEF DialogueInv, NoTurn
  <2>3. TurnBounded'
    BY <1>4 DEF TurnBounded, ResultsBounded
  <2>4. QED
    BY <2>1, <2>2, <2>3
<1>5. ASSUME NEW refers \in BOOLEAN, StartTurn(refers)
      PROVE  DialogueTypes' /\ DialogueInv' /\ TurnBounded'
  <2> DEFINE t == NewTurn(refers)
  <2>1. /\ t \in Turn /\ current' = t /\ t.messages # <<>> /\ CallsPaired(t.messages)
        /\ t.messages = <<Msg("user", 1)>>
    BY <1>5, TurnType DEF StartTurn, Complete
  <2>2. QuietTurn(t)
    BY <2>1, MsgType DEF QuietTurn, Last, Speakers
  <2>3. dialogue' = dialogue \/ dialogue' = Compacted(ToCompact)
    BY <1>5 DEF StartTurn
  <2>4. ToCompact \in 0..Len(dialogue)
    BY <1>1, ToCompactOf
  <2>5. \A i \in DOMAIN dialogue : Complete(dialogue[i].messages)
    BY DEF DialogueInv
  <2>6. dialogue' \in Seq(Turn) /\ \A i \in DOMAIN dialogue' : Complete(dialogue'[i].messages)
    BY <1>1, <2>3, <2>4, <2>5, CompactedOf
  <2> HIDE DEF t
  <2>7. QED
    BY <1>4, <2>1, <2>2, <2>6, QuietBounded
<1>6. ASSUME NEW refers \in BOOLEAN, StopAtOnce(refers)
      PROVE  DialogueTypes' /\ DialogueInv' /\ TurnBounded'
  <2>1. current' = NoTurn /\ dialogue' = Append(dialogue, NewTurn(refers))
    BY <1>6 DEF StopAtOnce
  <2>2. dialogue' \in Seq(Turn) /\ \A i \in DOMAIN dialogue' : Complete(dialogue'[i].messages)
    BY <2>1, TurnType, Remembered
  <2>3. QuietTurn(NoTurn) /\ CallsPaired(NoTurn.messages) /\ NoTurn \in Turn
    BY TurnType DEF QuietTurn
  <2>4. QED
    BY <1>4, <2>1, <2>2, <2>3, QuietBounded
<1>7. ASSUME Audit PROVE DialogueTypes' /\ DialogueInv' /\ TurnBounded'
  <2>1. /\ current # NoTurn /\ Last(current.messages).kind # "call"
        /\ Len(dialogue) > Keep /\ dialogue' = Compacted(Len(dialogue) - Keep)
        /\ current' = current
    BY <1>7 DEF Audit
  <2>2. Len(dialogue) - Keep \in 0..Len(dialogue)
    BY <1>1, <2>1, ConstantsType
  <2>3. dialogue' \in Seq(Turn) /\ \A i \in DOMAIN dialogue' : Complete(dialogue'[i].messages)
    BY <1>1, <2>1, <2>2, CompactedOf DEF DialogueInv
  <2>4. QED
    BY <1>1, <1>4, <2>1, <2>3 DEF DialogueInv, TurnBounded, ResultsBounded
<1>8. ASSUME Call PROVE DialogueTypes' /\ DialogueInv' /\ TurnBounded'
  <2> DEFINE m == Append(current.messages, Msg("call", 2))
             t == [current EXCEPT !.messages = m]
  <2>1. /\ current # NoTurn /\ Last(current.messages).kind # "call"
        /\ current' = t /\ dialogue' = dialogue
    BY <1>8 DEF Call, Open
  <2>2. m \in Seq(Message) /\ CallsPaired(m) /\ m # <<>> /\ Last(m).kind = "call"
    BY <1>1, <2>1, TurnGoesOn DEF DialogueInv
  <2>3. t \in Turn /\ t.messages = m
    BY <1>2, <2>2
  <2> HIDE DEF m, t
  <2>4. QuietTurn(t)
    BY <2>2, <2>3 DEF QuietTurn
  <2>5. QED
    BY <1>1, <1>4, <2>1, <2>2, <2>3, <2>4, QuietBounded DEF DialogueInv
<1>9. ASSUME Deny PROVE DialogueTypes' /\ DialogueInv' /\ TurnBounded'
  <2> DEFINE s == <<Msg("say", 1), Msg("user", 1)>>
             m == current.messages \o s
             t == [current EXCEPT !.messages = m]
  <2>1. /\ current # NoTurn /\ Last(current.messages).kind # "call"
        /\ current' = t /\ dialogue' = dialogue
    BY <1>9 DEF Deny, Open
  <2>2. s \in Seq(Message) /\ Complete(s) /\ Len(s) = 2 /\ s[2] = Msg("user", 1)
    BY ShortComplete
  <2>3. Complete(current.messages)
    BY <2>1 DEF Complete, DialogueInv
  <2> HIDE DEF s
  <2>4. m \in Seq(Message) /\ CallsPaired(m)
    BY <1>1, <2>2, <2>3, JoinedPaired DEF Complete
  <2>5. m # <<>> /\ Last(m) = Msg("user", 1)
    <3>1. Len(m) = Len(current.messages) + 2 /\ Len(current.messages) \in Nat
          /\ m[Len(current.messages) + 2] = s[2]
      BY <1>1, <2>2, Joined
    <3> HIDE DEF m
    <3>2. QED
      BY <2>2, <2>4, <3>1 DEF Last
  <2>6. t \in Turn /\ t.messages = m
    BY <1>2, <2>4, <2>5
  <2> HIDE DEF m, t
  <2>7. QuietTurn(t)
    BY <2>5, <2>6, MsgType DEF QuietTurn, Speakers
  <2>8. QED
    BY <1>1, <1>4, <2>1, <2>4, <2>5, <2>6, <2>7, QuietBounded DEF DialogueInv
<1>10. ASSUME NEW size \in Sizes, Reconcile(size)
       PROVE  DialogueTypes' /\ DialogueInv' /\ TurnBounded'
  <2> DEFINE a == Append(current.messages, Msg("result", size))
             m == Truncated(Compressed(a))
             t == [current EXCEPT !.messages = m]
  <2>1. /\ current # NoTurn /\ Last(current.messages).kind = "call"
        /\ current' = t /\ dialogue' = dialogue /\ size \in Nat
    BY <1>10, ContextAssumption DEF Reconcile, Running
  <2>2. a \in Seq(Message) /\ CallsPaired(a) /\ a # <<>>
    BY <1>1, <2>1, TurnGoesOn DEF DialogueInv
  <2> HIDE DEF a
  <2>3. Alike(m, a) /\ ResultsBounded(m)
    BY <2>2, RoundBounded
  <2>4. m \in Seq(Message) /\ CallsPaired(m) /\ m # <<>>
    <3> HIDE DEF m
    <3>1. CallsPaired(m) /\ Len(m) = Len(a) /\ m \in Seq(Message)
      BY <2>2, <2>3, AlikePaired DEF Alike
    <3>2. QED
      BY <2>2, <3>1
  <2>5. t \in Turn /\ t.messages = m
    BY <1>2, <2>4
  <2> HIDE DEF m, t
  <2>6. QED
    BY <1>1, <1>4, <2>1, <2>3, <2>4, <2>5 DEF DialogueInv
<1>11. ASSUME NEW s \in Seq(Message), Open, EndTurn(s), Complete(s)
       PROVE  DialogueTypes' /\ DialogueInv' /\ TurnBounded'
  <2> DEFINE m == current.messages \o s
             t == [current EXCEPT !.messages = m]
  <2>1. /\ current # NoTurn /\ Last(current.messages).kind # "call"
        /\ current' = NoTurn /\ dialogue' = Append(dialogue, t)
    BY <1>11 DEF EndTurn, Open
  <2>2. Complete(current.messages)
    BY <2>1 DEF Complete, DialogueInv
  <2>3. m \in Seq(Message) /\ Complete(m)
    BY <1>1, <1>11, <2>2, JoinedPaired DEF Complete
  <2>4. t \in Turn /\ t.messages = m
    <3> HIDE DEF m
    <3>1. QED
      BY <1>1, <2>3, TurnType
  <2> HIDE DEF m, t
  <2>5. dialogue' \in Seq(Turn) /\ \A i \in DOMAIN dialogue' : Complete(dialogue'[i].messages)
    BY <2>1, <2>3, <2>4, Remembered
  <2>6. QuietTurn(NoTurn) /\ CallsPaired(NoTurn.messages) /\ NoTurn \in Turn
    BY TurnType DEF QuietTurn
  <2>7. QED
    BY <1>4, <2>1, <2>5, <2>6, QuietBounded
<1>12. ASSUME Finish \/ Stop PROVE DialogueTypes' /\ DialogueInv' /\ TurnBounded'
  <2>1. PICK s \in Seq(Message) : Open /\ EndTurn(s) /\ Complete(s)
    BY <1>12, ShortComplete DEF Finish, Stop
  <2>2. QED
    BY <1>11, <2>1
<1>13. ASSUME \/ ReadFile \/ RunCommand \/ Fail \/ WriteFile \/ PatchFile \/ Edit
              \/ \E size \in Sizes : Register(size)
       PROVE  UNCHANGED <<dialogue, current>>
  BY <1>13 DEF ReadFile, RunCommand, Look, Fail, WriteFile, PatchFile, Changes, Edit, Register
<1>14. QED
  BY <1>3, <1>5, <1>6, <1>7, <1>8, <1>9, <1>10, <1>12, <1>13 DEF ContextNext, contextVars

(* What a write does to a piece of evidence.                               *)
Outdated(e) == IF e.kind = "diagnostic" THEN [e EXCEPT !.version = MaxEdits + 2] ELSE e

LEMMA OutdatedType ==
  ASSUME NEW e \in Evidence
  PROVE  Outdated(e) \in Evidence /\ Outdated(e).kind = e.kind /\ Outdated(e).content = e.content
<1>1. PICK n \in Version : n = MaxEdits + 2
  BY ConstantsType DEF Version
<1> DEFINE t == [e EXCEPT !.version = n]
<1>2. t \in Evidence /\ t.kind = e.kind /\ t.content = e.content
  BY DEF Evidence
<1>3. Outdated(e) = IF e.kind = "diagnostic" THEN t ELSE e
  BY <1>1 DEF Outdated
<1> HIDE DEF t
<1>4. QED
  BY <1>2, <1>3

(* What the evidence may become in a step, whoever takes it.               *)
Registers(size) ==
  /\ reading # NoReading
  /\ evidence' = {e \in evidence : e.kind # reading.kind} \cup {Seen(size)}
  /\ reading' = NoReading /\ UNCHANGED disk
Edits == disk.content < MaxEdits /\ \E seen \in BOOLEAN : Changed(seen)
Writes ==
  /\ reading = NoReading /\ UNCHANGED reading
  /\ evidence' = {Outdated(e) : e \in evidence}
  /\ Edits
Looks ==
  /\ reading = NoReading
  /\ \E kind \in EvidenceKinds : reading' = [kind |-> kind, content |-> disk.content]
  /\ UNCHANGED <<evidence, disk>>

LEMMA EvidenceMoves ==
  ASSUME [ContextNext]_contextVars
  PROVE  \/ UNCHANGED <<evidence, disk>> /\ reading' \in {reading, NoReading}
         \/ Looks \/ Writes
         \/ \E size \in Sizes : Registers(size)
         \/ Edits /\ UNCHANGED <<evidence, reading>>
<1>1. CASE \/ \E refers \in BOOLEAN : StartTurn(refers) \/ StopAtOnce(refers)
           \/ Audit \/ Call \/ Deny \/ Fail \/ Finish \/ Stop \/ UNCHANGED contextVars
           \/ \E size \in Sizes : Reconcile(size)
  BY <1>1 DEF StartTurn, StopAtOnce, Audit, Call, Deny, Fail, Finish, Stop, EndTurn, Reconcile,
              contextVars
<1>2. CASE ReadFile \/ RunCommand
  BY <1>2, ContextAssumption DEF ReadFile, RunCommand, Look, Running, Looks, EvidenceKinds
<1>3. CASE \E size \in Sizes : Register(size)
  BY <1>3 DEF Register, Registers
<1>4. CASE WriteFile \/ PatchFile
  <2>1. Invalidated = {Outdated(e) : e \in evidence}
    BY DEF Invalidated, Outdated
  <2>2. QED
    BY <1>4, <2>1 DEF WriteFile, PatchFile, Changes, Running, Writes, Edits
<1>5. CASE Edit
  BY <1>5 DEF Edit, Edits
<1>6. QED
  BY <1>1, <1>2, <1>3, <1>4, <1>5 DEF ContextNext

(* Every step keeps the evidence as it should be.                          *)
LEMMA EvidenceStep ==
  ASSUME EvidenceTypes, EvidenceInv, [ContextNext]_contextVars
  PROVE  EvidenceTypes' /\ EvidenceInv'
<1>1. /\ disk.content \in 0..MaxEdits /\ disk.version \in Version /\ disk.version # 0
      /\ MaxEdits \in Nat /\ disk.content \in Nat /\ disk.version \in Nat
      /\ NoReading \in [kind : EvidenceKinds \cup {"none"}, content : 0..MaxEdits]
      /\ reading.content \in 0..MaxEdits
  BY ConstantsType DEF EvidenceTypes, Version, NoReading
<1>2. \A e \in evidence : e \in Evidence /\ e.content \in 0..MaxEdits
  BY DEF EvidenceTypes, Evidence
<1>3. CASE UNCHANGED <<evidence, disk>> /\ reading' \in {reading, NoReading}
  BY <1>1, <1>3 DEF EvidenceTypes, EvidenceInv
<1>4. CASE Looks
  <2>1. PICK kind \in EvidenceKinds : reading' = [kind |-> kind, content |-> disk.content]
    BY <1>4 DEF Looks
  <2>2. evidence' = evidence /\ disk' = disk /\ reading'.kind = kind
        /\ reading'.content = disk.content
    BY <1>4, <2>1 DEF Looks
  <2>3. reading' \in [kind : EvidenceKinds \cup {"none"}, content : 0..MaxEdits]
    BY <1>1, <2>1
  <2>4. QED
    BY <1>1, <1>2, <2>2, <2>3 DEF EvidenceTypes, EvidenceInv
<1>5. ASSUME Edits
      PROVE  /\ disk' \in [content : 0..MaxEdits, version : Version \ {0}]
             /\ disk'.content = disk.content + 1 /\ disk'.version <= disk'.content + 1
  <2>1. PICK n \in Nat : disk' = [content |-> disk.content + 1, version |-> n]
                         /\ (n = disk.version \/ n = disk.version + 1)
    BY <1>1, <1>5 DEF Edits, Changed
  <2>2. disk.content < MaxEdits /\ disk.version <= disk.content + 1
    BY <1>5 DEF Edits, EvidenceInv
  <2>3. n <= disk.content + 2 /\ n # 0 /\ n <= MaxEdits + 2 /\ disk.content + 1 \in 0..MaxEdits
    BY <1>1, <2>1, <2>2
  <2>4. n \in Version \ {0}
    BY <1>1, <2>3 DEF Version
  <2>5. PICK l \in 0..MaxEdits : l = disk.content + 1
    BY <2>3
  <2>6. disk' = [content |-> l, version |-> n]
    BY <2>1, <2>5
  <2>7. QED
    BY <1>1, <2>3, <2>4, <2>5, <2>6
<1>6. CASE Writes
  <2>1. /\ evidence' = {Outdated(e) : e \in evidence} /\ reading' = reading
        /\ reading = NoReading
    BY <1>6 DEF Writes
  <2>2. \A e \in evidence : Outdated(e) \in Evidence /\ Outdated(e).kind = e.kind
                            /\ Outdated(e).content = e.content
    BY <1>2, OutdatedType
  <2>3. IsFiniteSet(evidence')
    <3> DEFINE h == [e \in evidence |-> Outdated(e)]
    <3>1. h \in Surjection(evidence, evidence')
      BY <2>1 DEF Surjection
    <3>2. QED
      BY <3>1, FS_Surjection DEF EvidenceInv
  <2>4. /\ disk' \in [content : 0..MaxEdits, version : Version \ {0}]
        /\ disk'.content = disk.content + 1 /\ disk'.version <= disk'.content + 1
    BY <1>5, <1>6 DEF Writes
  <2>5. evidence' \subseteq Evidence
    BY <2>1, <2>2
  <2>6. \A e, f \in evidence' : e.kind = f.kind => e = f
    BY <2>1, <2>2 DEF EvidenceInv
  <2>7. \A e \in evidence : e.content <= disk.content + 1
    BY <1>1, <1>2 DEF EvidenceInv
  <2>8. \A e \in evidence' : e.content <= disk'.content
    BY <2>1, <2>2, <2>4, <2>7
  <2>9. QED
    BY <2>1, <2>3, <2>4, <2>5, <2>6, <2>8 DEF EvidenceTypes, EvidenceInv
<1>7. ASSUME NEW size \in Sizes, Registers(size) PROVE EvidenceTypes' /\ EvidenceInv'
  <2> DEFINE s == Seen(size)
  <2>1. /\ reading # NoReading /\ reading' = NoReading /\ disk' = disk
        /\ evidence' = {e \in evidence : e.kind # reading.kind} \cup {s}
    BY <1>7 DEF Registers
  <2>2. reading.kind \in EvidenceKinds /\ reading.content <= disk.content
    BY <2>1 DEF EvidenceInv
  <2>3. CurrentVersion(reading.kind) \in Version
    BY <1>1 DEF CurrentVersion, Version
  <2>4. s \in Evidence /\ s.kind = reading.kind /\ s.content = reading.content
    BY <1>1, <2>2, <2>3, ContextAssumption DEF Seen, Evidence
  <2> HIDE DEF s
  <2>5. IsFiniteSet(evidence')
    <3>1. IsFiniteSet({e \in evidence : e.kind # reading.kind})
      BY FS_Subset DEF EvidenceInv
    <3>2. QED
      BY <2>1, <3>1, FS_AddElement
  <2>6. evidence' \subseteq Evidence
    BY <1>2, <2>1, <2>4
  <2>7. \A e, f \in evidence' : e.kind = f.kind => e = f
    BY <2>1, <2>4 DEF EvidenceInv
  <2>8. \A e \in evidence' : e.content <= disk'.content
    BY <2>1, <2>2, <2>4 DEF EvidenceInv
  <2>9. QED
    BY <1>1, <2>1, <2>5, <2>6, <2>7, <2>8 DEF EvidenceTypes, EvidenceInv
<1>8. CASE Edits /\ UNCHANGED <<evidence, reading>>
  <2>1. /\ disk' \in [content : 0..MaxEdits, version : Version \ {0}]
        /\ disk'.content = disk.content + 1 /\ disk'.version <= disk'.content + 1
    BY <1>5, <1>8
  <2>2. \A e \in evidence : e.content <= disk.content + 1
    BY <1>1, <1>2 DEF EvidenceInv
  <2>3. reading # NoReading => reading.content <= disk.content + 1
    BY <1>1 DEF EvidenceInv
  <2>4. QED
    BY <1>8, <2>1, <2>2, <2>3 DEF EvidenceTypes, EvidenceInv
<1>9. QED
  BY <1>3, <1>4, <1>6, <1>7, <1>8, EvidenceMoves

(* Type correctness, and what goes with it: a turn that is over has no     *)
(* call without its result, one that is not has at most its last without   *)
(* (end_turn, rule_based_compact, strip_response_payload); evidence is one *)
(* for a source and never newer than the workspace.                        *)
THEOREM ContextInvariant == ContextSpec => []ContextInv
<1>1. ContextInv /\ [ContextNext]_contextVars => ContextInv'
  BY DialogueStep, EvidenceStep DEF ContextInv, ContextTypeOK, DialogueTypes, EvidenceTypes
<1>2. QED
  BY ContextInitInv, <1>1, PTL DEF ContextSpec

(* After each round the turn's results are within the limit, or all but    *)
(* those of the last round are stripped (compress_current_turn).           *)
THEOREM TurnBoundedCorrect == ContextSpec => []TurnBounded
<1>1. ContextInv => TurnBounded
  BY DEF ContextInv
<1>2. QED
  BY ContextInvariant, <1>1, PTL

(* There is one piece of evidence for a source, and a step never replaces  *)
(* it by an older look (handle_successful_tool_effects).                   *)
THEOREM LatestLookCorrect == ContextSpec => LatestLook
<1> DEFINE Newer(e, f) ==
             e.kind = f.kind =>
               /\ e.content <= f.content
               /\ e.content < f.content => e \notin evidence'
           NewerOnly == \A e \in evidence, f \in evidence' : Newer(e, f)
<1>1. ContextInv /\ [ContextNext]_contextVars => NewerOnly
  <2> SUFFICES ASSUME EvidenceTypes, EvidenceInv, [ContextNext]_contextVars,
                      NEW e \in evidence, NEW f \in evidence', e.kind = f.kind
               PROVE  e.content <= f.content /\ (e.content < f.content => e \notin evidence')
    BY DEF ContextInv, ContextTypeOK, EvidenceTypes
  <2>1. \A g \in evidence : g \in Evidence /\ g.content \in Nat
    BY ConstantsType DEF EvidenceTypes, Evidence
  <2>2. CASE evidence' = evidence
    <3>1. e = f
      BY <2>2 DEF EvidenceInv
    <3>2. QED
      BY <2>1, <3>1
  <2>3. CASE Writes
    <3>1. PICK g \in evidence : f = Outdated(g)
      BY <2>3 DEF Writes
    <3>2. f.kind = g.kind /\ f.content = g.content
      BY <2>1, <3>1, OutdatedType
    <3>3. e = g
      BY <3>2 DEF EvidenceInv
    <3>4. QED
      BY <2>1, <3>2, <3>3
  <2>4. ASSUME NEW size \in Sizes, Registers(size)
        PROVE  e.content <= f.content /\ (e.content < f.content => e \notin evidence')
    <3>1. /\ evidence' = {g \in evidence : g.kind # reading.kind} \cup {Seen(size)}
          /\ Seen(size).kind = reading.kind /\ Seen(size).content = reading.content
          /\ reading # NoReading
      BY <2>4 DEF Registers, Seen
    <3>2. reading.content \in Nat
      BY ConstantsType DEF EvidenceTypes
    <3>3. CASE f = Seen(size)
      <4>1. e.content <= f.content
        BY <3>1, <3>3 DEF EvidenceInv
      <4>2. e \in evidence' => e = f
        BY <3>1, <3>3
      <4>3. QED
        BY <2>1, <3>1, <3>2, <3>3, <4>1, <4>2
    <3>4. CASE f # Seen(size)
      <4>1. f \in evidence
        BY <3>1, <3>4
      <4>2. e = f
        BY <4>1 DEF EvidenceInv
      <4>3. QED
        BY <2>1, <4>2
    <3>5. QED
      BY <3>3, <3>4
  <2>5. QED
    BY <2>2, <2>3, <2>4, EvidenceMoves DEF Looks
<1>2. NewerOnly => [NewerOnly]_contextVars
  OBVIOUS
<1>3. ContextSpec => [][NewerOnly]_contextVars
  BY ContextInvariant, <1>1, PTL DEF ContextSpec
<1>4. QED
  BY <1>3 DEF LatestLook

-----------------------------------------------------------------------------
(* The history of the prompt.                                              *)

(* A turn as it is shown: each speaker speaks where it spoke, and of a     *)
(* turn that is over every call still has its result.                      *)
LEMMA ShownOf ==
  ASSUME NEW turn \in Turn, NEW i \in Nat, NEW protected \in BOOLEAN
  PROVE  /\ Shown(turn, i, protected) \in Seq(Message)
         /\ Tokens(Shown(turn, i, protected)) \in Nat
         /\ Complete(turn.messages) => Complete(Shown(turn, i, protected))
         /\ i < Safe \/ protected =>
              \A k \in Results(turn.messages) :
                Shown(turn, i, protected)[k].size = Least(turn.messages[k].size, Clip)
<1> DEFINE m == turn.messages
           s == Shown(turn, i, protected)
<1>1. m \in Seq(Message) /\ DOMAIN m = 1..Len(m) /\ Len(m) \in Nat
  BY TurnType
<1>2. \A k \in 1..Len(m) : m[k] \in Message
  BY <1>1
<1>3. s = [k \in 1..Len(m) |-> IF i >= Safe /\ ~protected THEN Reconstructed(m[k]) ELSE CutOld(m[k])]
  BY <1>1 DEF Shown
<1> HIDE DEF s, m
<1>4. ASSUME NEW k \in 1..Len(m)
      PROVE  /\ s[k] \in Message
             /\ s[k].kind = "call" <=> m[k].kind = "call"
             /\ s[k].kind = "result" <=> m[k].kind = "result"
  <2>1. m[k] \in Message
    BY <1>2
  <2>2. CASE i >= Safe /\ ~protected
    <3>1. s[k] = Reconstructed(m[k])
      BY <1>3, <2>2
    <3>2. QED
      BY <2>1, <3>1, ReconstructedOf
  <2>3. CASE ~(i >= Safe /\ ~protected)
    <3>1. s[k] = CutOld(m[k])
      BY <1>3, <2>3
    <3>2. QED
      BY <2>1, <3>1, CutOldOf
  <2>4. QED
    BY <2>2, <2>3
<1>5. s \in Seq(Message) /\ Len(s) = Len(m) /\ DOMAIN s = 1..Len(m)
  BY <1>1, <1>3, <1>4
<1>6. ASSUME Complete(m) PROVE Complete(s)
  <2>1. ASSUME NEW k \in DOMAIN s, s[k].kind = "result" PROVE k > 1 /\ s[k - 1].kind = "call"
    <3>1. k \in DOMAIN m /\ m[k].kind = "result"
      BY <1>1, <1>4, <1>5, <2>1
    <3>2. k > 1 /\ m[k - 1].kind = "call"
      BY <1>6, <3>1 DEF Complete, CallsPaired
    <3>3. k - 1 \in 1..Len(m)
      BY <1>1, <3>1, <3>2
    <3>4. QED
      BY <1>4, <3>2, <3>3
  <2>2. ASSUME NEW k \in DOMAIN s, s[k].kind = "call", k < Len(s) PROVE s[k + 1].kind = "result"
    <3>1. k \in DOMAIN m /\ m[k].kind = "call" /\ k < Len(m)
      BY <1>1, <1>4, <1>5, <2>2
    <3>2. m[k + 1].kind = "result" /\ k + 1 \in 1..Len(m)
      BY <1>1, <1>6, <3>1 DEF Complete, CallsPaired
    <3>3. QED
      BY <1>4, <3>2
  <2>3. ASSUME s # <<>> PROVE Last(s).kind # "call"
    <3>1. Len(m) \in 1..Len(m) /\ m # <<>>
      BY <1>1, <1>5, <2>3
    <3>2. m[Len(m)].kind # "call"
      BY <1>6, <3>1 DEF Complete, Last
    <3>3. QED
      BY <1>4, <1>5, <3>1, <3>2 DEF Last
  <2>4. QED
    BY <2>1, <2>2, <2>3 DEF Complete, CallsPaired
<1>7. ASSUME i < Safe \/ protected, NEW k \in Results(m)
      PROVE  s[k].size = Least(m[k].size, Clip)
  <2>1. k \in 1..Len(m) /\ m[k].kind = "result" /\ m[k] \in Message
    BY <1>1, <1>2 DEF Results
  <2>2. ~(i >= Safe /\ ~protected)
    BY <1>7, ConstantsType
  <2>3. s[k] = CutOld(m[k])
    BY <1>3, <2>1, <2>2
  <2>4. QED
    BY <2>1, <2>3, CutOldOf
<1>8. QED
  BY <1>5, <1>6, <1>7, TokensType DEF s, m

(* What is taken so far, and what its blocks are: the turn at distance d   *)
(* as it is shown, whole if it is new or the turn after it refers to it.   *)
TurnBlock == [distance : Nat, messages : Seq(Message)]
Taking == [tokens : Nat, blocks : Seq(TurnBlock), protect : BOOLEAN, full : BOOLEAN]

Protected(d) == d > 0 /\ d - 1 < Reach /\ dialogue[Len(dialogue) - (d - 1)].refers
BlockAt(d) == [distance |-> d, messages |-> Shown(dialogue[Len(dialogue) - d], d, Protected(d))]

Took(budget, acc, k) ==
  /\ acc.tokens <= budget /\ Len(acc.blocks) <= k
  /\ ~acc.full => Len(acc.blocks) = k /\ (acc.protect <=> Protected(k))
  /\ \A j \in DOMAIN acc.blocks : acc.blocks[j] = BlockAt(Len(acc.blocks) - j)

LEMMA TakeType ==
  ASSUME DialogueTypes, NEW budget \in Nat, NEW acc \in Taking, NEW i \in 0..Len(dialogue) - 1
  PROVE  Take(budget, acc, i) \in Taking
<1> DEFINE turn == dialogue[Len(dialogue) - i]
           shown == Shown(turn, i, acc.protect)
           total == acc.tokens + Tokens(shown)
           new == <<[distance |-> i, messages |-> shown]>> \o acc.blocks
<1>1. Len(dialogue) - i \in 1..Len(dialogue) /\ i \in Nat /\ Len(dialogue) \in Nat
  BY DEF DialogueTypes
<1>2. turn \in Turn
  BY <1>1 DEF DialogueTypes
<1>3. acc.protect \in BOOLEAN /\ acc.blocks \in Seq(TurnBlock) /\ acc.tokens \in Nat
  BY DEF Taking
<1> HIDE DEF turn
<1>4. shown \in Seq(Message) /\ Tokens(shown) \in Nat
  BY <1>1, <1>2, <1>3, ShownOf
<1> HIDE DEF shown
<1>5. [distance |-> i, messages |-> shown] \in TurnBlock
  BY <1>1, <1>4 DEF TurnBlock
<1>6. new \in Seq(TurnBlock) /\ total \in Nat
  BY <1>3, <1>4, <1>5
<1>7. (i < Reach /\ turn.refers) \in BOOLEAN
  OBVIOUS
<1>8. PICK b \in BOOLEAN : b = (i < Reach /\ turn.refers)
  BY <1>7
<1> HIDE DEF new, total
<1> DEFINE t == [tokens |-> total, full |-> FALSE, blocks |-> new, protect |-> b]
           u == [acc EXCEPT !.full = TRUE]
<1>9. t \in Taking /\ u \in Taking
  BY <1>6 DEF Taking
<1>10. TakeAny(budget, acc, i) = IF total > budget THEN u
                                 ELSE [tokens |-> total, full |-> FALSE, blocks |-> new,
                                       protect |-> i < Reach /\ turn.refers]
  BY DEF TakeAny, turn, shown, total, new
<1>11. TakeAny(budget, acc, i) \in {t, u}
  BY <1>8, <1>10
<1> HIDE DEF t, u
<1>12. QED
  BY <1>9, <1>11 DEF Take

LEMMA TakeTakes ==
  ASSUME DialogueTypes, NEW budget \in Nat, NEW acc \in Taking, NEW k \in 1..Len(dialogue),
         Took(budget, acc, k - 1)
  PROVE  Took(budget, Take(budget, acc, k - 1), k)
<1> DEFINE i == k - 1
           turn == dialogue[Len(dialogue) - i]
           shown == Shown(turn, i, acc.protect)
           total == acc.tokens + Tokens(shown)
           first == [distance |-> i, messages |-> shown]
           new == <<first>> \o acc.blocks
<1>1. acc.blocks \in Seq(TurnBlock) /\ acc.tokens \in Nat /\ i \in Nat /\ Len(acc.blocks) \in Nat
      /\ acc.full \in BOOLEAN /\ acc.protect \in BOOLEAN
  BY DEF Taking, DialogueTypes
<1>2. CASE acc.full
  <2>1. Take(budget, acc, i) = acc
    BY <1>2 DEF Take
  <2>2. QED
    BY <1>1, <1>2, <2>1 DEF Took
<1>3. CASE ~acc.full /\ total > budget
  <2> DEFINE u == [acc EXCEPT !.full = TRUE]
  <2>1. Take(budget, acc, i) = u
    BY <1>3 DEF Take, TakeAny
  <2>2. u.tokens = acc.tokens /\ u.blocks = acc.blocks /\ u.full
    BY DEF Taking
  <2> HIDE DEF u, total
  <2>3. QED
    BY <1>1, <2>1, <2>2 DEF Took
<1>4. CASE ~acc.full /\ ~(total > budget)
  <2> DEFINE u == Take(budget, acc, i)
  <2>1. u = [tokens |-> total, full |-> FALSE, blocks |-> new,
             protect |-> i < Reach /\ turn.refers]
    BY <1>4 DEF Take, TakeAny
  <2>2. Len(acc.blocks) = i /\ (acc.protect <=> Protected(i))
    BY <1>4 DEF Took
  <2>3. (Len(dialogue) - (k - 1)) = Len(dialogue) - i /\ k > 0
    OBVIOUS
  <2>4. (i < Reach /\ turn.refers) <=> Protected(k)
    BY <2>3 DEF Protected
  <2>5. shown = Shown(turn, i, Protected(i))
    BY <1>1, <2>2 DEF Protected, Shown
  <2>6. first = BlockAt(i)
    BY <2>5 DEF BlockAt
  <2>7. total \in Nat /\ first \in TurnBlock
    <3>1. Len(dialogue) - i \in 1..Len(dialogue)
      BY DEF DialogueTypes
    <3>2. turn \in Turn
      BY <3>1 DEF DialogueTypes
    <3> HIDE DEF turn
    <3>3. shown \in Seq(Message) /\ Tokens(shown) \in Nat
      BY <1>1, <3>2, ShownOf
    <3> HIDE DEF shown
    <3>4. QED
      BY <1>1, <3>3 DEF TurnBlock
  <2> HIDE DEF first, total
  <2>8. /\ Len(new) = k /\ new[1] = first
        /\ \A j \in 1..Len(acc.blocks) : new[1 + j] = acc.blocks[j]
        /\ DOMAIN new = 1..k
    <3> DEFINE old == acc.blocks
    <3>1. old \in Seq(TurnBlock) /\ Len(old) = k - 1 /\ first \in TurnBlock
      BY <1>1, <2>2, <2>7
    <3> HIDE DEF old
    <3>2. new = <<first>> \o old
      BY DEF old
    <3> HIDE DEF new
    <3>3. Len(new) = k /\ new[1] = first /\ DOMAIN new = 1..k
          /\ \A j \in 1..Len(old) : new[1 + j] = old[j]
      BY <3>1, <3>2
    <3>4. QED
      BY <3>3 DEF old
  <2> HIDE DEF new
  <2>9. ASSUME NEW j \in 1..k PROVE new[j] = BlockAt(k - j)
    <3>1. CASE j = 1
      BY <2>6, <2>8, <3>1
    <3>2. CASE j # 1
      <4>1. PICK l \in 1..Len(acc.blocks) : j = 1 + l
        <5>1. j - 1 \in 1..Len(acc.blocks) /\ j = 1 + (j - 1)
          BY <2>2, <3>2
        <5>2. QED
          BY <5>1
      <4>2. new[j] = acc.blocks[l]
        BY <2>8, <4>1
      <4>3. acc.blocks[l] = BlockAt(Len(acc.blocks) - l)
        BY <1>1, <4>1 DEF Took
      <4>4. Len(acc.blocks) - l = k - j
        BY <2>2, <4>1
      <4>5. QED
        BY <4>2, <4>3, <4>4
    <3>3. QED
      BY <3>1, <3>2
  <2>10. u.tokens = total /\ u.full = FALSE /\ u.blocks = new
         /\ (u.protect <=> Protected(k))
    <3>1. u.tokens = total /\ u.full = FALSE /\ u.blocks = new
      BY <2>1
    <3>2. u.protect = (i < Reach /\ turn.refers)
      BY <2>1
    <3> HIDE DEF u
    <3>3. QED
      BY <2>4, <3>1, <3>2
  <2> HIDE DEF u
  <2>11. Took(budget, u, k)
    BY <1>4, <2>7, <2>8, <2>9, <2>10 DEF Took
  <2>12. QED
    BY <2>11 DEF u
<1>5. QED
  BY <1>2, <1>3, <1>4

(* What is taken of the history: blocks from the newest turn back, within  *)
(* the budget.                                                             *)
LEMMA ChosenTook ==
  ASSUME DialogueTypes, NEW budget \in Nat
  PROVE  /\ Chosen(budget) \in Taking
         /\ Took(budget, Chosen(budget), Len(dialogue))
<1> DEFINE n == Len(dialogue)
           Solves(f) == f = [k \in 0..n |-> IF k = 0 THEN Nothing ELSE Take(budget, f[k - 1], k - 1)]
           step == [k \in 1..n |-> [acc \in Taking |-> Take(budget, acc, k - 1)]]
           F == CHOOSE f : Solves(f)
<1>1. n \in Nat /\ Nothing \in Taking
  BY DEF DialogueTypes, Nothing, Taking
<1>2. \A k \in 1..n : \A acc \in Taking : Take(budget, acc, k - 1) \in Taking
  <2>1. \A k \in 1..n : k - 1 \in 0..Len(dialogue) - 1
    BY <1>1
  <2>2. QED
    BY <2>1, TakeType
<1>3. step \in [1..n -> [Taking -> Taking]]
  BY <1>2
<1>4. PICK f \in [0..n -> Taking] : Follows(f, n, Nothing, step)
  <2> HIDE DEF step
  <2>1. QED
    BY <1>1, <1>3, Followed
<1>5. Solves(f)
  <2>1. \A k \in 0..n : k # 0 => k \in 1..n /\ k - 1 \in 0..n
    BY <1>1
  <2>2. \A k \in 0..n : f[k] = IF k = 0 THEN Nothing ELSE Take(budget, f[k - 1], k - 1)
    BY <1>4, <2>1 DEF Follows
  <2>3. QED
    BY <2>2
<1>6. Solves(F)
  BY <1>5
<1>7. Chosen(budget) = F[n]
  BY DEF Chosen
<1> HIDE DEF F, step
<1>8. F[0] = Nothing /\ \A k \in 1..n : F[k] = Take(budget, F[k - 1], k - 1)
  <2>1. \A k \in 0..n : F[k] = IF k = 0 THEN Nothing ELSE Take(budget, F[k - 1], k - 1)
    BY <1>6, Zenon
  <2>2. 0 \in 0..n /\ \A k \in 1..n : k \in 0..n /\ k # 0
    BY <1>1
  <2>3. QED
    BY <2>1, <2>2
<1> DEFINE S == {k \in 0..n : F[k] \in Taking /\ Took(budget, F[k], k)}
<1>9. 0 \in S
  <2>1. Took(budget, Nothing, 0)
    BY ConstantsType DEF Took, Nothing, Protected
  <2>2. QED
    BY <1>1, <1>8, <2>1
<1>10. ASSUME NEW k \in 1..n, k - 1 \in S PROVE k \in S
  <2>1. F[k - 1] \in Taking /\ Took(budget, F[k - 1], k - 1) /\ k \in 0..n
    BY <1>10
  <2>2. F[k] = Take(budget, F[k - 1], k - 1)
    BY <1>8
  <2>3. Took(budget, F[k], k)
    BY <2>1, <2>2, TakeTakes
  <2>4. QED
    BY <1>2, <2>1, <2>2, <2>3
<1> HIDE DEF S
<1>11. n \in S
  BY <1>1, <1>9, <1>10, UpTo
<1>12. QED
  BY <1>7, <1>11 DEF S

-----------------------------------------------------------------------------
(* The system prompt.                                                      *)

(* A finite set as a sequence.                                             *)
LEMMA SetToSeqType ==
  ASSUME NEW S, IsFiniteSet(S)
  PROVE  SetToSeq(S) \in Seq(S)
<1>1. Cardinality(S) \in Nat /\ ExistsBijection(1..Cardinality(S), S)
  BY FS_CardinalityType
<1>2. PICK f \in Bijection(1..Cardinality(S), S) : TRUE
  BY <1>1 DEF ExistsBijection
<1>3. f \in [1..Cardinality(S) -> S] /\ IsInjective(f)
  BY <1>2 DEF Bijection, Injection, IsInjective
<1>4. SetToSeq(S) \in [1..Cardinality(S) -> S]
  BY <1>3 DEF SetToSeq
<1>5. QED
  BY <1>1, <1>4

(* What is offered to assemble_prompt, each at its cost.                   *)
Priced(s) == Len(s) \in Nat /\ DOMAIN s = 1..Len(s) /\ \A i \in 1..Len(s) : s[i].cost \in Nat

LEMMA PricedJoined ==
  ASSUME NEW s, NEW t, NEW S, NEW T, s \in Seq(S), t \in Seq(T), Priced(s), Priced(t)
  PROVE  Priced(s \o t) /\ s \o t \in Seq(S \cup T)
<1> DEFINE u == s \o t
<1>1. s \in Seq(S \cup T) /\ t \in Seq(S \cup T)
  OBVIOUS
<1>2. /\ u \in Seq(S \cup T) /\ Len(u) = Len(s) + Len(t)
      /\ \A i \in 1..Len(s) : u[i] = s[i]
      /\ \A i \in 1..Len(t) : u[Len(s) + i] = t[i]
      /\ \A i \in 1..(Len(s) + Len(t)) : i \in 1..Len(s) \/ i - Len(s) \in 1..Len(t)
      /\ DOMAIN u = 1..(Len(s) + Len(t))
  BY <1>1
<1> HIDE DEF u
<1>3. ASSUME NEW i \in 1..Len(u) PROVE u[i].cost \in Nat
  <2>1. CASE i \in 1..Len(s)
    BY <1>2, <2>1 DEF Priced
  <2>2. CASE i \notin 1..Len(s)
    <3>1. PICK j \in 1..Len(t) : i = Len(s) + j
      <4>1. i - Len(s) \in 1..Len(t) /\ i = Len(s) + (i - Len(s))
        BY <1>2, <2>2 DEF Priced
      <4>2. QED
        BY <4>1
    <3>2. QED
      BY <1>2, <3>1 DEF Priced
  <2>3. QED
    BY <2>1, <2>2
<1>4. QED
  BY <1>2, <1>3 DEF Priced, u

LEMMA ItemsPriced ==
  ASSUME EvidenceTypes, EvidenceInv, NEW S \in SUBSET evidence, NEW what
  PROVE  /\ Priced(Items(what, ByKind(S)))
         /\ \E T : Items(what, ByKind(S)) \in Seq(T)
<1> DEFINE Of(kind) == SetToSeq({e \in S : e.kind = kind})
<1>1. ASSUME NEW kind PROVE Of(kind) \in Seq(Evidence)
  <2>1. {e \in S : e.kind = kind} \subseteq evidence
    OBVIOUS
  <2>2. IsFiniteSet({e \in S : e.kind = kind})
    BY <2>1, FS_Subset DEF EvidenceInv
  <2>3. Of(kind) \in Seq({e \in S : e.kind = kind})
    BY <2>2, SetToSeqType
  <2>4. {e \in S : e.kind = kind} \subseteq Evidence
    BY <2>1 DEF EvidenceTypes
  <2> HIDE DEF Of
  <2>5. QED
    BY <2>3, <2>4
<1>2. ByKind(S) = Of("diagnostic") \o Of("directory") \o Of("file")
  BY DEF ByKind
<1> HIDE DEF Of
<1> DEFINE s == ByKind(S)
           t == Items(what, s)
           T == {t[i] : i \in 1..Len(s)}
<1>3. s \in Seq(Evidence)
  BY <1>1, <1>2
<1> HIDE DEF s
<1>4. \A i \in 1..Len(s) : s[i].size \in Nat
  <2>1. \A i \in 1..Len(s) : s[i] \in Evidence
    BY <1>3
  <2>2. QED
    BY <2>1 DEF Evidence
<1>5. /\ DOMAIN t = 1..Len(s) /\ Len(s) \in Nat
      /\ \A i \in 1..Len(s) : t[i].cost = IF what = "stale" THEN Tomb ELSE s[i].size
  BY <1>3 DEF Items
<1> HIDE DEF t
<1>6. \A i \in 1..Len(s) : t[i].cost \in Nat
  BY <1>4, <1>5, ConstantsType
<1>7. t \in [1..Len(s) -> T]
  <2>1. t = [i \in 1..Len(s) |-> t[i]]
    BY <1>3 DEF t, Items
  <2>2. QED
    BY <2>1
<1> HIDE DEF T
<1>8. t \in Seq(T) /\ Len(t) = Len(s)
  BY <1>5, <1>7
<1>9. Priced(t)
  BY <1>5, <1>6, <1>8 DEF Priced
<1>10. QED
  BY <1>8, <1>9 DEF t, s

LEMMA CandidatesPriced ==
  ASSUME EvidenceTypes, EvidenceInv
  PROVE  Priced(Candidates)
<1> DEFINE fresh == {e \in evidence : IsFresh(e)}
           a == Items("stale", ByKind(evidence \ fresh))
           b == [i \in DOMAIN Extras |->
                   [what |-> "extra", of |-> NoEvidence, cost |-> Extras[i]]]
           c == Items("evidence", ByKind(fresh))
           B == {b[i] : i \in 1..Len(Extras)}
<1>1. fresh \in SUBSET evidence /\ evidence \ fresh \in SUBSET evidence
  OBVIOUS
<1> HIDE DEF fresh
<1>2. Priced(a) /\ \E T : a \in Seq(T)
  BY <1>1, ItemsPriced
<1>3. Priced(c) /\ \E T : c \in Seq(T)
  BY <1>1, ItemsPriced
<1>4. Candidates = a \o b \o c
  BY DEF Candidates, fresh
<1> HIDE DEF a, c
<1>5. Extras \in Seq(Nat)
  BY ContextAssumption
<1>6. Len(Extras) \in Nat /\ DOMAIN Extras = 1..Len(Extras)
      /\ \A i \in 1..Len(Extras) : Extras[i] \in Nat
  BY <1>5
<1>7. DOMAIN b = 1..Len(Extras) /\ b \in [1..Len(Extras) -> B]
      /\ \A i \in 1..Len(Extras) : b[i].cost = Extras[i]
  BY <1>6
<1> HIDE DEF b, B
<1>8. b \in Seq(B) /\ Len(b) = Len(Extras)
  BY <1>6, <1>7
<1>9. Priced(b)
  BY <1>6, <1>7, <1>8 DEF Priced
<1>10. PICK A : a \in Seq(A)
  BY <1>2
<1>11. PICK C : c \in Seq(C)
  BY <1>3
<1>12. Priced(a \o b) /\ a \o b \in Seq(A \cup B)
  BY <1>2, <1>8, <1>9, <1>10, PricedJoined
<1>13. Priced((a \o b) \o c)
  BY <1>3, <1>11, <1>12, PricedJoined
<1>14. QED
  BY <1>4, <1>13

(* The accumulator of assemble_prompt, and what it keeps: what is written  *)
(* is counted as used, and it and what is left are within the budget.      *)
Room(items) ==
  [left : Nat, used : Nat, text : Nat, shown : SUBSET items, evicted : SUBSET items]
Fits(budget, acc) == acc.text <= acc.used /\ acc.text + acc.left <= budget
Fitting(budget, items) == {acc \in Room(items) : Fits(budget, acc)}

LEMMA RequireFits ==
  ASSUME NEW budget \in Nat, NEW items, NEW acc \in Fitting(budget, items), NEW cost \in Nat
  PROVE  Require(acc, cost) \in Fitting(budget, items)
<1>1. /\ acc \in Room(items) /\ acc.left \in Nat /\ acc.used \in Nat /\ acc.text \in Nat
      /\ acc.text <= acc.used /\ acc.text + acc.left <= budget
  BY DEF Fitting, Room, Fits
<1>2. CASE cost <= acc.left
  <2>1. PICK l \in Nat, u \in Nat, w \in Nat :
          l = acc.left - cost /\ u = acc.used + cost /\ w = acc.text + cost
    <3>1. acc.left - cost \in Nat /\ acc.used + cost \in Nat /\ acc.text + cost \in Nat
      BY <1>1, <1>2
    <3>2. QED
      BY <3>1
  <2> DEFINE t == [acc EXCEPT !.left = l, !.used = u, !.text = w]
  <2>2. t \in Room(items) /\ t.left = l /\ t.used = u /\ t.text = w
    BY <1>1 DEF Room
  <2>3. Require(acc, cost) = t
    BY <1>2, <2>1 DEF Require
  <2> HIDE DEF t
  <2>4. QED
    BY <1>1, <1>2, <2>1, <2>2, <2>3 DEF Fitting, Fits
<1>3. CASE ~(cost <= acc.left)
  <2> DEFINE t == [acc EXCEPT !.left = 0]
  <2>1. t \in Room(items) /\ t.left = 0 /\ t.used = acc.used /\ t.text = acc.text
    BY <1>1 DEF Room
  <2>2. Require(acc, cost) = t
    BY <1>3 DEF Require
  <2> HIDE DEF t
  <2>3. QED
    BY <1>1, <2>1, <2>2 DEF Fitting, Fits
<1>4. QED
  BY <1>2, <1>3

LEMMA AllotFits ==
  ASSUME NEW budget \in Nat, NEW items, NEW acc \in Fitting(budget, items),
         NEW item \in items, item.cost \in Nat
  PROVE  Allot(acc, item) \in Fitting(budget, items)
<1>1. /\ acc \in Room(items) /\ acc.left \in Nat /\ acc.used \in Nat /\ acc.text \in Nat
      /\ acc.text <= acc.used /\ acc.text + acc.left <= budget
      /\ acc.shown \in SUBSET items /\ acc.evicted \in SUBSET items
  BY DEF Fitting, Room, Fits
<1>2. PICK sh \in SUBSET items, ev \in SUBSET items :
        sh = acc.shown \cup {item} /\ ev = acc.evicted \cup {item}
  BY <1>1
<1>3. CASE item.cost <= acc.left
  <2>1. PICK l \in Nat, u \in Nat, w \in Nat :
          l = acc.left - item.cost /\ u = acc.used + item.cost /\ w = acc.text + item.cost
    <3>1. acc.left - item.cost \in Nat /\ acc.used + item.cost \in Nat /\ acc.text + item.cost \in Nat
      BY <1>1, <1>3
    <3>2. QED
      BY <3>1
  <2> DEFINE t == [acc EXCEPT !.left = l, !.used = u, !.text = w, !.shown = sh]
  <2>2. t \in Room(items) /\ t.left = l /\ t.used = u /\ t.text = w
    BY <1>1 DEF Room
  <2>3. Allot(acc, item) = t
    BY <1>2, <1>3, <2>1 DEF Allot
  <2> HIDE DEF t
  <2>4. QED
    BY <1>1, <1>3, <2>1, <2>2, <2>3 DEF Fitting, Fits
<1>4. CASE ~(item.cost <= acc.left) /\ item.what \in {"evidence", "stale"} /\ Evicted <= acc.left
  <2>1. PICK l \in Nat, u \in Nat, w \in Nat :
          l = acc.left - Evicted /\ u = acc.used + item.cost /\ w = acc.text + Evicted
    <3>1. acc.left - Evicted \in Nat /\ acc.used + item.cost \in Nat /\ acc.text + Evicted \in Nat
      BY <1>1, <1>4, ConstantsType
    <3>2. QED
      BY <3>1
  <2> DEFINE t == [acc EXCEPT !.left = l, !.used = u, !.text = w, !.evicted = ev]
  <2>2. t \in Room(items) /\ t.left = l /\ t.used = u /\ t.text = w
    BY <1>1 DEF Room
  <2>3. Allot(acc, item) = t
    BY <1>2, <1>4, <2>1 DEF Allot
  <2> HIDE DEF t
  <2>4. QED
    BY <1>1, <1>4, <2>1, <2>2, <2>3, ConstantsType DEF Fitting, Fits
<1>5. CASE ~(item.cost <= acc.left) /\ ~(item.what \in {"evidence", "stale"} /\ Evicted <= acc.left)
  <2> DEFINE t == [acc EXCEPT !.evicted = ev]
  <2>1. t \in Room(items) /\ t.left = acc.left /\ t.used = acc.used /\ t.text = acc.text
    BY <1>1 DEF Room
  <2>2. Allot(acc, item) = t
    BY <1>2, <1>5 DEF Allot
  <2> HIDE DEF t
  <2>3. QED
    BY <1>1, <2>1, <2>2 DEF Fitting, Fits
<1>6. QED
  BY <1>3, <1>4, <1>5

(* The system prompt is within its budget and no larger than is counted.   *)
LEMMA AssembledFits ==
  ASSUME EvidenceTypes, EvidenceInv, NEW budget \in Nat
  PROVE  /\ AssembledPrompt(budget).used \in Nat /\ AssembledPrompt(budget).text \in Nat
         /\ AssembledPrompt(budget).text <= AssembledPrompt(budget).used
         /\ AssembledPrompt(budget).text <= budget
<1> DEFINE items == Candidates
           n == Len(items)
           I == {items[k] : k \in 1..n}
           D == Fitting(budget, I)
           base == Required(budget)
           Solves(f) == f = [k \in 0..n |-> IF k = 0 THEN base ELSE Allot(f[k - 1], items[k])]
           step == [k \in 1..n |-> [acc \in D |-> Allot(acc, items[k])]]
           F == CHOOSE f : Solves(f)
<1>1. n \in Nat /\ \A k \in 1..n : items[k] \in I /\ items[k].cost \in Nat
  BY CandidatesPriced DEF Priced
<1>2. AssembledPrompt(budget) = F[n]
  BY DEF AssembledPrompt
<1> HIDE DEF items, I
<1>3. base \in D
  <2> DEFINE empty == [left |-> budget, used |-> 0, text |-> 0, shown |-> {}, evicted |-> {}]
  <2>1. empty \in Fitting(budget, I)
    BY DEF Fitting, Room, Fits
  <2>2. base = Require(Require(empty, Static), Task)
    BY DEF Required
  <2> HIDE DEF empty, base
  <2>3. QED
    BY <2>1, <2>2, RequireFits, ConstantsType
<1> HIDE DEF base
<1>4. \A k \in 1..n : \A acc \in D : Allot(acc, items[k]) \in D
  BY <1>1, AllotFits
<1> HIDE DEF D
<1>5. step \in [1..n -> [D -> D]]
  BY <1>4
<1>6. PICK f \in [0..n -> D] : Follows(f, n, base, step)
  <2> HIDE DEF step
  <2>1. QED
    BY <1>1, <1>3, <1>5, Followed
<1>7. Solves(f)
  <2>1. \A k \in 0..n : k # 0 => k \in 1..n /\ k - 1 \in 0..n
    BY <1>1
  <2>2. \A k \in 0..n : f[k] = IF k = 0 THEN base ELSE Allot(f[k - 1], items[k])
    BY <1>6, <2>1 DEF Follows
  <2>3. QED
    BY <2>2
<1>8. Solves(F)
  BY <1>7
<1> HIDE DEF F, step
<1>9. F[0] = base /\ \A k \in 1..n : F[k] = Allot(F[k - 1], items[k])
  <2>1. \A k \in 0..n : F[k] = IF k = 0 THEN base ELSE Allot(F[k - 1], items[k])
    BY <1>8, Zenon
  <2>2. 0 \in 0..n /\ \A k \in 1..n : k \in 0..n /\ k # 0
    BY <1>1
  <2>3. QED
    BY <2>1, <2>2
<1> DEFINE S == {k \in 0..n : F[k] \in D}
<1>10. 0 \in S
  BY <1>1, <1>3, <1>9
<1>11. ASSUME NEW k \in 1..n, k - 1 \in S PROVE k \in S
  <2>1. F[k - 1] \in D /\ k \in 0..n /\ F[k] = Allot(F[k - 1], items[k])
    BY <1>9, <1>11
  <2>2. QED
    BY <1>4, <2>1
<1> HIDE DEF S
<1>12. n \in S
  BY <1>1, <1>10, <1>11, UpTo
<1>13. F[n] \in Fitting(budget, I)
  BY <1>12 DEF S, D
<1> HIDE DEF n
<1>14. /\ F[n].used \in Nat /\ F[n].text \in Nat /\ F[n].left \in Nat
       /\ F[n].text <= F[n].used /\ F[n].text + F[n].left <= budget
  BY <1>13 DEF Fitting, Room, Fits
<1>15. QED
  BY <1>2, <1>14

-----------------------------------------------------------------------------
(* The prompt.                                                             *)

(* Less and Least, and what is made of the window with them.               *)
LEMMA BudgetTypes ==
  /\ \A a, b \in Nat : Less(a, b) \in Nat /\ Least(a, b) \in Nat
  /\ \A a, b \in Nat : Least(a, b) <= b
  /\ ResponseReserve \in Nat
  /\ \A system, now \in Nat : HistoryBudget(system, now) \in Nat
<1>1. \A a, b \in Nat : Less(a, b) \in Nat /\ Least(a, b) \in Nat /\ Least(a, b) <= b
  BY DEF Less, Least
<1>2. Window \in Nat /\ Window \div 10 \in Nat /\ (Window * 85) \div 100 \in Nat
  BY ConstantsType
<1>3. ResponseReserve \in Nat
  BY <1>2 DEF ResponseReserve, Clamp, Least
<1>4. \A system, now \in Nat : HistoryBudget(system, now) \in Nat
  <2> SUFFICES ASSUME NEW system \in Nat, NEW now \in Nat PROVE HistoryBudget(system, now) \in Nat
    OBVIOUS
  <2>1. Less(Less(Less(Window, system), now), ResponseReserve) \in Nat
    BY <1>1, <1>2, <1>3
  <2>2. QED
    BY <1>1, <1>2, <2>1 DEF HistoryBudget
<1>5. QED
  BY <1>1, <1>3, <1>4

LEMMA NowType ==
  ASSUME DialogueTypes, DialogueInv
  PROVE  Now \in Seq(Message) /\ CallsPaired(Now) /\ Tokens(Now) \in Nat
<1>1. current.messages \in Seq(Message) /\ CallsPaired(current.messages)
  BY TurnType DEF DialogueTypes, DialogueInv
<1> DEFINE u == <<Msg("user", 1)>>
<1>2. u \in Seq(Message) /\ Complete(u) /\ <<>> \in Seq(Message) /\ Complete(<<>>)
  BY ShortComplete
<1> HIDE DEF u
<1>3. u \o current.messages \in Seq(Message) /\ CallsPaired(u \o current.messages)
  BY <1>1, <1>2, JoinedPaired, Joined
<1>4. Now = IF current = NoTurn THEN <<>> ELSE u \o current.messages
  BY DEF Now, u
<1>5. Now \in Seq(Message) /\ CallsPaired(Now)
  BY <1>2, <1>3, <1>4 DEF Complete
<1>6. QED
  BY <1>5, TokensType

(* The parts of the prompt.                                                *)
LEMMA PromptOf ==
  ASSUME DialogueTypes, DialogueInv, EvidenceTypes, EvidenceInv
  PROVE  LET p == Prompt
             room == Less(Less(Window, p.now), ResponseReserve)
         IN  /\ p.now \in Nat /\ ResponseReserve \in Nat
             /\ p.system.text \in Nat /\ p.system.used \in Nat
             /\ p.system.text <= p.system.used /\ p.system.text <= room
             /\ p.budget \in Nat
             /\ p.budget <= Less(Less(Less(Window, p.system.used), p.now), ResponseReserve)
             /\ p.past \in Taking /\ Took(p.budget, p.past, Len(dialogue))
             /\ p.messages = Flattened(p.past.blocks) \o Now
<1> DEFINE now    == Tokens(Now)
           system == AssembledPrompt(Less(Less(Window, now), ResponseReserve))
           budget == HistoryBudget(system.used, now)
           past   == Chosen(budget)
           p      == Prompt
<1>1. /\ p.now = now /\ p.system = system /\ p.budget = budget /\ p.past = past
      /\ p.messages = Flattened(past.blocks) \o Now
  BY DEF Prompt
<1>2. now \in Nat /\ Window \in Nat /\ ResponseReserve \in Nat
  BY NowType, BudgetTypes, ConstantsType
<1> HIDE DEF now, p
<1>3. Less(Less(Window, now), ResponseReserve) \in Nat
  BY <1>2, BudgetTypes
<1>4. /\ system.used \in Nat /\ system.text \in Nat /\ system.text <= system.used
      /\ system.text <= Less(Less(Window, now), ResponseReserve)
  BY <1>3, AssembledFits
<1> HIDE DEF system
<1>5. /\ budget \in Nat
      /\ budget <= Less(Less(Less(Window, system.used), now), ResponseReserve)
  <2>1. budget \in Nat
    BY <1>2, <1>4, BudgetTypes
  <2>2. Less(Less(Less(Window, system.used), now), ResponseReserve) \in Nat
    BY <1>2, <1>4, BudgetTypes
  <2>3. (Window * 85) \div 100 \in Nat
    BY <1>2
  <2>4. QED
    BY <2>1, <2>2, <2>3, BudgetTypes DEF HistoryBudget
<1> HIDE DEF budget
<1>6. past \in Taking /\ Took(budget, past, Len(dialogue))
  BY <1>5, ChosenTook
<1> HIDE DEF past
<1>7. QED
  BY <1>1, <1>2, <1>4, <1>5, <1>6 DEF p

(* The text of the prompt leaves the room that is kept for the answer,     *)
(* unless the turn alone takes it: build_llm_payload gives the system      *)
(* prompt what the turn leaves, and the history what both leave.           *)
THEOREM FitsWindowCorrect == ContextSpec => []FitsWindow
<1>1. ContextInv => FitsWindow
  <2> SUFFICES ASSUME DialogueTypes, DialogueInv, EvidenceTypes, EvidenceInv PROVE FitsWindow
    BY DEF ContextInv, ContextTypeOK, DialogueTypes, EvidenceTypes
  <2> DEFINE p == Prompt
             R == ResponseReserve
  <2>1. /\ p.now \in Nat /\ R \in Nat /\ Window \in Nat
        /\ p.system.text \in Nat /\ p.system.used \in Nat /\ p.system.text <= p.system.used
        /\ p.system.text <= Less(Less(Window, p.now), R)
        /\ p.budget \in Nat
        /\ p.budget <= Less(Less(Less(Window, p.system.used), p.now), R)
        /\ p.past.tokens <= p.budget
    BY PromptOf, ConstantsType DEF Took
  <2>2. p.past.tokens \in Nat
    BY PromptOf DEF Taking
  <2>3. FitsWindow <=> (p.now + R <= Window => p.system.text + p.past.tokens + p.now + R <= Window)
    BY DEF FitsWindow
  <2> HIDE DEF p, R
  <2>4. QED
    BY <2>1, <2>2, <2>3 DEF Less
<1>2. QED
  BY ContextInvariant, <1>1, PTL

(* The history shown is the newest part of it without a gap, and in it the *)
(* newest turns, and one that the user's next message refers to, have      *)
(* their results (build_history_with_token_budget).                        *)
THEOREM NewestWholeCorrect == ContextSpec => []NewestWhole
<1>1. ContextInv => NewestWhole
  <2> SUFFICES ASSUME DialogueTypes, DialogueInv, EvidenceTypes, EvidenceInv PROVE NewestWhole
    BY DEF ContextInv, ContextTypeOK, DialogueTypes, EvidenceTypes
  <2> DEFINE blocks == Prompt.past.blocks
             n == Len(blocks)
             turn(b) == dialogue[Len(dialogue) - b.distance]
             Referred(b) == /\ b.distance \in 1..Reach
                            /\ dialogue[Len(dialogue) - b.distance + 1].refers
  <2>1. /\ blocks \in Seq(TurnBlock) /\ n <= Len(dialogue)
        /\ \A j \in DOMAIN blocks : blocks[j] = BlockAt(n - j)
    BY PromptOf DEF Took, Taking
  <2>2. DOMAIN blocks = 1..n /\ n \in Nat /\ Len(dialogue) \in Nat /\ dialogue \in Seq(Turn)
    BY <2>1 DEF DialogueTypes
  <2>3. NewestWhole <=>
          /\ \A j \in DOMAIN blocks : blocks[j].distance = n - j
          /\ \A j \in DOMAIN blocks :
               blocks[j].distance < Safe \/ Referred(blocks[j]) =>
                 \A k \in Results(turn(blocks[j]).messages) :
                   blocks[j].messages[k].size = Least(turn(blocks[j]).messages[k].size, Clip)
    BY DEF NewestWhole
  <2> HIDE DEF blocks
  <2>4. ASSUME NEW j \in DOMAIN blocks
        PROVE  /\ blocks[j].distance = n - j
               /\ blocks[j].distance < Safe \/ Referred(blocks[j]) =>
                    \A k \in Results(turn(blocks[j]).messages) :
                      blocks[j].messages[k].size = Least(turn(blocks[j]).messages[k].size, Clip)
    <3>1. PICK d \in Nat : d = n - j /\ d < n
      <4>1. n - j \in Nat /\ n - j < n
        BY <2>2
      <4>2. QED
        BY <4>1
    <3>2. Len(dialogue) - d \in 1..Len(dialogue)
      BY <2>1, <2>2, <3>1
    <3>3. dialogue[Len(dialogue) - d] \in Turn
      BY <2>2, <3>2
    <3>4. Protected(d) \in BOOLEAN
      <4>1. CASE d = 0
        BY <4>1 DEF Protected
      <4>2. CASE d # 0
        <5>1. Len(dialogue) - (d - 1) \in 1..Len(dialogue)
          BY <2>1, <2>2, <3>1, <4>2
        <5>2. dialogue[Len(dialogue) - (d - 1)].refers \in BOOLEAN
          BY <2>2, <5>1, TurnType
        <5>3. QED
          BY <5>2 DEF Protected
      <4>3. QED
        BY <4>1, <4>2
    <3>5. /\ blocks[j].distance = d
          /\ blocks[j].messages = Shown(dialogue[Len(dialogue) - d], d, Protected(d))
      BY <2>1, <3>1 DEF BlockAt
    <3>6. Referred(blocks[j]) => Protected(d)
      <4>1. Len(dialogue) - d + 1 = Len(dialogue) - (d - 1)
        BY <2>2, <3>1
      <4>2. Referred(blocks[j]) <=> d \in 1..Reach /\ dialogue[Len(dialogue) - d + 1].refers
        BY <3>5
      <4>3. d \in 1..Reach => d > 0 /\ d - 1 < Reach
        BY <3>1, ConstantsType
      <4> HIDE DEF Referred
      <4>4. QED
        BY <4>1, <4>2, <4>3 DEF Protected
    <3>7. d < Safe \/ Protected(d) =>
            \A k \in Results(dialogue[Len(dialogue) - d].messages) :
              Shown(dialogue[Len(dialogue) - d], d, Protected(d))[k].size
                = Least(dialogue[Len(dialogue) - d].messages[k].size, Clip)
      BY <3>3, <3>4, ShownOf
    <3>8. QED
      BY <3>1, <3>5, <3>6, <3>7
  <2>5. QED
    BY <2>3, <2>4
<1>2. QED
  BY ContextInvariant, <1>1, PTL

(* Blocks one after the other, each over before the next begins.           *)
LEMMA FlattenComplete ==
  ASSUME NEW n \in Nat, NEW s \in [1..n -> Seq(Message)], \A j \in 1..n : Complete(s[j])
  PROVE  FlattenSeq(s) \in Seq(Message) /\ Complete(FlattenSeq(s))
<1> DEFINE D == {m \in Seq(Message) : Complete(m)}
           Solves(f) == f = [j \in 1..n |-> IF j = 1 THEN s[j] ELSE f[j - 1] \o s[j]]
           step == [j \in 1..n |-> [m \in D |-> m \o s[j]]]
           F == CHOOSE f : Solves(f)
<1>1. s \in Seq(Seq(Message)) /\ Len(s) = n
  OBVIOUS
<1>2. <<>> \in D
  BY ShortComplete
<1>3. \A j \in 1..n : s[j] \in Seq(Message) /\ Complete(s[j]) /\ s[j] \in D
  OBVIOUS
<1>4. \A j \in 1..n : \A m \in D : m \o s[j] \in D
  BY <1>3, JoinedPaired, Joined DEF Complete
<1>5. CASE n = 0
  <2>1. FlattenSeq(s) = s /\ s = <<>>
    BY <1>1, <1>5 DEF FlattenSeq
  <2>2. QED
    BY <1>2, <2>1
<1>6. CASE n # 0
  <2>1. FlattenSeq(s) = F[n]
    BY <1>1, <1>6 DEF FlattenSeq
  <2> HIDE DEF D
  <2>2. step \in [1..n -> [D -> D]]
    BY <1>4
  <2>3. PICK f \in [0..n -> D] : Follows(f, n, <<>>, step)
    <3> HIDE DEF step
    <3>1. QED
      BY <1>2, <2>2, Followed
  <2> DEFINE g == [j \in 1..n |-> f[j]]
  <2>4. \A j \in 1..n : f[j] = f[j - 1] \o s[j]
    <3>1. \A j \in 1..n : j - 1 \in 0..n
      OBVIOUS
    <3>2. QED
      BY <2>3, <3>1 DEF Follows
  <2>5. 1 \in 1..n /\ f[1] = s[1]
    <3>1. 1 \in 1..n
      BY <1>6
    <3>2. f[0] = <<>>
      BY <2>3 DEF Follows
    <3>3. f[1] = f[1 - 1] \o s[1]
      BY <2>4, <3>1, Zenon
    <3>4. f[1] = <<>> \o s[1]
      <4>1. 1 - 1 = 0
        OBVIOUS
      <4>2. QED
        BY <3>2, <3>3, <4>1, Zenon
    <3>5. s[1] \in Seq(Message)
      BY <1>3, <3>1
    <3>6. \A m \in Seq(Message) : <<>> \o m = m
      OBVIOUS
    <3>7. QED
      BY <3>1, <3>4, <3>5, <3>6, Zenon
  <2>6. Solves(g)
    <3>1. \A j \in 1..n : j # 1 => j - 1 \in 1..n
      OBVIOUS
    <3>2. \A j \in 1..n : g[j] = IF j = 1 THEN s[j] ELSE g[j - 1] \o s[j]
      BY <2>4, <2>5, <3>1
    <3>3. QED
      BY <3>2
  <2> HIDE DEF g
  <2>7. Solves(F)
    <3> HIDE DEF Solves
    <3>1. QED
      BY <2>6
  <2> HIDE DEF F, step
  <2>8. \A j \in 1..n : F[j] = IF j = 1 THEN s[j] ELSE F[j - 1] \o s[j]
    BY <2>7, Zenon
  <2> DEFINE S == {j \in 0..n : j # 0 => F[j] \in D}
  <2>9. 0 \in S
    OBVIOUS
  <2>10. ASSUME NEW j \in 1..n, j - 1 \in S PROVE j \in S
    <3>1. CASE j = 1
      BY <1>3, <2>8, <3>1
    <3>2. CASE j # 1
      <4>1. j - 1 # 0 /\ j # 1 /\ j \in 1..n /\ j \in 0..n
        BY <3>2
      <4>2. F[j - 1] \in D
        BY <2>10, <4>1
      <4>3. F[j] = F[j - 1] \o s[j]
        BY <2>8, <4>1, Zenon
      <4>4. F[j - 1] \o s[j] \in D
        BY <1>4, <4>1, <4>2
      <4>5. QED
        BY <4>1, <4>3, <4>4
    <3>3. QED
      BY <3>1, <3>2
  <2> HIDE DEF S
  <2>11. n \in S
    BY <2>9, <2>10, UpTo
  <2>12. F[n] \in D
    BY <1>6, <2>11 DEF S
  <2>13. QED
    BY <2>1, <2>12 DEF D
<1>7. QED
  BY <1>5, <1>6

(* Whatever was compacted, compressed, stripped or left out: in the prompt *)
(* a message with calls is followed by their results, and there are no     *)
(* other results (build_llm_payload, sanitize).                            *)
THEOREM PromptSoundCorrect == ContextSpec => []PromptSound
<1>1. ContextInv => PromptSound
  <2> SUFFICES ASSUME DialogueTypes, DialogueInv, EvidenceTypes, EvidenceInv PROVE PromptPaired
    BY DEF ContextInv, ContextTypeOK, DialogueTypes, EvidenceTypes, PromptSound
  <2> DEFINE blocks == Prompt.past.blocks
             n == Len(blocks)
             Label(j) ==
               IF /\ Zone(blocks[j].distance) # 2
                  /\ j = 1 \/ Zone(blocks[j - 1].distance) # Zone(blocks[j].distance)
               THEN <<Msg("user", 1)>> ELSE <<>>
             s == [j \in DOMAIN blocks |-> Label(j) \o blocks[j].messages]
  <2>1. /\ blocks \in Seq(TurnBlock) /\ n <= Len(dialogue)
        /\ \A j \in DOMAIN blocks : blocks[j] = BlockAt(n - j)
        /\ Prompt.messages = Flattened(blocks) \o Now
    BY PromptOf DEF Took, Taking
  <2>2. DOMAIN blocks = 1..n /\ n \in Nat /\ Len(dialogue) \in Nat /\ dialogue \in Seq(Turn)
    BY <2>1 DEF DialogueTypes
  <2>3. Flattened(blocks) = FlattenSeq(s)
    BY DEF Flattened
  <2> HIDE DEF blocks
  <2>4. ASSUME NEW j \in 1..n PROVE s[j] \in Seq(Message) /\ Complete(s[j])
    <3>1. Label(j) \in Seq(Message) /\ Complete(Label(j))
      BY ShortComplete
    <3>2. PICK d \in Nat : d = n - j /\ d < n
      <4>1. n - j \in Nat /\ n - j < n
        BY <2>2
      <4>2. QED
        BY <4>1
    <3>3. Len(dialogue) - d \in 1..Len(dialogue)
      BY <2>1, <2>2, <3>2
    <3>4. dialogue[Len(dialogue) - d] \in Turn
          /\ Complete(dialogue[Len(dialogue) - d].messages)
      BY <2>2, <3>3 DEF DialogueInv
    <3>5. Protected(d) \in BOOLEAN
      <4>1. CASE d = 0
        BY <4>1 DEF Protected
      <4>2. CASE d # 0
        <5>1. Len(dialogue) - (d - 1) \in 1..Len(dialogue)
          <6>1. n <= Len(dialogue)
            BY <2>1
          <6> HIDE DEF n
          <6>2. QED
            BY <2>2, <3>2, <4>2, <6>1
        <5>2. dialogue[Len(dialogue) - (d - 1)].refers \in BOOLEAN
          BY <2>2, <5>1, TurnType
        <5>3. QED
          BY <5>2 DEF Protected
      <4>3. QED
        BY <4>1, <4>2
    <3>6. blocks[j].messages = Shown(dialogue[Len(dialogue) - d], d, Protected(d))
      <4>1. blocks[j] = BlockAt(d)
        BY <2>1, <2>2, <3>2
      <4>2. QED
        BY <4>1 DEF BlockAt
    <3>7. blocks[j].messages \in Seq(Message) /\ Complete(blocks[j].messages)
      BY <3>4, <3>5, <3>6, ShownOf
    <3>8. s[j] = Label(j) \o blocks[j].messages
      BY <2>2
    <3> HIDE DEF Label, s
    <3>9. QED
      BY <3>1, <3>7, <3>8, JoinedPaired, Joined DEF Complete
  <2>5. s \in [1..n -> Seq(Message)]
    <3>1. s = [j \in 1..n |-> s[j]]
      BY <2>2
    <3> HIDE DEF s
    <3>2. QED
      BY <2>4, <3>1
  <2> HIDE DEF s
  <2>6. FlattenSeq(s) \in Seq(Message) /\ Complete(FlattenSeq(s))
    BY <2>2, <2>4, <2>5, FlattenComplete
  <2>7. CallsPaired(FlattenSeq(s) \o Now)
    BY <2>6, NowType, JoinedPaired
  <2>8. QED
    BY <2>1, <2>3, <2>7 DEF PromptPaired
<1>2. QED
  BY ContextInvariant, <1>1, PTL

-----------------------------------------------------------------------------
(* ReplyHeard.  Where a sequence lists a set of numbers in order.          *)

Enumerates(g, S, m) ==
  /\ g \in [1..m -> S]
  /\ \A i, j \in 1..m : i < j => g[i] < g[j]
  /\ \A x \in S : \E i \in 1..m : g[i] = x

(* What lists a set is the one sequence InOrder makes of it.               *)
LEMMA EnumOrder ==
  ASSUME NEW S \in SUBSET Nat, NEW m \in Nat, NEW g, Enumerates(g, S, m)
  PROVE  IsFiniteSet(S) /\ Cardinality(S) = m /\ InOrder(S) = g
<1> DEFINE R(n) == {g[i] : i \in 1..n}
           N == {n \in 0..m : IsFiniteSet(R(n)) /\ Cardinality(R(n)) = n}
<1>1. g \in [1..m -> S] /\ (\A i, j \in 1..m : i < j => g[i] < g[j])
  BY DEF Enumerates
<1>2. \A i \in 1..m : g[i] \in S /\ g[i] \in Nat
  <2>1. \A i \in 1..m : g[i] \in S
    BY <1>1
  <2>2. QED
    BY <2>1
<1>3. 0 \in N
  <2>1. R(0) = {}
    OBVIOUS
  <2>2. QED
    BY <2>1, FS_EmptySet
<1>4. ASSUME NEW n \in 1..m, n - 1 \in N PROVE n \in N
  <2>1. R(n) = R(n - 1) \cup {g[n]}
    <3>1. \A i : i \in 1..n <=> i \in 1..(n - 1) \/ i = n
      OBVIOUS
    <3>2. QED
      BY <3>1
  <2>2. g[n] \notin R(n - 1)
    <3>1. \A i \in 1..(n - 1) : i < n /\ i \in 1..m
      OBVIOUS
    <3>2. \A i \in 1..(n - 1) : g[i] < g[n] /\ g[i] \in Nat /\ g[n] \in Nat
      BY <1>1, <1>2, <3>1
    <3>3. \A i \in 1..(n - 1) : g[i] # g[n]
      BY <3>2
    <3>4. QED
      BY <3>3
  <2>3. IsFiniteSet(R(n - 1)) /\ Cardinality(R(n - 1)) = n - 1
    BY <1>4
  <2>4. PICK T : T = R(n - 1)
    OBVIOUS
  <2>5. IsFiniteSet(T \cup {g[n]}) /\ Cardinality(T \cup {g[n]}) = Cardinality(T) + 1
    BY <2>2, <2>3, <2>4, FS_AddElement
  <2>6. Cardinality(T) + 1 = n /\ n \in 0..m
    BY <2>3, <2>4
  <2>7. IsFiniteSet(R(n)) /\ Cardinality(R(n)) = n
    BY <2>1, <2>4, <2>5, <2>6
  <2>8. QED
    BY <2>6, <2>7
<1>5. \A n \in 0..m : n \in N
  <2> HIDE DEF N
  <2>1. QED
    BY <1>3, <1>4, UpTo
<1>6. \A n \in 0..m : IsFiniteSet(R(n)) /\ Cardinality(R(n)) = n
  BY <1>5
<1>7. R(m) = S
  BY DEF Enumerates
<1>8. ASSUME NEW n \in 1..m PROVE {j \in S : j <= g[n]} = R(n)
  <2>1. ASSUME NEW i \in 1..n PROVE g[i] \in S /\ g[i] <= g[n]
    <3>1. i \in 1..m /\ g[i] \in Nat /\ g[n] \in Nat /\ g[i] \in S
      BY <1>2
    <3>2. i = n \/ i < n
      OBVIOUS
    <3>3. QED
      BY <1>1, <3>1, <3>2
  <2>2. ASSUME NEW j \in S, j <= g[n] PROVE j \in R(n)
    <3>1. PICK i \in 1..m : g[i] = j
      BY DEF Enumerates
    <3>2. ~(n < i)
      <4>1. g[i] \in Nat /\ g[n] \in Nat
        BY <1>2
      <4>2. QED
        BY <1>1, <2>2, <3>1, <4>1
    <3>3. i \in 1..n
      BY <3>2
    <3>4. QED
      BY <3>1, <3>3
  <2>3. QED
    BY <2>1, <2>2
<1> HIDE DEF R, N
<1>9. \A n \in 1..m : n \in 0..m /\ {j \in S : j <= g[n]} = R(n)
  BY <1>8
<1>10. \A n \in 1..m : Cardinality({j \in S : j <= g[n]}) = n
  BY <1>6, <1>9
<1>11. IsFiniteSet(S) /\ Cardinality(S) = m
  BY <1>6, <1>7
<1>12. ASSUME NEW n \in 1..m
       PROVE  (CHOOSE k \in S : Cardinality({j \in S : j <= k}) = n) = g[n]
  <2>1. g[n] \in S /\ Cardinality({j \in S : j <= g[n]}) = n
    BY <1>1, <1>10
  <2>2. ASSUME NEW k \in S, Cardinality({j \in S : j <= k}) = n PROVE k = g[n]
    <3>1. PICK i \in 1..m : g[i] = k
      BY DEF Enumerates
    <3>2. i = n
      BY <1>10, <2>2, <3>1
    <3>3. QED
      BY <3>1, <3>2
  <2>3. QED
    BY <2>1, <2>2
<1>13. InOrder(S) = [n \in 1..m |-> g[n]]
  BY <1>11, <1>12 DEF InOrder
<1>14. QED
  BY <1>1, <1>11, <1>13

(* And a finite set is listed by it.                                       *)
LEMMA OrderEnum ==
  ASSUME NEW S \in SUBSET Nat, IsFiniteSet(S)
  PROVE  Cardinality(S) \in Nat /\ Enumerates(InOrder(S), S, Cardinality(S))
<1> DEFINE m == Cardinality(S)
           h == InOrder(S)
           Upto(k) == {j \in S : j <= k}
<1>1. m \in Nat /\ DOMAIN h = 1..m /\ \A n \in 1..m : h[n] \in S /\ Cardinality(Upto(h[n])) = n
  BY InOrderOf
<1>2. h = [n \in 1..m |-> h[n]]
  <2>1. h = [n \in 1..m |-> CHOOSE k \in S : Cardinality({j \in S : j <= k}) = n]
    BY DEF InOrder
  <2> HIDE DEF h
  <2>2. QED
    BY <2>1
<1>3. h \in [1..m -> S]
  <2> HIDE DEF h, m
  <2>1. QED
    BY <1>1, <1>2
<1>4. ASSUME NEW k \in S PROVE IsFiniteSet(Upto(k)) /\ Cardinality(Upto(k)) \in 1..m
  <2>1. Upto(k) \in SUBSET S /\ k \in Upto(k)
    OBVIOUS
  <2>2. PICK U : U = Upto(k)
    OBVIOUS
  <2>3. IsFiniteSet(U) /\ Cardinality(U) <= m /\ Cardinality(U) \in Nat
    BY <2>1, <2>2, FS_Subset, FS_CardinalityType
  <2>4. Cardinality(U) # 0
    BY <2>1, <2>2, <2>3, FS_EmptySet
  <2>5. QED
    BY <1>1, <2>2, <2>3, <2>4
<1>5. ASSUME NEW a \in S, NEW b \in S, a < b
      PROVE  Cardinality(Upto(a)) < Cardinality(Upto(b))
  <2>1. Upto(a) \in SUBSET Upto(b) /\ b \in Upto(b) /\ b \notin Upto(a)
    <3>1. a \in Nat /\ b \in Nat
      OBVIOUS
    <3>2. \A j \in S : j \in Nat
      OBVIOUS
    <3>3. \A j \in S : j <= a => j <= b
      BY <1>5, <3>1, <3>2
    <3>4. ~(b <= a) /\ b <= b
      BY <1>5, <3>1
    <3>5. QED
      BY <3>3, <3>4
  <2>2. PICK A, B : A = Upto(a) /\ B = Upto(b)
    OBVIOUS
  <2>3. IsFiniteSet(B) /\ Cardinality(A) \in Nat /\ Cardinality(B) \in Nat
    BY <1>4, <2>2
  <2>4. Cardinality(A) <= Cardinality(B) /\ Cardinality(A) # Cardinality(B)
    BY <2>1, <2>2, <2>3, FS_Subset
  <2>5. QED
    BY <2>2, <2>3, <2>4
<1> HIDE DEF h, m, Upto
<1>6. ASSUME NEW i \in 1..m, NEW j \in 1..m, i < j PROVE h[i] < h[j]
  <2>1. h[i] \in Nat /\ h[j] \in Nat /\ h[i] \in S /\ h[j] \in S
    BY <1>1
  <2>2. Cardinality(Upto(h[i])) = i /\ Cardinality(Upto(h[j])) = j
    BY <1>1
  <2>3. CASE h[i] = h[j]
    BY <1>6, <2>2, <2>3
  <2>4. CASE h[j] < h[i]
    <3>1. Cardinality(Upto(h[j])) < Cardinality(Upto(h[i]))
      BY <1>5, <2>1, <2>4
    <3>2. QED
      BY <1>6, <2>2, <3>1
  <2>5. QED
    BY <2>1, <2>3, <2>4
<1>7. ASSUME NEW x \in S PROVE \E i \in 1..m : h[i] = x
  <2>1. PICK i \in 1..m : i = Cardinality(Upto(x))
    BY <1>4
  <2>2. h[i] \in S /\ Cardinality(Upto(h[i])) = i /\ h[i] \in Nat /\ x \in Nat
    BY <1>1
  <2>3. ~(h[i] < x)
    BY <1>5, <2>1, <2>2
  <2>4. ~(x < h[i])
    BY <1>5, <2>1, <2>2
  <2>5. QED
    BY <2>2, <2>3, <2>4
<1>8. Enumerates(h, S, m)
  BY <1>3, <1>6, <1>7 DEF Enumerates
<1>9. QED
  BY <1>1, <1>8 DEF h, m

(* A number above all of a set comes last.                                 *)
With(g, m, x) == [i \in 1..(m + 1) |-> IF i = m + 1 THEN x ELSE g[i]]

LEMMA EnumAppend ==
  ASSUME NEW S \in SUBSET Nat, NEW m \in Nat, NEW g, Enumerates(g, S, m),
         NEW x \in Nat, \A y \in S : y < x
  PROVE  Enumerates(With(g, m, x), S \cup {x}, m + 1)
<1> DEFINE h == With(g, m, x)
<1>1. \A i \in 1..m : g[i] \in S
  BY DEF Enumerates
<1>2. \A i \in 1..m : h[i] = g[i] /\ i \in 1..(m + 1)
  BY DEF With
<1>3. h[m + 1] = x
  BY DEF With
<1>4. h = [i \in 1..(m + 1) |-> h[i]]
  BY DEF With
<1>5. \A i \in 1..(m + 1) : i \in 1..m \/ i = m + 1
  OBVIOUS
<1> HIDE DEF h
<1>6. \A i \in 1..(m + 1) : h[i] \in S \cup {x}
  BY <1>1, <1>2, <1>3, <1>5
<1>7. h \in [1..(m + 1) -> S \cup {x}]
  BY <1>4, <1>6
<1>8. ASSUME NEW i \in 1..(m + 1), NEW j \in 1..(m + 1), i < j PROVE h[i] < h[j]
  <2>1. i \in 1..m
    BY <1>5, <1>8
  <2>2. CASE j \in 1..m
    <3>1. g[i] < g[j]
      BY <1>8, <2>1, <2>2 DEF Enumerates
    <3>2. QED
      BY <1>2, <2>1, <2>2, <3>1
  <2>3. CASE j = m + 1
    BY <1>1, <1>2, <1>3, <2>1, <2>3
  <2>4. QED
    BY <1>5, <2>2, <2>3
<1>9. ASSUME NEW y \in S \cup {x} PROVE \E i \in 1..(m + 1) : h[i] = y
  <2>1. CASE y \in S
    <3>1. PICK i \in 1..m : g[i] = y
      BY <2>1 DEF Enumerates
    <3>2. QED
      BY <1>2, <3>1
  <2>2. CASE y = x
    <3>1. m + 1 \in 1..(m + 1)
      OBVIOUS
    <3>2. QED
      BY <1>3, <2>2, <3>1
  <2>3. QED
    BY <2>1, <2>2
<1>10. QED
  BY <1>7, <1>8, <1>9 DEF Enumerates, h

(* How many there are before the one at i.                                 *)
Below(S, x) == {y \in S : y < x}

LEMMA EnumBefore ==
  ASSUME NEW S \in SUBSET Nat, NEW m \in Nat, NEW g, Enumerates(g, S, m), NEW i \in 1..m
  PROVE  Cardinality(Below(S, g[i])) = i - 1
<1> DEFINE T == {x \in S : x < g[i]}
           h == [j \in 1..(i - 1) |-> g[j]]
<1>1. \A j \in 1..m : g[j] \in S
  BY DEF Enumerates
<1>2. \A j \in 1..m : g[j] \in Nat
  BY <1>1
<1>3. \A j \in 1..(i - 1) : j \in 1..m /\ j < i
  OBVIOUS
<1>4. \A j \in 1..(i - 1) : g[j] \in S /\ g[j] < g[i]
  BY <1>1, <1>3 DEF Enumerates
<1>5. h \in [1..(i - 1) -> T]
  BY <1>4
<1>6. \A j, k \in 1..(i - 1) : j < k => h[j] < h[k]
  BY <1>3 DEF Enumerates
<1>7. ASSUME NEW x \in T PROVE \E j \in 1..(i - 1) : h[j] = x
  <2>1. PICK j \in 1..m : g[j] = x
    BY DEF Enumerates
  <2>2. g[j] < g[i] /\ g[i] \in Nat /\ g[j] \in Nat
    BY <1>2, <2>1
  <2>3. ~(i < j) /\ i # j
    BY <2>2 DEF Enumerates
  <2>4. j \in 1..(i - 1)
    BY <2>3
  <2>5. QED
    BY <2>1, <2>4
<1>8. Enumerates(h, T, i - 1)
  BY <1>5, <1>6, <1>7 DEF Enumerates
<1>9. T \in SUBSET Nat /\ i - 1 \in Nat
  <2>1. T \subseteq S
    OBVIOUS
  <2>2. i - 1 \in Nat
    OBVIOUS
  <2> HIDE DEF T
  <2>3. QED
    BY <2>1, <2>2
<1> HIDE DEF T, h
<1>10. Cardinality(T) = i - 1
  BY <1>8, <1>9, EnumOrder
<1>11. QED
  BY <1>10 DEF T, Below

(* If at lists places of one sequence by those of another, and P are some  *)
(* of these and Q those of it, then P and Q in order correspond.           *)
Picks(P, m, at, Q) == P \subseteq 1..m /\ Q = {at[i] : i \in P}
Mirrors(P, at, Q) ==
  \E r \in Nat : /\ Enumerates(InOrder(P), P, r)
                 /\ DOMAIN InOrder(Q) = 1..r
                 /\ \A i \in 1..r : InOrder(Q)[i] = at[InOrder(P)[i]]

LEMMA OrderMatch ==
  ASSUME NEW S \in SUBSET Nat, NEW m \in Nat, NEW at, Enumerates(at, S, m),
         NEW P, NEW Q, Picks(P, m, at, Q)
  PROVE  Mirrors(P, at, Q)
<1> DEFINE r == Cardinality(P)
           h == InOrder(P)
           k == [i \in 1..r |-> at[h[i]]]
<1>0. P \in SUBSET (1..m) /\ Q = {at[i] : i \in P}
  BY DEF Picks
<1>1. IsFiniteSet(P) /\ P \in SUBSET Nat
  <2>1. IsFiniteSet(1..m)
    BY FS_Interval
  <2>2. IsFiniteSet(P)
    BY <1>0, <2>1, FS_Subset
  <2>3. \A p \in P : p \in Nat
    BY <1>0
  <2>4. QED
    BY <2>2, <2>3
<1>2. r \in Nat /\ Enumerates(h, P, r)
  BY <1>1, OrderEnum
<1> HIDE DEF r, h
<1>3. \A i \in 1..r : h[i] \in P /\ h[i] \in 1..m
  <2>1. \A i \in 1..r : h[i] \in P
    BY <1>2 DEF Enumerates
  <2>2. QED
    BY <1>0, <2>1
<1>4. \A i \in 1..m : at[i] \in S
  BY DEF Enumerates
<1>5. Q \in SUBSET Nat
  <2>1. \A i \in P : at[i] \in Nat
    BY <1>0, <1>4
  <2>2. QED
    BY <1>0, <2>1
<1>6. k \in [1..r -> Q]
  <2>1. \A i \in 1..r : at[h[i]] \in Q
    BY <1>0, <1>3
  <2>2. QED
    BY <2>1
<1>7. \A i, j \in 1..r : i < j => k[i] < k[j]
  <2>1. \A i, j \in 1..r : i < j => h[i] < h[j]
    BY <1>2 DEF Enumerates
  <2>2. \A i, j \in 1..r : i < j => at[h[i]] < at[h[j]]
    BY <1>3, <2>1 DEF Enumerates
  <2>3. QED
    BY <2>2
<1>8. ASSUME NEW q \in Q PROVE \E i \in 1..r : k[i] = q
  <2>1. PICK p \in P : q = at[p]
    BY <1>0
  <2>2. PICK i \in 1..r : h[i] = p
    BY <1>2, <2>1 DEF Enumerates
  <2>3. QED
    BY <2>1, <2>2
<1>9. Enumerates(k, Q, r)
  BY <1>6, <1>7, <1>8 DEF Enumerates
<1> HIDE DEF k
<1>10. InOrder(Q) = k
  BY <1>2, <1>5, <1>9, EnumOrder
<1>11. DOMAIN InOrder(Q) = 1..r /\ \A i \in 1..r : InOrder(Q)[i] = at[InOrder(P)[i]]
  BY <1>10 DEF k, h
<1>12. QED
  BY <1>2, <1>11 DEF h, Mirrors

(* The lines of which an event is sent at once, and the events sent of the *)
(* first n lines.                                                          *)
Audible(lines, n) ==
  {k \in 1..n : \/ lines[k].kind \in {"text", "thought"}
                \/ lines[k].kind = "call" /\ lines[k].pieces # Nil}
Hears(e, line) ==
  /\ e.kind = line.kind
  /\ IF line.kind = "call"
       THEN e.name = line.name /\ e.args = Parsed(line.pieces) /\ e.id = line.id
       ELSE e.line = line.of
Recites(es, lines, n) ==
  \E at : /\ Enumerates(at, Audible(lines, n), Len(es))
          /\ \A k \in 1..Len(es) : Hears(es[k], lines[at[k]])

(* A line that sends nothing, and one that sends an event.                 *)
LEMMA ReciteSkip ==
  ASSUME NEW es, NEW lines, NEW n \in Nat, Recites(es, lines, n),
         n + 1 \notin Audible(lines, n + 1)
  PROVE  Recites(es, lines, n + 1)
<1>1. Audible(lines, n + 1) = Audible(lines, n)
  <2>1. \A k : k \in 1..(n + 1) <=> k \in 1..n \/ k = n + 1
    OBVIOUS
  <2>2. QED
    BY <2>1 DEF Audible
<1>2. QED
  BY <1>1 DEF Recites

LEMMA ReciteMore ==
  ASSUME NEW es, IsSeq(es), NEW lines, NEW n \in Nat, Recites(es, lines, n),
         n + 1 \in Audible(lines, n + 1), NEW e, Hears(e, lines[n + 1])
  PROVE  Recites(Append(es, e), lines, n + 1)
<1> DEFINE A == Audible(lines, n)
           m == Len(es)
<1>1. Audible(lines, n + 1) = A \cup {n + 1}
  <2>1. \A k : k \in 1..(n + 1) <=> k \in 1..n \/ k = n + 1
    OBVIOUS
  <2>2. QED
    BY <2>1 DEF Audible
<1>2. A \in SUBSET Nat /\ \A y \in A : y < n + 1
  <2>1. \A y \in A : y \in 1..n
    BY DEF Audible
  <2>2. \A y \in A : y \in Nat /\ y < n + 1
    BY <2>1
  <2>3. QED
    BY <2>2
<1>3. /\ m \in Nat /\ Len(Append(es, e)) = m + 1
      /\ \A k \in 1..m : Append(es, e)[k] = es[k]
      /\ Append(es, e)[m + 1] = e
  BY AppendSeq
<1>4. PICK at : /\ Enumerates(at, A, m)
                /\ \A k \in 1..m : Hears(es[k], lines[at[k]])
  BY DEF Recites
<1>5. PICK new : new = Append(es, e)
  OBVIOUS
<1> DEFINE to == With(at, m, n + 1)
<1> HIDE DEF A, m
<1>6. Enumerates(to, A \cup {n + 1}, m + 1)
  BY <1>2, <1>3, <1>4, EnumAppend
<1>7. (\A k \in 1..m : to[k] = at[k]) /\ to[m + 1] = n + 1
  BY <1>3 DEF With
<1> HIDE DEF to
<1>8. ASSUME NEW k \in 1..(m + 1) PROVE Hears(new[k], lines[to[k]])
  <2>1. CASE k \in 1..m
    BY <1>3, <1>4, <1>5, <1>7, <2>1
  <2>2. CASE k = m + 1
    BY <1>3, <1>5, <1>7, <2>2
  <2>3. QED
    BY <1>3, <2>1, <2>2
<1>9. Len(new) = m + 1
  BY <1>3, <1>5
<1>10. Recites(new, lines, n + 1)
  BY <1>1, <1>6, <1>8, <1>9 DEF Recites, A
<1>11. QED
  BY <1>5, <1>10

(* The events of some kinds tell the lines of these kinds, one by one.     *)
EventsOf(es, kinds) == {k \in 1..Len(es) : es[k].kind \in kinds}
LinesOf(lines, n, kinds) == {k \in Audible(lines, n) : lines[k].kind \in kinds}

LEMMA Matched ==
  ASSUME NEW es, IsSeq(es), NEW lines, NEW n \in Nat, Recites(es, lines, n), NEW kinds,
         NEW sent, \A k \in 1..Len(es) : sent[k] = es[k],
         NEW P, P = EventsOf(es, kinds), NEW Q, Q = LinesOf(lines, n, kinds)
  PROVE  \E r \in Nat :
           /\ Len(Those(sent, P)) = r /\ DOMAIN Those(sent, P) = 1..r
           /\ Len(Those(lines, Q)) = r /\ DOMAIN Those(lines, Q) = 1..r
           /\ \A k \in 1..r : /\ Hears(Those(sent, P)[k], Those(lines, Q)[k])
                              /\ \E q \in Q : Those(lines, Q)[k] = lines[q]
<1> DEFINE A == Audible(lines, n)
           m == Len(es)
<1>1. A \in SUBSET Nat
  <2>1. \A k \in A : k \in Nat
    BY DEF Audible
  <2>2. QED
    BY <2>1
<1>2. m \in Nat
  BY AppendSeq
<1>3. PICK at : /\ Enumerates(at, A, m)
                /\ \A k \in 1..m : Hears(es[k], lines[at[k]])
  BY DEF Recites
<1>4. /\ P = {k \in 1..Len(es) : es[k].kind \in kinds}
      /\ Q = {k \in Audible(lines, n) : lines[k].kind \in kinds}
  BY DEF EventsOf, LinesOf
<1>5. P \in SUBSET (1..m)
  BY <1>4
<1>6. Picks(P, m, at, Q)
  <2>1. \A k \in P : at[k] \in A /\ lines[at[k]].kind = es[k].kind
    BY <1>4, <1>3 DEF Enumerates, Hears
  <2>2. \A k \in P : at[k] \in Q
    BY <1>4, <2>1
  <2>3. ASSUME NEW q \in Q PROVE \E k \in P : q = at[k]
    <3>1. PICK k \in 1..m : at[k] = q
      BY <1>4, <1>3 DEF Enumerates
    <3>2. es[k].kind = lines[q].kind
      BY <1>3, <3>1 DEF Hears
    <3>3. QED
      BY <1>4, <3>1, <3>2
  <2>4. Q = {at[k] : k \in P}
    BY <2>2, <2>3
  <2>5. QED
    BY <1>5, <2>4 DEF Picks
<1> HIDE DEF A, m
<1>7. Mirrors(P, at, Q)
  BY <1>1, <1>2, <1>3, <1>6, OrderMatch
<1>8. \A k \in P : at[k] \in Q
  BY <1>6 DEF Picks
<1>9. PICK r \in Nat : /\ Enumerates(InOrder(P), P, r)
                      /\ DOMAIN InOrder(Q) = 1..r
                      /\ \A i \in 1..r : InOrder(Q)[i] = at[InOrder(P)[i]]
  BY <1>7 DEF Mirrors
<1>10. PICK h : /\ h = InOrder(P) /\ Enumerates(h, P, r)
               /\ DOMAIN InOrder(Q) = 1..r
               /\ \A i \in 1..r : InOrder(Q)[i] = at[h[i]]
  BY <1>9
<1>11. h \in [1..r -> P]
  BY <1>10 DEF Enumerates
<1>12. Those(sent, P) = [c \in 1..r |-> sent[h[c]]]
  BY <1>10, <1>11 DEF Those
<1>13. Those(lines, Q) = [c \in 1..r |-> lines[at[h[c]]]]
  BY <1>10 DEF Those
<1>14. Len(Those(sent, P)) = r /\ Len(Those(lines, Q)) = r
  <2>1. PICK s, t : s = Those(sent, P) /\ t = Those(lines, Q)
    OBVIOUS
  <2>2. /\ DOMAIN s = 1..r /\ s = [k \in 1..r |-> s[k]]
        /\ DOMAIN t = 1..r /\ t = [k \in 1..r |-> t[k]]
    BY <1>12, <1>13, <2>1
  <2>3. QED
    BY <2>1, <2>2, ShortSeqs
<1>15. ASSUME NEW k \in 1..r
       PROVE  /\ Hears(Those(sent, P)[k], Those(lines, Q)[k])
              /\ \E q \in Q : Those(lines, Q)[k] = lines[q]
  <2>1. h[k] \in P /\ h[k] \in 1..m
    BY <1>5, <1>11
  <2>2. Those(sent, P)[k] = es[h[k]] /\ Those(lines, Q)[k] = lines[at[h[k]]]
    BY <1>12, <1>13, <2>1 DEF m
  <2>3. at[h[k]] \in Q
    BY <1>8, <2>1
  <2>4. QED
    BY <1>3, <2>1, <2>2, <2>3
<1>16. QED
  BY <1>12, <1>13, <1>14, <1>15

-----------------------------------------------------------------------------
(* The fragments of the calls of a reply.                                  *)

(* One line more: if it is of no call, nothing changes; ...                *)
LEMMA NoCallLine ==
  ASSUME NEW lines, NEW n \in Nat, ~IsCall(lines[n + 1])
  PROVE  /\ \A c : /\ CallLines(lines, c, n + 1) = CallLines(lines, c, n)
                   /\ Pieces(lines, c, n + 1) = Pieces(lines, c, n)
                   /\ Namings(lines, c, n + 1) = Namings(lines, c, n)
         /\ Begun(lines, n + 1) = Begun(lines, n)
         /\ \A i, from : Opened(lines, i, from, n + 1) = Opened(lines, i, from, n)
<1>1. \A k : k \in 1..(n + 1) <=> k \in 1..n \/ k = n + 1
  OBVIOUS
<1>2. \A c : CallLines(lines, c, n + 1) = CallLines(lines, c, n)
  BY <1>1 DEF CallLines
<1>3. Begun(lines, n + 1) = Begun(lines, n)
  BY <1>1 DEF Begun
<1>4. QED
  BY <1>2, <1>3 DEF Pieces, Namings, Opened

(* ... if it is, its call has a line more, and is begun if it had none.    *)
LEMMA CallLine ==
  ASSUME NEW lines, NEW n \in Nat, IsCall(lines[n + 1]), NEW c, c = lines[n + 1].call
  PROVE  /\ CallLines(lines, c, n + 1) = CallLines(lines, c, n) \cup {n + 1}
         /\ lines[n + 1].args = Nil => Pieces(lines, c, n + 1) = Pieces(lines, c, n)
         /\ lines[n + 1].args # Nil =>
              Pieces(lines, c, n + 1) = Pieces(lines, c, n) \cup {n + 1}
         /\ lines[n + 1].name = Nil => Namings(lines, c, n + 1) = Namings(lines, c, n)
         /\ lines[n + 1].name # Nil =>
              Namings(lines, c, n + 1) = Namings(lines, c, n) \cup {n + 1}
         /\ CallLines(lines, c, n) # {} => Begun(lines, n + 1) = Begun(lines, n)
         /\ CallLines(lines, c, n) = {} => Begun(lines, n + 1) = Begun(lines, n) \cup {n + 1}
<1>1. \A k : k \in 1..(n + 1) <=> k \in 1..n \/ k = n + 1
  OBVIOUS
<1>2. CallLines(lines, c, n + 1) = CallLines(lines, c, n) \cup {n + 1}
  BY <1>1 DEF CallLines
<1>3. (n + 1) - 1 = n
  OBVIOUS
<1>4. CallLines(lines, c, n) # {} => Begun(lines, n + 1) = Begun(lines, n)
  BY <1>1, <1>3 DEF Begun
<1>5. CallLines(lines, c, n) = {} => Begun(lines, n + 1) = Begun(lines, n) \cup {n + 1}
  BY <1>1, <1>3 DEF Begun
<1>6. lines[n + 1].args = Nil => Pieces(lines, c, n + 1) = Pieces(lines, c, n)
  BY <1>2 DEF Pieces
<1>7. lines[n + 1].args # Nil => Pieces(lines, c, n + 1) = Pieces(lines, c, n) \cup {n + 1}
  BY <1>2 DEF Pieces
<1>8. lines[n + 1].name = Nil => Namings(lines, c, n + 1) = Namings(lines, c, n)
  BY <1>2 DEF Namings
<1>9. lines[n + 1].name # Nil => Namings(lines, c, n + 1) = Namings(lines, c, n) \cup {n + 1}
  BY <1>2 DEF Namings
<1>10. QED
  BY <1>2, <1>4, <1>5, <1>6, <1>7, <1>8, <1>9

(* The other calls have no line more.                                      *)
LEMMA OtherLine ==
  ASSUME NEW lines, NEW n \in Nat, NEW d, d # lines[n + 1].call
  PROVE  /\ CallLines(lines, d, n + 1) = CallLines(lines, d, n)
         /\ Pieces(lines, d, n + 1) = Pieces(lines, d, n)
         /\ Namings(lines, d, n + 1) = Namings(lines, d, n)
<1>1. \A k : k \in 1..(n + 1) <=> k \in 1..n \/ k = n + 1
  OBVIOUS
<1>2. CallLines(lines, d, n + 1) = CallLines(lines, d, n)
  BY <1>1 DEF CallLines
<1>3. QED
  BY <1>2 DEF Pieces, Namings

(* A call is begun by the first of its lines, and by no other.             *)
LEMMA BegunOnce ==
  ASSUME NEW lines, NEW n \in Nat
  PROVE  /\ \A c : CallLines(lines, c, n) # {} =>
                     \E b \in Begun(lines, n) : lines[b].call = c
         /\ \A a, b \in Begun(lines, n) : lines[a].call = lines[b].call => a = b
         /\ \A b \in Begun(lines, n) :
              b \in 1..n /\ IsCall(lines[b]) /\ b \in CallLines(lines, lines[b].call, n)
<1>1. ASSUME NEW c, CallLines(lines, c, n) # {}
      PROVE  \E b \in Begun(lines, n) : lines[b].call = c
  <2>1. CallLines(lines, c, n) \in SUBSET Nat
    <3>1. \A k \in CallLines(lines, c, n) : k \in Nat
      BY DEF CallLines
    <3>2. QED
      BY <3>1
  <2>2. PICK b \in CallLines(lines, c, n) : \A k \in CallLines(lines, c, n) : b <= k
    BY <1>1, <2>1, HasLeast
  <2>3. b \in 1..n /\ IsCall(lines[b]) /\ lines[b].call = c
    BY DEF CallLines
  <2>4. ASSUME NEW k \in CallLines(lines, c, b - 1) PROVE FALSE
    <3>1. k \in 1..(b - 1) /\ IsCall(lines[k]) /\ lines[k].call = c
      BY DEF CallLines
    <3>2. k \in 1..n /\ ~(b <= k)
      BY <2>3, <3>1
    <3>3. k \in CallLines(lines, c, n)
      BY <3>1, <3>2 DEF CallLines
    <3>4. QED
      BY <2>2, <3>2, <3>3
  <2>5. QED
    BY <2>3, <2>4 DEF Begun
<1>2. \A b \in Begun(lines, n) : b \in 1..n /\ IsCall(lines[b])
  BY DEF Begun
<1>3. ASSUME NEW a \in Begun(lines, n), NEW b \in Begun(lines, n),
             lines[a].call = lines[b].call, a < b
      PROVE  FALSE
  <2>1. a \in 1..(b - 1) /\ IsCall(lines[a])
    BY <1>2, <1>3
  <2>2. a \in CallLines(lines, lines[b].call, b - 1)
    BY <1>3, <2>1 DEF CallLines
  <2>3. QED
    BY <2>2 DEF Begun
<1>4. \A a, b \in Begun(lines, n) : lines[a].call = lines[b].call => a = b
  <2>1. \A a, b \in Begun(lines, n) : a = b \/ a < b \/ b < a
    BY <1>2
  <2>2. QED
    BY <1>3, <2>1
<1>5. QED
  BY <1>1, <1>2, <1>4 DEF CallLines

(* What the entry of a call holds after the first n lines.                 *)
EntryOf(entry, lines, c, n) ==
  /\ entry.args = [p \in 1..Cardinality(Pieces(lines, c, n)) |-> <<c, p>>]
  /\ entry.name = Spelt(c, Cardinality(Namings(lines, c, n)))

(* One piece of a name more: it is added while the name is not whole.      *)
LEMMA NameMore ==
  ASSUME NEW c \in Calls, NEW N \in Nat, NEW entry, entry.name = Spelt(c, N),
         NEW f, f.name # Nil, Spells(f.name, c, N + 1), NEW intact
  PROVE  AddFragment(entry, f, intact).name = Spelt(c, N + 1)
<1>1. PICK L : L = Len(Spelling[c])
  OBVIOUS
<1>2. L \in Nat \ {0} /\ NameOf(c) # <<>> /\ NameOf(c) = Spelling[c][L]
  BY <1>1, LlmStreamAssumption DEF NameOf, Last
<1>3. (N + 1) - 1 = N /\ N + 1 # 0
  OBVIOUS
<1>4. CASE N + 1 <= L
  <2>1. /\ Spelt(c, N + 1) = entry.name \o f.name
        /\ entry.name = <<>> \/ ~Within(f.name, entry.name)
    BY <1>1, <1>3, <1>4 DEF Spells
  <2>2. ~Repeats(entry, f)
    BY <2>1 DEF Repeats
  <2>3. QED
    BY <2>1, <2>2 DEF AddFragment
<1>5. CASE ~(N + 1 <= L)
  <2>1. Within(f.name, NameOf(c))
    BY <1>1, <1>5 DEF Spells
  <2>2. Spelt(c, N + 1) = NameOf(c)
    BY <1>1, <1>3, <1>5 DEF Spelt
  <2>3. N # 0 /\ (N <= L => N = L)
    BY <1>2, <1>5
  <2>4. Spelt(c, N) = NameOf(c)
    BY <1>1, <1>2, <2>3 DEF Spelt
  <2>5. Repeats(entry, f)
    BY <1>2, <2>1, <2>4 DEF Repeats
  <2>6. QED
    BY <2>2, <2>4, <2>5 DEF AddFragment
<1>6. QED
  BY <1>4, <1>5

LEMMA EntryMore ==
  ASSUME NEW lines, NEW n \in Nat, n + 1 \in DOMAIN lines, InFragments(lines),
         lines[n + 1].kind = "fragment", NEW c, c = lines[n + 1].call,
         NEW entry, EntryOf(entry, lines, c, n), NEW intact
  PROVE  EntryOf(AddFragment(entry, lines[n + 1], intact), lines, c, n + 1)
<1> DEFINE f == lines[n + 1]
           P == Pieces(lines, c, n)
           N == Cardinality(P)
           new == AddFragment(entry, f, intact)
<1>1. IsCall(f)
  BY DEF IsCall
<1>2. /\ CallLines(lines, c, n + 1) = CallLines(lines, c, n) \cup {n + 1}
      /\ f.args = Nil => Pieces(lines, c, n + 1) = P
      /\ f.args # Nil => Pieces(lines, c, n + 1) = P \cup {n + 1}
  BY <1>1, CallLine
<1>3. IsFiniteSet(P) /\ N \in Nat /\ n + 1 \notin P
  <2>1. P \in SUBSET (1..n)
    BY DEF Pieces, CallLines
  <2>2. IsFiniteSet(1..n)
    BY FS_Interval
  <2> HIDE DEF P
  <2>3. IsFiniteSet(P)
    BY <2>1, <2>2, FS_Subset
  <2>4. QED
    BY <2>1, <2>3, FS_CardinalityType
<1>4. new.args = [p \in 1..Cardinality(Pieces(lines, c, n + 1)) |-> <<c, p>>]
  <2>1. entry.args = [p \in 1..N |-> <<c, p>>]
    BY DEF EntryOf
  <2>2. CASE f.args = Nil
    BY <1>2, <2>1, <2>2 DEF AddFragment
  <2>3. CASE f.args # Nil
    <3>1. PICK U : U = P
      OBVIOUS
    <3>2. Cardinality(U \cup {n + 1}) = Cardinality(U) + 1
      BY <1>3, <3>1, FS_AddElement
    <3>3. Cardinality(Pieces(lines, c, n + 1)) = N + 1
      BY <1>2, <2>3, <3>1, <3>2
    <3>4. f.args = <<c, N + 1>>
      BY <2>3, <3>3 DEF InFragments
    <3>5. new.args = Append(entry.args, f.args)
      BY <2>3 DEF AddFragment
    <3> HIDE DEF new, f, N
    <3>6. PICK s, e : s = entry.args /\ e = f.args
      OBVIOUS
    <3>7. DOMAIN s = 1..N /\ (\A k \in 1..N : s[k] = <<c, k>>) /\ IsSeq(s) /\ Len(s) = N
      <4>1. DOMAIN s = 1..N /\ \A k \in 1..N : s[k] = <<c, k>>
        BY <2>1, <3>6
      <4>2. s = [k \in 1..N |-> s[k]]
        BY <2>1, <3>6
      <4>3. QED
        BY <1>3, <4>1, <4>2, ShortSeqs
    <3>8. /\ IsSeq(Append(s, e)) /\ DOMAIN Append(s, e) = 1..(N + 1)
          /\ (\A k \in 1..N : Append(s, e)[k] = s[k]) /\ Append(s, e)[N + 1] = e
      BY <3>7, AppendSeq
    <3>9. PICK t : t = Append(s, e)
      OBVIOUS
    <3>10. \A k \in 1..(N + 1) : k \in 1..N \/ k = N + 1
      BY <1>3
    <3>11. \A k \in 1..(N + 1) : t[k] = <<c, k>>
      BY <3>4, <3>6, <3>7, <3>8, <3>9, <3>10
    <3>12. t = [k \in 1..(N + 1) |-> t[k]]
      <4>1. t \in Seq(ToSet(t)) /\ DOMAIN t = 1..(N + 1)
        BY <3>8, <3>9 DEF IsSeq
      <4>2. QED
        BY <4>1
    <3>13. t = [k \in 1..(N + 1) |-> <<c, k>>]
      BY <3>11, <3>12
    <3>14. QED
      BY <3>3, <3>5, <3>6, <3>9, <3>13
  <2>4. QED
    BY <2>2, <2>3
<1>5. PICK V, N2 : V = Namings(lines, c, n) /\ N2 = Cardinality(V) /\ N2 \in Nat
                   /\ IsFiniteSet(V) /\ n + 1 \notin V
  <2>1. PICK V : V = Namings(lines, c, n)
    OBVIOUS
  <2>2. V \in SUBSET (1..n)
    BY <2>1 DEF Namings, CallLines
  <2>3. IsFiniteSet(V)
    <3>1. IsFiniteSet(1..n)
      BY FS_Interval
    <3>2. QED
      BY <2>2, <3>1, FS_Subset
  <2>4. n + 1 \notin V
    BY <2>2
  <2>5. QED
    BY <2>1, <2>3, <2>4, FS_CardinalityType
<1>6. new.name = Spelt(c, Cardinality(Namings(lines, c, n + 1)))
  <2>1. entry.name = Spelt(c, N2)
    BY <1>5 DEF EntryOf
  <2>2. CASE f.name = Nil
    <3>1. Namings(lines, c, n + 1) = V
      <4>1. lines[n + 1].name = Nil
        BY <2>2
      <4>2. Namings(lines, c, n + 1) = Namings(lines, c, n)
        BY <1>1, <4>1, CallLine
      <4>3. QED
        BY <1>5, <4>2
    <3>2. QED
      BY <1>5, <2>1, <2>2, <3>1 DEF AddFragment
  <2>3. CASE f.name # Nil
    <3>1. Namings(lines, c, n + 1) = V \cup {n + 1}
      <4>1. lines[n + 1].name # Nil
        BY <2>3
      <4>2. Namings(lines, c, n + 1) = Namings(lines, c, n) \cup {n + 1}
        BY <1>1, <4>1, CallLine
      <4>3. QED
        BY <1>5, <4>2
    <3>2. Cardinality(Namings(lines, c, n + 1)) = N2 + 1
      BY <1>5, <3>1, FS_AddElement
    <3>3. c \in Calls /\ Spells(f.name, c, N2 + 1)
      BY <2>3, <3>2 DEF InFragments
    <3> HIDE DEF f
    <3>4. QED
      BY <1>5, <2>1, <2>3, <3>2, <3>3, NameMore
  <2>4. QED
    BY <2>2, <2>3
<1> HIDE DEF new
<1>7. EntryOf(new, lines, c, n + 1)
  BY <1>4, <1>6 DEF EntryOf
<1>8. QED
  BY <1>7 DEF new

(* A call of which no line has come has an empty entry.                    *)
LEMMA EntryNone ==
  ASSUME NEW lines, NEW n \in Nat, NEW c, CallLines(lines, c, n) = {},
         NEW acc, NEW k, k \notin DOMAIN acc.tools
  PROVE  EntryOf(Entry(acc, k), lines, c, n) /\ Entry(acc, k).id = Nil
<1>1. Pieces(lines, c, n) = {} /\ Namings(lines, c, n) = {}
  BY DEF Pieces, Namings
<1>2. Cardinality(Pieces(lines, c, n)) = 0 /\ Cardinality(Namings(lines, c, n)) = 0
  BY <1>1, FS_EmptySet
<1>3. Entry(acc, k).name = <<>> /\ Entry(acc, k).args = <<>> /\ Entry(acc, k).id = Nil
  BY DEF Entry
<1>4. [p \in 1..0 |-> <<c, p>>] = <<>>
  OBVIOUS
<1>5. QED
  BY <1>2, <1>3, <1>4 DEF EntryOf, Spelt

(* active_tools and index_map after the first n lines: an entry for each   *)
(* call that is begun, in that order, and for the index with which the     *)
(* last call with an id was begun the place of this call.                  *)
Sorts(begun, m, t, p, lines, n) ==
  /\ Enumerates(begun, Begun(lines, n), m)
  /\ DOMAIN t = 0..(m - 1)
  /\ \A i \in 1..m : /\ t[i - 1].id = lines[begun[i]].id
                     /\ EntryOf(t[i - 1], lines, lines[begun[i]].call, n)
  /\ \A x : x \in DOMAIN p <=>
       \E b \in Begun(lines, n) : lines[b].id # Nil /\ lines[b].index = x
  /\ \A i \in 1..m :
       LET line == lines[begun[i]]
       IN line.id # Nil /\ Opened(lines, line.index, begun[i] + 1, n) = {} =>
            p[line.index] = i - 1
Sorted(t, p, lines, n) == \E m \in Nat : \E begun : Sorts(begun, m, t, p, lines, n)

(* The line after the first n is the fragment f.                           *)
FragmentAt(lines, n, f) ==
  n + 1 \in DOMAIN lines /\ InFragments(lines) /\ f = lines[n + 1] /\ f.kind = "fragment"

(* The calls that are begun, as the numbers of their first lines.          *)
LEMMA BegunType ==
  ASSUME NEW lines, NEW n \in Nat, NEW m \in Nat, NEW begun,
         Enumerates(begun, Begun(lines, n), m)
  PROVE  /\ Begun(lines, n) \in SUBSET Nat /\ Cardinality(Begun(lines, n)) = m
         /\ \A i \in 1..m : begun[i] \in Begun(lines, n) /\ begun[i] \in 1..n
<1>1. \A b \in Begun(lines, n) : b \in 1..n /\ b \in Nat
  BY DEF Begun
<1>2. Begun(lines, n) \in SUBSET Nat
  BY <1>1
<1>3. \A i \in 1..m : begun[i] \in Begun(lines, n)
  BY DEF Enumerates
<1>4. Cardinality(Begun(lines, n)) = m
  BY <1>2, EnumOrder
<1>5. QED
  BY <1>1, <1>2, <1>3, <1>4

(* Nothing is opened in between if what comes after is not.                *)
LEMMA OpenedAt ==
  ASSUME NEW lines, NEW n \in Nat, NEW i, Opened(lines, i, 1, n) = {}
  PROVE  \A b \in Begun(lines, n) : ~(lines[b].id # Nil /\ lines[b].index = i)
<1>1. \A b \in Begun(lines, n) : b \in 1..n
  BY DEF Begun
<1>2. QED
  BY <1>1 DEF Opened

(* The place of a fragment of a call that was begun before ...             *)
LEMMA PlaceFound ==
  ASSUME NEW lines, NEW n \in Nat, NEW f, FragmentAt(lines, n, f),
         NEW acc, NEW m \in Nat, NEW begun,
         Sorts(begun, m, acc.tools, acc.places, lines, n),
         NEW i \in 1..m, lines[begun[i]].call = f.call
  PROVE  /\ Place(acc, f) = i - 1 /\ ~Opens(acc, f)
         /\ f.id # Nil => f.id = lines[begun[i]].id
<1> DEFINE b == begun[i]
           t == acc.tools
           p == acc.places
<1>0. n + 1 \in DOMAIN lines /\ InFragments(lines) /\ f = lines[n + 1] /\ f.kind = "fragment"
  BY DEF FragmentAt
<1>1. IsCall(f)
  BY <1>0 DEF IsCall
<1>2. Enumerates(begun, Begun(lines, n), m)
  BY DEF Sorts
<1>3. /\ Begun(lines, n) \in SUBSET Nat
      /\ \A j \in 1..m : begun[j] \in Begun(lines, n) /\ begun[j] \in 1..n
  BY <1>2, BegunType
<1>4. b \in Begun(lines, n) /\ b \in 1..n /\ IsCall(lines[b])
  BY <1>3, BegunOnce
<1>5. b \in CallLines(lines, f.call, n)
  BY <1>4 DEF CallLines
<1>6. Begun(lines, n + 1) = Begun(lines, n)
  BY <1>1, <1>5, CallLine, <1>0
<1>7. /\ \A j \in Begun(lines, n) : f.id # Nil =>
           (lines[j].id = f.id <=> lines[j].call = f.call)
      /\ f.id = Nil => Placed(lines, f, b, n + 1)
  BY <1>4, <1>6 DEF InFragments, FragmentAt
<1>8. (n + 1) - 1 = n
  OBVIOUS
<1>9. CASE f.id # Nil
  <2>1. ASSUME NEW j \in 1..m, lines[begun[j]].id = f.id PROVE j = i
    <3>1. lines[begun[j]].call = f.call
      BY <1>3, <1>7, <1>9, <2>1
    <3>2. begun[j] = begun[i]
      BY <1>3, <3>1, BegunOnce
    <3>3. ~(i < j) /\ ~(j < i)
      <4>1. begun[i] \in Nat /\ begun[j] \in Nat
        BY <1>3
      <4>2. QED
        BY <1>2, <3>2, <4>1 DEF Enumerates
    <3>4. QED
      BY <3>3
  <2>2. lines[b].id = f.id
    BY <1>4, <1>7, <1>9
  <2>3. ASSUME NEW k \in DOMAIN t PROVE t[k].id = f.id <=> k = i - 1
    <3>1. k \in 0..(m - 1)
      BY DEF Sorts
    <3>2. PICK j \in 1..m : j = k + 1
      BY <3>1
    <3>3. k = j - 1
      BY <3>1, <3>2
    <3>4. t[k].id = lines[begun[j]].id
      BY <3>3 DEF Sorts
    <3>5. t[k].id = f.id => j = i
      BY <2>1, <3>2, <3>4
    <3>6. j = i => t[k].id = f.id
      BY <2>2, <3>4
    <3>7. j = i <=> k = i - 1
      BY <3>3
    <3>8. QED
      BY <3>5, <3>6, <3>7
  <2>4. i - 1 \in DOMAIN t
    <3>1. i - 1 \in 0..(m - 1)
      OBVIOUS
    <3>2. QED
      BY <3>1 DEF Sorts
  <2>5. Held(acc, f.id) = {i - 1}
    BY <2>3, <2>4 DEF Held
  <2>6. (CHOOSE k \in Held(acc, f.id) : TRUE) = i - 1
    BY <2>5
  <2>7. QED
    BY <1>9, <2>2, <2>5, <2>6 DEF Place, Opens
<1>10. CASE f.id = Nil /\ lines[b].id # Nil
  <2>1. lines[b].index = f.index /\ Opened(lines, f.index, b + 1, n) = {}
    BY <1>7, <1>8, <1>10 DEF Placed
  <2>2. p[f.index] = i - 1
    BY <1>10, <2>1 DEF Sorts
  <2>3. f.index \in DOMAIN p
    BY <1>4, <1>10, <2>1 DEF Sorts
  <2>4. QED
    BY <1>10, <2>2, <2>3 DEF Place, Opens
<1>11. CASE f.id = Nil /\ lines[b].id = Nil
  <2>1. f.index = Cardinality(Begun(lines, b - 1)) /\ Opened(lines, f.index, 1, n) = {}
    BY <1>7, <1>8, <1>11 DEF Placed
  <2>2. f.index \notin DOMAIN p
    BY <2>1, OpenedAt DEF Sorts
  <2>3. Begun(lines, b - 1) = Below(Begun(lines, n), b)
    <3>1. \A x : x \in 1..(b - 1) <=> x \in 1..n /\ x < b
      BY <1>4
    <3>2. QED
      BY <3>1 DEF Begun, Below
  <2>4. Cardinality(Below(Begun(lines, n), begun[i])) = i - 1
    BY <1>2, <1>3, EnumBefore
  <2>6. f.index = i - 1
    BY <2>1, <2>3, <2>4
  <2>5. QED
    BY <1>11, <2>2, <2>6 DEF Place, Opens
<1>12. QED
  BY <1>9, <1>10, <1>11

(* ... and that of one that begins a call.                                 *)
LEMMA PlaceNew ==
  ASSUME NEW lines, NEW n \in Nat, NEW f, FragmentAt(lines, n, f),
         NEW acc, NEW m \in Nat, NEW begun,
         Sorts(begun, m, acc.tools, acc.places, lines, n),
         CallLines(lines, f.call, n) = {}
  PROVE  Place(acc, f) = m /\ (Opens(acc, f) <=> f.id # Nil)
<1> DEFINE t == acc.tools
           p == acc.places
<1>0. n + 1 \in DOMAIN lines /\ InFragments(lines) /\ f = lines[n + 1] /\ f.kind = "fragment"
  BY DEF FragmentAt
<1>1. IsCall(f)
  BY <1>0 DEF IsCall
<1>2. Enumerates(begun, Begun(lines, n), m)
  BY DEF Sorts
<1>3. /\ Begun(lines, n) \in SUBSET Nat /\ Cardinality(Begun(lines, n)) = m
      /\ \A j \in 1..m : begun[j] \in Begun(lines, n) /\ begun[j] \in 1..n
  BY <1>2, BegunType
<1>4. Begun(lines, n + 1) = Begun(lines, n) \cup {n + 1}
  BY <1>1, CallLine, <1>0
<1>5. /\ \A j \in Begun(lines, n) : f.id # Nil =>
           (lines[j].id = f.id <=> lines[j].call = f.call)
      /\ f.id = Nil => Placed(lines, f, n + 1, n + 1)
  BY <1>4 DEF InFragments, FragmentAt
<1>6. (n + 1) - 1 = n
  OBVIOUS
<1>7. CASE f.id # Nil
  <2>1. \A j \in Begun(lines, n) : lines[j].call # f.call
    <3>1. \A j \in Begun(lines, n) : j \in CallLines(lines, lines[j].call, n)
      BY BegunOnce
    <3>2. QED
      BY <3>1
  <2>2. ASSUME NEW k \in DOMAIN t PROVE t[k].id # f.id
    <3>1. k \in 0..(m - 1)
      BY DEF Sorts
    <3>2. PICK j \in 1..m : j = k + 1
      BY <3>1
    <3>3. k = j - 1
      BY <3>1, <3>2
    <3>4. t[k].id = lines[begun[j]].id
      BY <3>3 DEF Sorts
    <3>5. QED
      BY <1>3, <1>5, <1>7, <2>1, <3>4
  <2>3. Held(acc, f.id) = {}
    BY <2>2 DEF Held
  <2>4. NextPlace(acc) = m
    <3>1. DOMAIN acc.tools = 0..(m - 1)
      BY DEF Sorts
    <3>2. CASE m = 0
      <4>1. 0..(m - 1) = {}
        BY <3>2
      <4>2. QED
        BY <3>1, <3>2, <4>1 DEF NextPlace
    <3>3. CASE m # 0
      <4>1. m - 1 \in 0..(m - 1) /\ \A k \in 0..(m - 1) : k <= m - 1
        BY <3>3
      <4>2. \A k \in 0..(m - 1) : (\A j \in 0..(m - 1) : j <= k) => k = m - 1
        BY <4>1
      <4>3. Greatest(0..(m - 1)) = m - 1
        BY <4>1, <4>2 DEF Greatest
      <4>4. QED
        BY <3>1, <4>1, <4>3 DEF NextPlace
    <3>4. QED
      BY <3>2, <3>3
  <2>5. QED
    BY <1>7, <2>3, <2>4 DEF Place, Opens
<1>8. CASE f.id = Nil
  <2>1. f.index = Cardinality(Begun(lines, n)) /\ Opened(lines, f.index, 1, n) = {}
    BY <1>0, <1>5, <1>6, <1>8 DEF Placed
  <2>2. f.index \notin DOMAIN p
    BY <2>1, OpenedAt DEF Sorts
  <2>3. QED
    BY <1>3, <1>8, <2>1, <2>2 DEF Place, Opens
<1>9. QED
  BY <1>7, <1>8

(* The entries, once a fragment is added to the one of its call ...        *)
Stacks(begun, m, t, lines, n) ==
  /\ DOMAIN t = 0..(m - 1)
  /\ \A i \in 1..m : /\ t[i - 1].id = lines[begun[i]].id
                     /\ EntryOf(t[i - 1], lines, lines[begun[i]].call, n)

LEMMA EntriesMore ==
  ASSUME NEW lines, NEW n \in Nat, NEW f, FragmentAt(lines, n, f), NEW intact,
         NEW acc, NEW m \in Nat, NEW begun, Enumerates(begun, Begun(lines, n + 1), m),
         NEW i \in 1..m, lines[begun[i]].call = f.call,
         DOMAIN acc.tools \cup {i - 1} = 0..(m - 1),
         \A j \in 1..m : j # i =>
           /\ acc.tools[j - 1].id = lines[begun[j]].id
           /\ EntryOf(acc.tools[j - 1], lines, lines[begun[j]].call, n),
         EntryOf(Entry(acc, i - 1), lines, f.call, n),
         AddFragment(Entry(acc, i - 1), f, intact).id = lines[begun[i]].id
  PROVE  Stacks(begun, m, Set(acc.tools, i - 1, AddFragment(Entry(acc, i - 1), f, intact)),
                lines, n + 1)
<1> DEFINE e == AddFragment(Entry(acc, i - 1), f, intact)
           t == Set(acc.tools, i - 1, e)
<1>0. n + 1 \in DOMAIN lines /\ InFragments(lines) /\ f = lines[n + 1] /\ f.kind = "fragment"
  BY DEF FragmentAt
<1>1. EntryOf(e, lines, f.call, n + 1)
  BY <1>0, EntryMore
<1>2. \A j \in 1..m : begun[j] \in Begun(lines, n + 1)
  BY DEF Enumerates
<1>3. IsCall(f)
  BY <1>0 DEF IsCall
<1>4. e.id = lines[begun[i]].id
  OBVIOUS
<1> HIDE DEF e
<1>5. /\ DOMAIN t = 0..(m - 1)
      /\ \A k \in 0..(m - 1) : t[k] = IF k = i - 1 THEN e ELSE acc.tools[k]
  BY DEF Set
<1> HIDE DEF t
<1>6. ASSUME NEW j \in 1..m
      PROVE  /\ t[j - 1].id = lines[begun[j]].id
             /\ EntryOf(t[j - 1], lines, lines[begun[j]].call, n + 1)
  <2>1. j - 1 \in 0..(m - 1)
    OBVIOUS
  <2>2. CASE j = i
    <3>1. t[j - 1] = e
      BY <1>5, <2>1, <2>2
    <3>2. QED
      BY <1>1, <1>4, <2>2, <3>1
  <2>3. CASE j # i
    <3>1. j - 1 # i - 1
      BY <2>3
    <3>2. t[j - 1] = acc.tools[j - 1]
      BY <1>5, <2>1, <3>1
    <3>3. lines[begun[j]].call # f.call
      <4>1. begun[j] # begun[i]
        <5>1. begun[j] \in 1..(n + 1) /\ begun[i] \in 1..(n + 1)
          BY <1>2 DEF Begun
        <5>2. j < i \/ i < j
          BY <2>3
        <5>3. begun[j] < begun[i] \/ begun[i] < begun[j]
          BY <5>2 DEF Enumerates
        <5>4. QED
          BY <5>1, <5>3
      <4>2. QED
        BY <1>2, <4>1, BegunOnce
    <3>4. PICK d, entry : d = lines[begun[j]].call /\ entry = t[j - 1]
      OBVIOUS
    <3>5. /\ CallLines(lines, d, n + 1) = CallLines(lines, d, n)
          /\ Pieces(lines, d, n + 1) = Pieces(lines, d, n)
          /\ Namings(lines, d, n + 1) = Namings(lines, d, n)
      <4>1. d # lines[n + 1].call
        BY <1>0, <3>3, <3>4
      <4>2. QED
        BY <4>1, OtherLine
    <3>6. EntryOf(entry, lines, d, n)
      BY <2>3, <3>2, <3>4
    <3>7. EntryOf(entry, lines, d, n + 1)
      BY <3>5, <3>6 DEF EntryOf
    <3>8. QED
      BY <2>3, <3>2, <3>4, <3>7
  <2>4. QED
    BY <2>2, <2>3
<1>7. Stacks(begun, m, t, lines, n + 1)
  BY <1>5, <1>6 DEF Stacks
<1>8. QED
  BY <1>7 DEF t, e

(* ... of a call that was begun before, or that it begins.                 *)
FragmentTools(acc, f, intact) ==
  Set(acc.tools, Place(acc, f), AddFragment(Entry(acc, Place(acc, f)), f, intact))
FragmentPlaces(acc, f) ==
  IF Opens(acc, f) THEN Set(acc.places, f.index, Place(acc, f)) ELSE acc.places

LEMMA FragmentFound ==
  ASSUME NEW lines, NEW n \in Nat, NEW f, FragmentAt(lines, n, f), NEW intact,
         NEW acc, NEW m \in Nat, NEW begun,
         Sorts(begun, m, acc.tools, acc.places, lines, n),
         NEW i \in 1..m, lines[begun[i]].call = f.call
  PROVE  Sorts(begun, m, FragmentTools(acc, f, intact), FragmentPlaces(acc, f), lines, n + 1)
<1> DEFINE t == acc.tools
           p == acc.places
           u == Set(t, i - 1, AddFragment(Entry(acc, i - 1), f, intact))
<1>0. n + 1 \in DOMAIN lines /\ InFragments(lines) /\ f = lines[n + 1] /\ f.kind = "fragment"
  BY DEF FragmentAt
<1>1. /\ Place(acc, f) = i - 1 /\ ~Opens(acc, f)
      /\ f.id # Nil => f.id = lines[begun[i]].id
  BY PlaceFound, SMTT(90)
<1>2. IsCall(f)
  BY <1>0 DEF IsCall
<1>3. /\ Enumerates(begun, Begun(lines, n), m)
      /\ DOMAIN t = 0..(m - 1)
      /\ \A j \in 1..m : /\ t[j - 1].id = lines[begun[j]].id
                         /\ EntryOf(t[j - 1], lines, lines[begun[j]].call, n)
  BY DEF Sorts
<1>4. Begun(lines, n + 1) = Begun(lines, n)
  <2>1. begun[i] \in Begun(lines, n)
    BY <1>3, BegunType
  <2>2. begun[i] \in CallLines(lines, f.call, n)
    BY <2>1, BegunOnce
  <2>3. QED
    BY <1>2, <2>2, CallLine, <1>0
<1>5. Stacks(begun, m, u, lines, n + 1)
  <2>1. i - 1 \in DOMAIN t
    BY <1>3
  <2>2. Entry(acc, i - 1) = t[i - 1]
    BY <2>1 DEF Entry
  <2>3. EntryOf(Entry(acc, i - 1), lines, f.call, n)
    BY <1>3, <2>2
  <2>4. AddFragment(Entry(acc, i - 1), f, intact).id = lines[begun[i]].id
    BY <1>1, <1>3, <2>2 DEF AddFragment
  <2>5. DOMAIN t \cup {i - 1} = 0..(m - 1)
    BY <1>3, <2>1
  <2> HIDE DEF u
  <2>6. QED
    BY <1>3, <1>4, <2>3, <2>4, <2>5, EntriesMore DEF u
<1>6. FragmentTools(acc, f, intact) = u /\ FragmentPlaces(acc, f) = p
  BY <1>1 DEF FragmentTools, FragmentPlaces
<1> HIDE DEF u
<1>7. \A x, from : Opened(lines, x, from, n + 1) = Opened(lines, x, from, n)
  BY <1>4 DEF Opened
<1>8. \A x : x \in DOMAIN p <=>
        \E b \in Begun(lines, n + 1) : lines[b].id # Nil /\ lines[b].index = x
  BY <1>4 DEF Sorts
<1>9. \A j \in 1..m :
        LET line == lines[begun[j]]
        IN line.id # Nil /\ Opened(lines, line.index, begun[j] + 1, n + 1) = {} =>
             p[line.index] = j - 1
  BY <1>7 DEF Sorts
<1>10. Sorts(begun, m, u, p, lines, n + 1)
  BY <1>3, <1>4, <1>5, <1>8, <1>9 DEF Sorts, Stacks
<1>11. QED
  BY <1>6, <1>10

LEMMA FragmentNew ==
  ASSUME NEW lines, NEW n \in Nat, NEW f, FragmentAt(lines, n, f), NEW intact,
         NEW acc, NEW m \in Nat, NEW begun,
         Sorts(begun, m, acc.tools, acc.places, lines, n),
         CallLines(lines, f.call, n) = {}
  PROVE  Sorts(With(begun, m, n + 1), m + 1, FragmentTools(acc, f, intact),
               FragmentPlaces(acc, f), lines, n + 1)
<1> DEFINE t == acc.tools
           p == acc.places
           to == With(begun, m, n + 1)
           u == Set(t, m, AddFragment(Entry(acc, m), f, intact))
           q == FragmentPlaces(acc, f)
<1>0. n + 1 \in DOMAIN lines /\ InFragments(lines) /\ f = lines[n + 1] /\ f.kind = "fragment"
  BY DEF FragmentAt
<1>1. Place(acc, f) = m /\ (Opens(acc, f) <=> f.id # Nil)
  BY PlaceNew
<1>2. IsCall(f)
  BY <1>0 DEF IsCall
<1>3. /\ Enumerates(begun, Begun(lines, n), m)
      /\ DOMAIN t = 0..(m - 1)
      /\ \A j \in 1..m : /\ t[j - 1].id = lines[begun[j]].id
                         /\ EntryOf(t[j - 1], lines, lines[begun[j]].call, n)
  BY DEF Sorts
<1>4. Begun(lines, n + 1) = Begun(lines, n) \cup {n + 1}
  BY <1>2, CallLine, <1>0
<1>5. /\ Begun(lines, n) \in SUBSET Nat
      /\ \A j \in 1..m : begun[j] \in Begun(lines, n) /\ begun[j] \in 1..n
  BY <1>3, BegunType
<1>6. Enumerates(to, Begun(lines, n + 1), m + 1)
  <2>1. \A b \in Begun(lines, n) : b < n + 1
    BY DEF Begun
  <2>2. QED
    BY <1>3, <1>4, <1>5, <2>1, EnumAppend
<1>7. (\A j \in 1..m : to[j] = begun[j]) /\ to[m + 1] = n + 1 /\ m + 1 \in 1..(m + 1)
  BY DEF With
<1> HIDE DEF to
<1>8. Stacks(to, m + 1, u, lines, n + 1)
  <2>1. m \notin DOMAIN t /\ (m + 1) - 1 = m
    BY <1>3
  <2>2. EntryOf(Entry(acc, m), lines, f.call, n) /\ Entry(acc, m).id = Nil
    BY <2>1, EntryNone
  <2>3. AddFragment(Entry(acc, m), f, intact).id = f.id
    BY <2>2 DEF AddFragment
  <2>4. DOMAIN t \cup {m} = 0..((m + 1) - 1)
    BY <1>3
  <2>5. \A j \in 1..(m + 1) : j # m + 1 =>
          /\ t[j - 1].id = lines[to[j]].id
          /\ EntryOf(t[j - 1], lines, lines[to[j]].call, n)
    <3>1. \A j \in 1..(m + 1) : j # m + 1 => j \in 1..m
      OBVIOUS
    <3>2. QED
      BY <1>3, <1>7, <3>1
  <2> HIDE DEF u
  <2>6. PICK M \in Nat : M = m + 1 /\ M \in 1..M /\ M - 1 = m
    OBVIOUS
  <2>7. /\ Enumerates(to, Begun(lines, n + 1), M) /\ lines[to[M]].call = f.call
        /\ DOMAIN acc.tools \cup {M - 1} = 0..(M - 1)
        /\ \A j \in 1..M : j # M =>
             /\ acc.tools[j - 1].id = lines[to[j]].id
             /\ EntryOf(acc.tools[j - 1], lines, lines[to[j]].call, n)
    BY <1>0, <1>6, <1>7, <2>4, <2>5, <2>6
  <2>8. /\ EntryOf(Entry(acc, M - 1), lines, f.call, n)
        /\ AddFragment(Entry(acc, M - 1), f, intact).id = lines[to[M]].id
    BY <1>0, <1>7, <2>2, <2>3, <2>6
  <2>9. Stacks(to, M, Set(acc.tools, M - 1, AddFragment(Entry(acc, M - 1), f, intact)),
               lines, n + 1)
    BY <2>6, <2>7, <2>8, EntriesMore
  <2>10. QED
    BY <2>6, <2>9 DEF u
<1>9. FragmentTools(acc, f, intact) = u
  BY <1>1 DEF FragmentTools
<1> HIDE DEF u
<1>10. /\ f.id # Nil => /\ DOMAIN q = DOMAIN p \cup {f.index} /\ q[f.index] = m
                        /\ \A x \in DOMAIN p : x # f.index => q[x] = p[x]
       /\ f.id = Nil => q = p
  BY <1>1 DEF FragmentPlaces, Set
<1> HIDE DEF q
<1>11. \A x : x \in DOMAIN q <=>
         \E b \in Begun(lines, n + 1) : lines[b].id # Nil /\ lines[b].index = x
  <2>1. \A x : x \in DOMAIN p <=>
          \E b \in Begun(lines, n) : lines[b].id # Nil /\ lines[b].index = x
    BY DEF Sorts
  <2>2. \A x : (\E b \in Begun(lines, n + 1) : lines[b].id # Nil /\ lines[b].index = x)
          <=> x \in DOMAIN p \/ (f.id # Nil /\ f.index = x)
    BY <1>0, <1>4, <2>1
  <2>3. QED
    BY <1>10, <2>2
<1>12. ASSUME NEW j \in 1..(m + 1), NEW line, line = lines[to[j]], line.id # Nil,
              Opened(lines, line.index, to[j] + 1, n + 1) = {}
       PROVE  q[line.index] = j - 1
  <2>1. CASE j = m + 1
    <3>1. line = f
      BY <1>0, <1>7, <1>12, <2>1
    <3>2. QED
      BY <1>10, <1>12, <2>1, <3>1
  <2>2. CASE j \in 1..m
    <3>1. to[j] = begun[j] /\ begun[j] \in Begun(lines, n) /\ begun[j] \in 1..n
      BY <1>5, <1>7, <2>2
    <3>2. \A x, from : Opened(lines, x, from, n) \subseteq Opened(lines, x, from, n + 1)
      BY <1>4 DEF Opened
    <3>3. Opened(lines, line.index, begun[j] + 1, n) = {}
      BY <1>12, <3>1, <3>2
    <3>4. p[line.index] = j - 1
      BY <1>12, <2>2, <3>1, <3>3 DEF Sorts
    <3>5. line.index \in DOMAIN p
      BY <1>12, <3>1 DEF Sorts
    <3>6. f.id # Nil => line.index # f.index
      <4>1. begun[j] + 1 <= n + 1
        BY <3>1
      <4>2. f.id # Nil /\ line.index = f.index =>
              n + 1 \in Opened(lines, line.index, begun[j] + 1, n + 1)
        BY <1>0, <1>4, <4>1 DEF Opened
      <4>3. QED
        BY <1>12, <3>1, <4>2
    <3>7. QED
      BY <1>10, <3>4, <3>5, <3>6
  <2>3. QED
    BY <2>1, <2>2
<1>13. Sorts(to, m + 1, u, q, lines, n + 1)
  <2>1. \A j \in 1..(m + 1) :
          LET line == lines[to[j]]
          IN line.id # Nil /\ Opened(lines, line.index, to[j] + 1, n + 1) = {} =>
               q[line.index] = j - 1
    BY <1>12
  <2>2. QED
    BY <1>6, <1>8, <1>11, <2>1 DEF Sorts, Stacks
<1>14. QED
  BY <1>9, <1>13 DEF q, to

(* A fragment is sorted to the others of its call, and so is no other line.*)
LEMMA FragmentSorted ==
  ASSUME NEW lines, NEW n \in Nat, NEW f, FragmentAt(lines, n, f), NEW intact,
         NEW acc, Sorted(acc.tools, acc.places, lines, n)
  PROVE  Sorted(FragmentTools(acc, f, intact), FragmentPlaces(acc, f), lines, n + 1)
<1>0. n + 1 \in DOMAIN lines /\ InFragments(lines) /\ f = lines[n + 1] /\ f.kind = "fragment"
  BY DEF FragmentAt
<1>1. PICK m \in Nat : \E begun : Sorts(begun, m, acc.tools, acc.places, lines, n)
  BY DEF Sorted
<1>2. PICK begun : Sorts(begun, m, acc.tools, acc.places, lines, n)
  BY <1>1
<1>3. CASE CallLines(lines, f.call, n) = {}
  <2>1. Sorts(With(begun, m, n + 1), m + 1, FragmentTools(acc, f, intact),
              FragmentPlaces(acc, f), lines, n + 1)
    BY <1>2, <1>3, FragmentNew
  <2>2. m + 1 \in Nat
    OBVIOUS
  <2>3. QED
    BY <2>1, <2>2 DEF Sorted
<1>4. CASE CallLines(lines, f.call, n) # {}
  <2>1. PICK b \in Begun(lines, n) : lines[b].call = f.call
    BY <1>4, BegunOnce
  <2>2. PICK i \in 1..m : begun[i] = b
    BY <1>2 DEF Sorts, Enumerates
  <2>3. Sorts(begun, m, FragmentTools(acc, f, intact), FragmentPlaces(acc, f), lines, n + 1)
    BY <1>2, <2>1, <2>2, FragmentFound
  <2>4. QED
    BY <2>3 DEF Sorted
<1>5. QED
  BY <1>3, <1>4

LEMMA OtherSorted ==
  ASSUME NEW lines, NEW n \in Nat, ~IsCall(lines[n + 1]), NEW t, NEW p, Sorted(t, p, lines, n)
  PROVE  Sorted(t, p, lines, n + 1)
<1>1. PICK m \in Nat : \E begun : Sorts(begun, m, t, p, lines, n)
  BY DEF Sorted
<1>2. PICK begun : Sorts(begun, m, t, p, lines, n)
  BY <1>1
<1>3. /\ \A c : /\ CallLines(lines, c, n + 1) = CallLines(lines, c, n)
                /\ Pieces(lines, c, n + 1) = Pieces(lines, c, n)
                /\ Namings(lines, c, n + 1) = Namings(lines, c, n)
      /\ Begun(lines, n + 1) = Begun(lines, n)
      /\ \A i, from : Opened(lines, i, from, n + 1) = Opened(lines, i, from, n)
  BY NoCallLine
<1>4. \A entry, c : EntryOf(entry, lines, c, n) => EntryOf(entry, lines, c, n + 1)
  BY <1>3 DEF EntryOf
<1>5. Sorts(begun, m, t, p, lines, n + 1)
  BY <1>2, <1>3, <1>4 DEF Sorts
<1>6. QED
  BY <1>5 DEF Sorted

-----------------------------------------------------------------------------
(* The lines of a reply, in the order in which they are read.              *)

(* What was sent and is kept of the first n lines, and of all of them if   *)
(* the last said it is the end.                                            *)
Regular(lines) == IF client = "openai" THEN InFragments(lines) ELSE WholeCalls(lines)
Told(acc, lines, n) ==
  /\ Recites(acc.events, lines, n)
  /\ IF client = "openai" THEN Sorted(acc.tools, acc.places, lines, n)
                          ELSE acc.tools = <<>>
Finished(acc, lines) ==
  /\ client # "openai"
  /\ \E es : /\ IsSeq(es) /\ Recites(es, lines, Len(lines))
             /\ acc.events = Append(es, [kind |-> "done"])
Goes(acc, lines, n) ==
  IF acc.over THEN n = Len(lines) /\ Finished(acc, lines) ELSE Told(acc, lines, n)

(* An event is sent, and nothing else changes.                             *)
Sent(new, acc, e) ==
  /\ new.events = Append(acc.events, e) /\ new.tools = acc.tools
  /\ new.places = acc.places /\ new.over = acc.over

LEMMA SentOf ==
  ASSUME NEW acc, AccOK(acc), NEW e
  PROVE  Sent([acc EXCEPT !.events = Append(@, e)], acc, e)
<1> DEFINE new == [acc EXCEPT !.events = Append(@, e)]
<1>1. new = [buffer |-> acc.buffer, tools |-> acc.tools, places |-> acc.places,
             events |-> Append(acc.events, e), over |-> acc.over]
  BY AccFields, Zenon
<1> HIDE DEF new
<1>2. Sent(new, acc, e)
  BY <1>1 DEF Sent
<1>3. QED
  BY <1>2 DEF new

(* A text, of either client.                                               *)
LEMMA TextTold ==
  ASSUME NEW acc, AccOK(acc), ~acc.over, NEW lines, NEW n \in Nat, Told(acc, lines, n),
         lines[n + 1].kind \in {"text", "thought"}, NEW intact,
         NEW new, Sent(new, acc, Says(lines[n + 1], intact))
  PROVE  Goes(new, lines, n + 1)
<1> DEFINE line == lines[n + 1]
<1>1. /\ new.events = Append(acc.events, Says(line, intact)) /\ new.tools = acc.tools
      /\ new.places = acc.places /\ new.over = acc.over
  BY DEF Sent
<1>2. n + 1 \in Audible(lines, n + 1)
  <2>1. n + 1 \in 1..(n + 1)
    OBVIOUS
  <2>2. QED
    BY <2>1 DEF Audible
<1>3. Hears(Says(line, intact), line)
  BY DEF Hears, Says
<1>4. IsSeq(acc.events) /\ Recites(acc.events, lines, n)
  BY DEF AccOK, Told
<1>5. Recites(Append(acc.events, Says(line, intact)), lines, n + 1)
  BY <1>2, <1>3, <1>4, ReciteMore
<1>6. ~IsCall(line)
  BY DEF IsCall
<1>7. client = "openai" => Sorted(new.tools, new.places, lines, n + 1)
  BY <1>1, <1>6, OtherSorted DEF Told
<1>8. Told(new, lines, n + 1)
  BY <1>1, <1>5, <1>7 DEF Told
<1>9. QED
  BY <1>1, <1>8 DEF Goes

(* A line of an OpenAI-compatible provider.                                *)
LEMMA DeltaTold ==
  ASSUME NEW acc, AccOK(acc), ~acc.over, client = "openai",
         NEW lines, NEW n \in Nat, n + 1 \in DOMAIN lines, InFragments(lines),
         Told(acc, lines, n), NEW intact
  PROVE  Goes(Delta(acc, lines[n + 1], intact), lines, n + 1)
<1> DEFINE line == lines[n + 1]
           new == Delta(acc, line, intact)
<1>1. CASE line.kind \in {"text", "thought"}
  <2>1. new = [acc EXCEPT !.events = Append(@, Says(line, intact))]
    BY <1>1 DEF Delta
  <2>2. Sent(new, acc, Says(line, intact))
    BY <2>1, SentOf, Zenon
  <2> HIDE DEF new
  <2>3. Goes(new, lines, n + 1)
    BY <1>1, <2>2, TextTold
  <2>4. QED
    BY <2>3 DEF new
<1>2. CASE line.kind \notin {"text", "thought"}
  <2>1. line.kind # "call" /\ n + 1 \notin Audible(lines, n + 1)
    BY <1>2 DEF InFragments, Audible
  <2>2. Recites(acc.events, lines, n + 1)
    BY <2>1, ReciteSkip DEF Told
  <2>3. Sorted(acc.tools, acc.places, lines, n)
    BY DEF Told
  <2>4. CASE line.kind = "fragment"
    <3>1. FragmentAt(lines, n, line)
      BY <2>4 DEF FragmentAt
    <3>2. PICK t, p : t = FragmentTools(acc, line, intact) /\ p = FragmentPlaces(acc, line)
      OBVIOUS
    <3>3. Sorted(t, p, lines, n + 1)
      BY <2>3, <3>1, <3>2, FragmentSorted
    <3>4. new = [acc EXCEPT !.tools = t, !.places = p]
      BY <2>4, <3>2 DEF Delta, Fragment, FragmentTools, FragmentPlaces
    <3>5. new = [buffer |-> acc.buffer, tools |-> t, places |-> p,
                 events |-> acc.events, over |-> acc.over]
      BY <3>4, AccFields, Zenon
    <3> HIDE DEF new
    <3>6. new.tools = t /\ new.places = p /\ new.events = acc.events /\ ~new.over
      BY <3>5
    <3>7. Goes(new, lines, n + 1)
      BY <2>2, <3>3, <3>6 DEF Goes, Told
    <3>8. QED
      BY <3>7 DEF new
  <2>5. CASE line.kind # "fragment"
    <3>1. new = acc
      BY <1>2, <2>5 DEF Delta
    <3>2. ~IsCall(line)
      BY <2>1, <2>5 DEF IsCall
    <3>3. Sorted(acc.tools, acc.places, lines, n + 1)
      BY <2>3, <3>2, OtherSorted
    <3>4. Goes(acc, lines, n + 1)
      BY <2>2, <3>3 DEF Goes, Told
    <3>5. QED
      BY <3>1, <3>4
  <2>6. QED
    BY <2>4, <2>5
<1>3. QED
  BY <1>1, <1>2

(* A block of Gemini.                                                      *)
LEMMA BlockTold ==
  ASSUME NEW acc, AccOK(acc), ~acc.over, client # "openai",
         NEW lines, IsSeq(lines), NEW n \in Nat, n + 1 \in DOMAIN lines, WholeCalls(lines),
         Told(acc, lines, n), NEW intact
  PROVE  Goes(Block(acc, lines[n + 1], intact), lines, n + 1)
<1> DEFINE line == lines[n + 1]
           new == Block(acc, line, intact)
<1>0. IsSeq(acc.events) /\ Recites(acc.events, lines, n) /\ acc.tools = <<>>
  BY DEF AccOK, Told
<1>1. CASE line.kind \in {"text", "thought"}
  <2>1. new = [acc EXCEPT !.events = Append(@, Says(line, intact))]
    BY <1>1 DEF Block
  <2>2. Sent(new, acc, Says(line, intact))
    BY <2>1, SentOf, Zenon
  <2> HIDE DEF new
  <2>3. Goes(new, lines, n + 1)
    BY <1>1, <2>2, TextTold
  <2>4. QED
    BY <2>3 DEF new
<1>2. CASE line.kind = "call" /\ line.pieces # Nil
  <2> DEFINE e == [kind |-> "call", name |-> line.name, id |-> line.id,
                   args |-> Parsed(line.pieces), intact |-> intact]
  <2>1. new = [acc EXCEPT !.events = Append(@, e)]
    BY <1>2 DEF Block
  <2>2. Hears(e, line)
    BY <1>2 DEF Hears
  <2>3. n + 1 \in Audible(lines, n + 1)
    <3>1. n + 1 \in 1..(n + 1)
      OBVIOUS
    <3>2. QED
      BY <1>2, <3>1 DEF Audible
  <2> HIDE DEF e
  <2>4. Recites(Append(acc.events, e), lines, n + 1)
    BY <1>0, <2>2, <2>3, ReciteMore
  <2>5. Sent(new, acc, e)
    BY <2>1, SentOf, Zenon
  <2> HIDE DEF new
  <2>6. new.tools = <<>> /\ new.events = Append(acc.events, e) /\ ~new.over
    BY <1>0, <2>5 DEF Sent
  <2>7. Goes(new, lines, n + 1)
    BY <2>4, <2>6 DEF Goes, Told
  <2>8. QED
    BY <2>7 DEF new
<1>3. CASE line.kind = "done"
  <2> DEFINE e == [kind |-> "done"]
  <2>1. new = [acc EXCEPT !.events = Append(@, e), !.over = TRUE]
    BY <1>3 DEF Block
  <2>2. n + 1 = Len(lines)
    BY <1>3 DEF WholeCalls
  <2>3. n + 1 \notin Audible(lines, n + 1)
    BY <1>3 DEF Audible
  <2>4. Recites(acc.events, lines, n + 1)
    BY <1>0, <2>3, ReciteSkip
  <2> HIDE DEF e
  <2>5. new = [buffer |-> acc.buffer, tools |-> acc.tools, places |-> acc.places,
               events |-> Append(acc.events, e), over |-> TRUE]
    BY <2>1, AccFields, Zenon
  <2> HIDE DEF new
  <2>6. new.events = Append(acc.events, e) /\ new.over
    BY <2>5
  <2>7. Goes(new, lines, n + 1)
    BY <1>0, <2>2, <2>4, <2>6 DEF Goes, Finished, e
  <2>8. QED
    BY <2>7 DEF new
<1>4. CASE line.kind \notin {"text", "thought", "done"} /\ ~(line.kind = "call" /\ line.pieces # Nil)
  <2>1. new = acc
    BY <1>4 DEF Block
  <2>2. n + 1 \notin Audible(lines, n + 1)
    BY <1>4 DEF Audible
  <2>3. Recites(acc.events, lines, n + 1)
    BY <1>0, <2>2, ReciteSkip
  <2>4. Goes(acc, lines, n + 1)
    BY <1>0, <2>3 DEF Goes, Told
  <2>5. QED
    BY <2>1, <2>4
<1>5. QED
  BY <1>1, <1>2, <1>3, <1>4

(* A line, of which the buffer holds both halves.                          *)
LEMMA LineTold ==
  ASSUME NEW acc, AccOK(acc), ~acc.over, NEW lines \in Seq(Lines), Regular(lines),
         NEW n \in Nat, n + 1 \in DOMAIN lines, Told(acc, lines, n),
         NEW halves, Len(halves) = 2, halves[1].line = lines[n + 1]
  PROVE  Goes(OnLine(acc, halves), lines, n + 1)
<1>1. PICK intact : intact = (halves[1].intact /\ halves[2].intact)
  OBVIOUS
<1>2. OnLine(acc, halves) = IF client = "openai" THEN Delta(acc, lines[n + 1], intact)
                                                 ELSE Block(acc, lines[n + 1], intact)
  BY <1>1 DEF OnLine
<1>3. IsSeq(lines)
  <2>1. Len(lines) \in Nat /\ DOMAIN lines = 1..Len(lines)
        /\ lines = [k \in 1..Len(lines) |-> lines[k]]
    OBVIOUS
  <2>2. QED
    BY <2>1, ShortSeqs
<1>4. CASE client = "openai"
  <2>1. InFragments(lines)
    BY <1>4 DEF Regular
  <2>2. Goes(Delta(acc, lines[n + 1], intact), lines, n + 1)
    BY <1>4, <2>1, DeltaTold
  <2>3. QED
    BY <1>2, <1>4, <2>2
<1>5. CASE client # "openai"
  <2>1. WholeCalls(lines)
    BY <1>5 DEF Regular
  <2>2. Goes(Block(acc, lines[n + 1], intact), lines, n + 1)
    BY <1>3, <1>5, <2>1, BlockTold
  <2>3. QED
    BY <1>2, <1>5, <2>2
<1>6. QED
  BY <1>4, <1>5

(* Where the client is in a reply when n lines of it and h halves of the   *)
(* next have come, of which the buffer holds the halves.                   *)
Reached(acc, lines, n, h) ==
  /\ n \in 0..Len(lines) /\ h \in {0, 1, 2} /\ (h # 0 => n < Len(lines))
  /\ Goes(acc, lines, n)
  /\ acc.over => h = 0
  /\ ~acc.over => Len(acc.buffer) = h /\ \A k \in 1..h : acc.buffer[k].line = lines[n + 1]
Stage(acc, lines, u) ==
  /\ AccOK(acc)
  /\ \E n \in Nat : \E h \in {0, 1, 2} : u = 3 * n + h /\ Reached(acc, lines, n, h)

(* A unit as it comes out of the decoder.                                  *)
Like(unit, sent) ==
  IF sent = Eol THEN unit = Eol ELSE unit \in Halves /\ unit.line = sent.line

LEMMA UnitStage ==
  ASSUME NEW lines \in Seq(Lines), Regular(lines), NEW u \in Nat, u < 3 * Len(lines),
         NEW acc, Stage(acc, lines, u), NEW unit, Like(unit, Wire(lines)[u + 1])
  PROVE  Stage(OnUnit(acc, unit), lines, u + 1)
<1>0. Len(lines) \in Nat /\ DOMAIN lines = 1..Len(lines) /\ AccOK(acc)
  BY DEF Stage
<1>1. PICK n \in Nat : \E h \in {0, 1, 2} : u = 3 * n + h /\ Reached(acc, lines, n, h)
  BY DEF Stage
<1>2. PICK h \in {0, 1, 2} : u = 3 * n + h /\ Reached(acc, lines, n, h)
  BY <1>1
<1>3. n \in 0..Len(lines) /\ (h # 0 => n < Len(lines)) /\ Goes(acc, lines, n)
  BY <1>2 DEF Reached
<1>4. n < Len(lines) /\ n + 1 \in 1..Len(lines)
  BY <1>0, <1>2, <1>3
<1>5. ~acc.over /\ Told(acc, lines, n)
  BY <1>3, <1>4 DEF Goes
<1>6. Len(acc.buffer) = h /\ (\A k \in 1..h : acc.buffer[k].line = lines[n + 1])
  BY <1>2, <1>5 DEF Reached
<1>7. Wire(lines)[u + 1] = IF (u + 1) % 3 = 0 THEN Eol
                           ELSE Half(lines[(u + 3) \div 3], (u + 1) % 3)
  <2>1. u + 1 \in 1..(3 * Len(lines)) /\ (u + 1) + 2 = u + 3
    BY <1>0
  <2>2. QED
    BY <2>1 DEF Wire
<1>8. acc.buffer \in Seq(Halves)
  BY <1>0 DEF AccOK
<1>9. CASE h = 2
  <2>1. (u + 1) % 3 = 0
    BY <1>2, <1>9
  <2>2. unit = Eol
    BY <1>7, <2>1 DEF Like
  <2>3. PICK new : new = OnLine(acc, acc.buffer)
    OBVIOUS
  <2>4. Goes(new, lines, n + 1)
    BY <1>0, <1>4, <1>5, <1>6, <1>9, <2>3, LineTold
  <2>5. AccOK(new)
    BY <1>0, <1>5, <1>8, <2>3, LineKept
  <2>6. PICK to : to = OnUnit(acc, unit)
    OBVIOUS
  <2>7. to = [buffer |-> <<>>, tools |-> new.tools, places |-> new.places,
              events |-> new.events, over |-> new.over]
    <3>1. to = [new EXCEPT !.buffer = <<>>]
      BY <1>5, <2>2, <2>3, <2>6 DEF OnUnit
    <3>2. QED
      BY <2>5, <3>1, AccFields, Zenon
  <2>8. /\ to.buffer = <<>> /\ to.tools = new.tools /\ to.places = new.places
        /\ to.events = new.events /\ to.over = new.over
    BY <2>7
  <2>9. Goes(to, lines, n + 1)
    BY <2>4, <2>8 DEF Goes, Told, Finished
  <2>10. Reached(to, lines, n + 1, 0)
    BY <1>0, <1>4, <2>8, <2>9 DEF Reached
  <2>11. AccOK(to)
    BY <1>0, <2>2, <2>6, UnitKept
  <2>12. n + 1 \in Nat /\ u + 1 = 3 * (n + 1) + 0
    BY <1>2, <1>9
  <2>13. Stage(to, lines, u + 1)
    BY <2>10, <2>11, <2>12 DEF Stage
  <2>14. QED
    BY <2>6, <2>13
<1>10. CASE h # 2
  <2>1. (u + 1) % 3 = h + 1 /\ (u + 3) \div 3 = n + 1
    BY <1>2, <1>10
  <2>2. Wire(lines)[u + 1] = Half(lines[n + 1], h + 1) /\ h + 1 # 0
    BY <1>7, <2>1
  <2>3. Half(lines[n + 1], h + 1) # Eol /\ Half(lines[n + 1], h + 1).line = lines[n + 1]
    <3>1. Half(lines[n + 1], h + 1).half = h + 1 /\ Eol.half = 0
      BY DEF Half, Eol
    <3>2. h + 1 # 0
      OBVIOUS
    <3>3. QED
      BY <3>1, <3>2 DEF Half
  <2>4. unit \in Halves /\ unit.line = lines[n + 1]
    BY <2>2, <2>3 DEF Like
  <2>5. unit # Eol
    <3>1. unit.half \in {1, 2} /\ Eol.half = 0
      BY <2>4 DEF Halves, Eol
    <3>2. QED
      BY <3>1
  <2>6. PICK to, b : to = OnUnit(acc, unit) /\ b = Append(acc.buffer, unit)
    OBVIOUS
  <2>7. to = [acc EXCEPT !.buffer = b]
    BY <1>5, <2>5, <2>6 DEF OnUnit
  <2>8. to = [buffer |-> b, tools |-> acc.tools, places |-> acc.places,
              events |-> acc.events, over |-> acc.over]
    BY <1>0, <2>7, AccFields, Zenon
  <2>9. /\ to.buffer = b /\ to.tools = acc.tools /\ to.places = acc.places
        /\ to.events = acc.events /\ to.over = acc.over
    BY <2>8
  <2>10. Goes(to, lines, n)
    BY <1>3, <2>9 DEF Goes, Told, Finished
  <2>11. Len(b) = h + 1 /\ \A k \in 1..(h + 1) : b[k].line = lines[n + 1]
    <3>1. /\ Len(b) = h + 1 /\ b[h + 1] = unit
          /\ \A k \in 1..h : b[k] = acc.buffer[k]
      <4>1. PICK s : s = acc.buffer /\ s \in Seq(Halves) /\ Len(s) = h
        BY <1>6, <1>8
      <4>2. /\ Len(Append(s, unit)) = h + 1 /\ Append(s, unit)[h + 1] = unit
            /\ \A k \in 1..h : Append(s, unit)[k] = s[k]
        BY <2>4, <4>1
      <4>3. QED
        BY <2>6, <4>1, <4>2
    <3>2. \A k \in 1..(h + 1) : k \in 1..h \/ k = h + 1
      OBVIOUS
    <3>3. QED
      BY <1>6, <2>4, <3>1, <3>2
  <2>12. h + 1 \in {0, 1, 2}
    BY <1>10
  <2>13. Reached(to, lines, n, h + 1)
    BY <1>3, <1>4, <1>5, <2>9, <2>10, <2>11, <2>12 DEF Reached
  <2>14. AccOK(to)
    BY <1>0, <2>4, <2>6, UnitKept
  <2>15. u + 1 = 3 * n + (h + 1)
    BY <1>2
  <2>16. Stage(to, lines, u + 1)
    BY <2>12, <2>13, <2>14, <2>15 DEF Stage
  <2>17. QED
    BY <2>6, <2>16
<1>11. QED
  BY <1>9, <1>10

(* A chunk.                                                                *)
LEMMA ScanStage ==
  ASSUME NEW lines \in Seq(Lines), Regular(lines), NEW u \in Nat, Stage(Acc, lines, u),
         NEW chunk, Len(chunk) \in Nat, u + Len(chunk) <= 3 * Len(lines),
         \A k \in 1..Len(chunk) : Like(chunk[k], Wire(lines)[u + k])
  PROVE  Stage(Scan(chunk), lines, u + Len(chunk))
<1> DEFINE n == Len(chunk)
<1>1. PICK f : Scans(chunk, n, f) /\ Scan(chunk) = f[n]
  BY ScanExists
<1> DEFINE S == {k \in Nat : k <= n => Stage(f[k], lines, u + k)}
<1>2. \A k \in 0..n : f[k] = ScanAt(chunk, k, f)
  BY <1>1 DEF Scans
<1>3. 0 \in S
  <2>1. 0 \in 0..n /\ ScanAt(chunk, 0, f) = Acc
    BY DEF ScanAt
  <2>2. f[0] = Acc
    BY <1>2, <2>1
  <2>3. u + 0 = u
    OBVIOUS
  <2>4. QED
    BY <2>2, <2>3
<1>4. ASSUME NEW k \in Nat, k \in S PROVE k + 1 \in S
  <2> SUFFICES ASSUME k + 1 <= n PROVE Stage(f[k + 1], lines, u + (k + 1))
    OBVIOUS
  <2>1. k + 1 \in 0..n /\ k + 1 \in 1..n /\ k + 1 # 0 /\ (k + 1) - 1 = k /\ k <= n
    OBVIOUS
  <2>2. f[k + 1] = OnUnit(f[k], chunk[k + 1])
    BY <1>2, <2>1 DEF ScanAt
  <2>3. PICK v \in Nat : v = u + k
    OBVIOUS
  <2>4. Stage(f[k], lines, v)
    BY <1>4, <2>1, <2>3
  <2>5. v < 3 * Len(lines) /\ u + (k + 1) = v + 1
    <3>1. Len(lines) \in Nat
      OBVIOUS
    <3>2. QED
      BY <2>1, <2>3, <3>1
  <2>6. Like(chunk[k + 1], Wire(lines)[v + 1])
    BY <2>1, <2>5
  <2>7. Stage(OnUnit(f[k], chunk[k + 1]), lines, v + 1)
    BY <2>3, <2>4, <2>5, <2>6, UnitStage
  <2>8. QED
    BY <2>2, <2>5, <2>7
<1>5. S \subseteq Nat
  OBVIOUS
<1> HIDE DEF S
<1>6. S = Nat
  BY <1>3, <1>4, <1>5, SetInduction
<1>7. Stage(f[n], lines, u + n)
  BY <1>6 DEF S
<1>8. QED
  BY <1>1, <1>7

-----------------------------------------------------------------------------
(* The end of a reply.                                                     *)

Heard(sent, lines) ==
  LET calls == CallsIn(lines)
      heard == CallsOf(sent)
      said == Speech(sent)
      spoken == Speech(lines)
  IN /\ Len(heard) = Len(calls)
     /\ \A k \in DOMAIN calls :
          /\ heard[k].name = NameOf(calls[k].call)
          /\ heard[k].args = Written(calls[k].call)
          /\ heard[k].id = IdOf(calls[k])
     /\ Len(said) = Len(spoken)
     /\ \A k \in DOMAIN said :
          said[k].kind = spoken[k].kind /\ said[k].line = spoken[k].of

(* What was sent line by line, then the calls, then Done.                  *)
Sequel(sent, es, calls) ==
  /\ DOMAIN sent = 1..(Len(es) + Len(calls) + 1)
  /\ \A k \in 1..Len(es) : sent[k] = es[k]
  /\ \A k \in 1..Len(calls) : sent[Len(es) + k] = calls[k]
  /\ sent[Len(es) + Len(calls) + 1].kind = "done"

LEMMA SequelOf ==
  ASSUME NEW es, IsSeq(es), NEW calls, IsSeq(calls)
  PROVE  Sequel(es \o calls \o <<[kind |-> "done"]>>, es, calls)
<1> DEFINE d == [kind |-> "done"]
<1>1. d.kind = "done"
  OBVIOUS
<1> HIDE DEF d
<1>2. PICK t : t = <<d>>
  OBVIOUS
<1>3. IsSeq(t) /\ Len(t) = 1 /\ DOMAIN t = 1..1 /\ t[1] = d
  BY <1>2, ShortSeqs
<1>4. PICK s : s = es \o calls
  OBVIOUS
<1>5. Joins(es, calls, s)
  BY <1>4, JoinSeq
<1>6. IsSeq(s)
  BY <1>5 DEF Joins
<1>7. Joins(s, t, s \o t)
  BY <1>3, <1>6, JoinSeq
<1>8. PICK u : u = s \o t
  OBVIOUS
<1>9. /\ Len(es) \in Nat /\ Len(calls) \in Nat /\ Len(s) = Len(es) + Len(calls)
      /\ DOMAIN s = 1..(Len(es) + Len(calls))
      /\ DOMAIN es = 1..Len(es) /\ DOMAIN calls = 1..Len(calls)
      /\ \A k \in DOMAIN es : s[k] = es[k]
      /\ \A k \in DOMAIN calls : s[Len(es) + k] = calls[k]
  BY <1>5 DEF Joins
<1>10. /\ DOMAIN u = 1..(Len(s) + Len(t))
       /\ \A k \in DOMAIN s : u[k] = s[k]
       /\ \A k \in DOMAIN t : u[Len(s) + k] = t[k]
  BY <1>7, <1>8 DEF Joins
<1>11. \A k \in 1..Len(es) : k \in DOMAIN s
  BY <1>9
<1>12. \A k \in 1..Len(calls) : Len(es) + k \in DOMAIN s
  BY <1>9
<1>13. u[Len(es) + Len(calls) + 1] = d
  BY <1>3, <1>9, <1>10
<1>14. Sequel(u, es, calls)
  BY <1>1, <1>3, <1>9, <1>10, <1>11, <1>12, <1>13 DEF Sequel
<1>15. QED
  BY <1>2, <1>4, <1>8, <1>14 DEF d

(* Done alone after what was sent line by line.                            *)
LEMMA SequelDone ==
  ASSUME NEW es, IsSeq(es)
  PROVE  Sequel(Append(es, [kind |-> "done"]), es, <<>>)
<1> DEFINE d == [kind |-> "done"]
<1>1. d.kind = "done"
  OBVIOUS
<1> HIDE DEF d
<1>2. PICK u, c : u = Append(es, d) /\ c = <<>>
  OBVIOUS
<1>3. Len(c) = 0
  BY <1>2
<1>4. /\ Len(es) \in Nat /\ DOMAIN u = 1..(Len(es) + 1)
      /\ \A k \in 1..Len(es) : u[k] = es[k]
      /\ u[Len(es) + 1] = d
  BY <1>2, AppendSeq
<1>5. Len(es) + Len(c) + 1 = Len(es) + 1 /\ 1..Len(c) = {}
  BY <1>3, <1>4
<1>6. Sequel(u, es, c)
  BY <1>1, <1>4, <1>5 DEF Sequel
<1>7. QED
  BY <1>2, <1>6 DEF d

(* Nothing but the calls and Done comes after what was sent line by line.  *)
LEMMA SequelOnly ==
  ASSUME NEW es, NEW calls, NEW sent, Len(es) \in Nat, Len(calls) \in Nat,
         Sequel(sent, es, calls), NEW kinds, "done" \notin kinds,
         \A k \in 1..Len(calls) : calls[k].kind \notin kinds
  PROVE  {k \in DOMAIN sent : sent[k].kind \in kinds} = EventsOf(es, kinds)
<1>1. ASSUME NEW k \in DOMAIN sent, k \notin 1..Len(es) PROVE sent[k].kind \notin kinds
  <2>1. k \in 1..(Len(es) + Len(calls) + 1)
    BY DEF Sequel
  <2>2. CASE k = Len(es) + Len(calls) + 1
    BY <2>2 DEF Sequel
  <2>3. CASE k # Len(es) + Len(calls) + 1
    <3>1. PICK j \in 1..Len(calls) : j = k - Len(es)
      BY <1>1, <2>1, <2>3
    <3>2. k = Len(es) + j
      BY <2>1, <3>1
    <3>3. sent[k] = calls[j]
      BY <3>2 DEF Sequel
    <3>4. QED
      BY <3>3
  <2>4. QED
    BY <2>2, <2>3
<1>2. \A k \in 1..Len(es) : k \in DOMAIN sent /\ sent[k] = es[k]
  BY DEF Sequel
<1>3. QED
  BY <1>1, <1>2 DEF EventsOf

(* The texts.                                                              *)
LEMMA SpeechHeard ==
  ASSUME NEW lines, IsSeq(lines), NEW es, IsSeq(es), Recites(es, lines, Len(lines)),
         NEW calls, Len(calls) \in Nat, \A k \in 1..Len(calls) : calls[k].kind = "call",
         NEW sent, Sequel(sent, es, calls)
  PROVE  /\ Len(Speech(sent)) = Len(Speech(lines))
         /\ \A k \in DOMAIN Speech(sent) :
              /\ Speech(sent)[k].kind = Speech(lines)[k].kind
              /\ Speech(sent)[k].line = Speech(lines)[k].of
<1> DEFINE kinds == {"text", "thought"}
<1>1. PICK n \in Nat : n = Len(lines) /\ DOMAIN lines = 1..n
  BY AppendSeq
<1>2. PICK P : P = EventsOf(es, kinds)
  OBVIOUS
<1>3. PICK Q : Q = LinesOf(lines, n, kinds)
  OBVIOUS
<1>4. {k \in DOMAIN sent : sent[k].kind \in kinds} = P
  <2>1. Len(es) \in Nat
    BY AppendSeq
  <2>2. "done" \notin kinds /\ \A k \in 1..Len(calls) : calls[k].kind \notin kinds
    OBVIOUS
  <2> HIDE DEF kinds
  <2>3. QED
    BY <1>2, <2>1, <2>2, SequelOnly
<1>5. {k \in DOMAIN lines : lines[k].kind \in kinds} = Q
  BY <1>1, <1>3 DEF Audible, LinesOf
<1>6. Speech(sent) = Those(sent, P) /\ Speech(lines) = Those(lines, Q)
  BY <1>4, <1>5 DEF Speech
<1>7. \A k \in 1..Len(es) : sent[k] = es[k]
  BY DEF Sequel
<1>8. \A q \in Q : lines[q].kind \in kinds
  BY <1>3 DEF LinesOf
<1>9. PICK K : K = kinds
  OBVIOUS
<1>10. PICK r \in Nat :
           /\ Len(Those(sent, P)) = r /\ DOMAIN Those(sent, P) = 1..r
           /\ Len(Those(lines, Q)) = r /\ DOMAIN Those(lines, Q) = 1..r
           /\ \A k \in 1..r : /\ Hears(Those(sent, P)[k], Those(lines, Q)[k])
                              /\ \E q \in Q : Those(lines, Q)[k] = lines[q]
  <2>1. P = EventsOf(es, K) /\ Q = LinesOf(lines, n, K)
    BY <1>2, <1>3, <1>9
  <2>2. QED
    BY <1>1, <1>7, <2>1, Matched
<1>11. \A k \in 1..r : Those(lines, Q)[k].kind # "call"
  BY <1>8, <1>10
<1>12. \A k \in 1..r : /\ Those(sent, P)[k].kind = Those(lines, Q)[k].kind
                      /\ Those(sent, P)[k].line = Those(lines, Q)[k].of
  BY <1>10, <1>11 DEF Hears
<1>13. QED
  BY <1>6, <1>10, <1>12

(* The arguments of a call, whole.                                         *)
LEMMA ParsedWritten ==
  ASSUME NEW c \in Calls
  PROVE  Parsed(Written(c)) = Written(c)
BY DEF Parsed

(* What Gemini said is heard.                                              *)
LEMMA BlocksHeard ==
  ASSUME client # "openai", NEW lines, IsSeq(lines), WholeCalls(lines),
         NEW es, IsSeq(es), Recites(es, lines, Len(lines)),
         NEW sent, Sequel(sent, es, <<>>)
  PROVE  Heard(sent, lines)
<1> DEFINE kinds == {"call"}
<1>1. PICK n \in Nat : n = Len(lines) /\ DOMAIN lines = 1..n
  BY AppendSeq
<1>2. PICK P : P = EventsOf(es, kinds)
  OBVIOUS
<1>3. PICK Q : Q = LinesOf(lines, n, kinds)
  OBVIOUS
<1>4. {k \in DOMAIN sent : sent[k].kind = "call"} = P
  <2>1. Len(es) \in Nat
    BY AppendSeq
  <2>2. PICK none : none = <<>> /\ Len(none) = 0
    OBVIOUS
  <2>3. "done" \notin kinds /\ (\A k \in 1..Len(none) : none[k].kind \notin kinds)
        /\ Sequel(sent, es, none) /\ Len(none) \in Nat
    BY <2>2
  <2>4. {k \in DOMAIN sent : sent[k].kind \in kinds} = P
    <3> HIDE DEF kinds
    <3>1. QED
      BY <1>2, <2>1, <2>3, SequelOnly
  <2>5. QED
    BY <2>4
<1>5. Begun(lines, n) = Q
  <2>1. ASSUME NEW k \in 1..n, IsCall(lines[k]) PROVE k \in Begun(lines, n) /\ k \in Q
    <3>1. k \in Begun(lines, k) /\ lines[k].kind # "fragment"
      BY <1>1, <2>1 DEF WholeCalls
    <3>2. lines[k].kind = "call" /\ lines[k].pieces # Nil
      BY <2>1, <3>1 DEF IsCall
    <3>3. QED
      BY <1>3, <2>1, <3>1, <3>2 DEF Begun, Audible, LinesOf
  <2>2. ASSUME NEW k \in Begun(lines, n) PROVE k \in Q
    BY <2>1, <2>2 DEF Begun
  <2>3. ASSUME NEW k \in Q PROVE k \in Begun(lines, n)
    <3>1. k \in 1..n /\ IsCall(lines[k])
      BY <1>3 DEF Audible, IsCall, LinesOf
    <3>2. QED
      BY <2>1, <3>1
  <2>4. QED
    BY <2>2, <2>3
<1>6. CallsOf(sent) = Those(sent, P) /\ CallsIn(lines) = Those(lines, Q)
  BY <1>1, <1>4, <1>5 DEF CallsOf, CallsIn
<1>7. \A k \in 1..Len(es) : sent[k] = es[k]
  BY DEF Sequel
<1>8. \A q \in Q : lines[q].kind = "call" /\ IsCall(lines[q]) /\ q \in 1..n
  BY <1>3 DEF Audible, IsCall, LinesOf
<1>9. PICK K : K = kinds
  OBVIOUS
<1>10. PICK r \in Nat :
           /\ Len(Those(sent, P)) = r /\ DOMAIN Those(sent, P) = 1..r
           /\ Len(Those(lines, Q)) = r /\ DOMAIN Those(lines, Q) = 1..r
           /\ \A k \in 1..r : /\ Hears(Those(sent, P)[k], Those(lines, Q)[k])
                              /\ \E q \in Q : Those(lines, Q)[k] = lines[q]
  <2>1. P = EventsOf(es, K) /\ Q = LinesOf(lines, n, K)
    BY <1>2, <1>3, <1>9
  <2>2. QED
    BY <1>1, <1>7, <2>1, Matched
<1>11. ASSUME NEW k \in 1..r, NEW line, line = Those(lines, Q)[k]
       PROVE  /\ Those(sent, P)[k].name = NameOf(line.call)
              /\ Those(sent, P)[k].args = Written(line.call)
              /\ Those(sent, P)[k].id = IdOf(line)
  <2>1. PICK q \in Q : line = lines[q]
    BY <1>10, <1>11
  <2>2. /\ line.kind = "call" /\ line.call \in Calls /\ line.pieces = Written(line.call)
        /\ line.name = NameOf(line.call)
    BY <1>1, <1>8, <2>1 DEF WholeCalls
  <2>3. PICK e : e = Those(sent, P)[k]
    OBVIOUS
  <2>4. e.name = line.name /\ e.args = Parsed(line.pieces) /\ e.id = line.id
    BY <1>10, <1>11, <2>2, <2>3 DEF Hears
  <2>5. e.args = Written(line.call)
    BY <2>2, <2>4, ParsedWritten
  <2>6. IdOf(line) = line.id
    BY DEF IdOf
  <2>7. QED
    BY <2>2, <2>3, <2>4, <2>5, <2>6
<1>12. PICK none : none = <<>> /\ Len(none) = 0 /\ Sequel(sent, es, none)
  OBVIOUS
<1>13. /\ Len(Speech(sent)) = Len(Speech(lines))
       /\ \A k \in DOMAIN Speech(sent) :
            /\ Speech(sent)[k].kind = Speech(lines)[k].kind
            /\ Speech(sent)[k].line = Speech(lines)[k].of
  BY <1>12, SpeechHeard
<1>14. QED
  BY <1>1, <1>6, <1>10, <1>11, <1>13 DEF Heard

(* The calls of active_tools are sent in the order of their places.        *)
LEMMA AssembledOf ==
  ASSUME NEW t, NEW m \in Nat, DOMAIN t = 0..(m - 1), \A k \in DOMAIN t : t[k].name # <<>>
  PROVE  /\ IsSeq(Assembled(t)) /\ Len(Assembled(t)) = m /\ DOMAIN Assembled(t) = 1..m
         /\ \A j \in 1..m : Assembled(t)[j] = CallEvent(t[j - 1])
<1> DEFINE named == {k \in DOMAIN t : t[k].name # <<>>}
           g == [j \in 1..m |-> j - 1]
<1>1. named = 0..(m - 1)
  OBVIOUS
<1>2. Enumerates(g, 0..(m - 1), m)
  <2>1. g \in [1..m -> 0..(m - 1)]
    OBVIOUS
  <2>2. \A x \in 0..(m - 1) : x + 1 \in 1..m /\ g[x + 1] = x
    OBVIOUS
  <2>3. \A i, j \in 1..m : i < j => g[i] < g[j]
    OBVIOUS
  <2> HIDE DEF g
  <2>4. QED
    BY <2>1, <2>2, <2>3 DEF Enumerates
<1>3. InOrder(0..(m - 1)) = g
  <2>1. PICK Z : Z = 0..(m - 1)
    OBVIOUS
  <2>2. Z \in SUBSET Nat
    <3>1. \A z \in Z : z \in Nat
      BY <2>1
    <3>2. QED
      BY <3>1
  <2> HIDE DEF g
  <2>3. InOrder(Z) = g
    BY <1>2, <2>1, <2>2, EnumOrder
  <2>4. QED
    BY <2>1, <2>3
<1>4. Assembled(t) = [j \in DOMAIN InOrder(named) |-> CallEvent(t[InOrder(named)[j]])]
  BY DEF Assembled
<1>5. Assembled(t) = [j \in 1..m |-> CallEvent(t[j - 1])]
  <2>1. PICK N : N = named
    OBVIOUS
  <2>2. InOrder(N) = g /\ Assembled(t) = [j \in DOMAIN InOrder(N) |-> CallEvent(t[InOrder(N)[j]])]
    BY <1>1, <1>3, <1>4, <2>1
  <2>3. DOMAIN g = 1..m /\ \A j \in 1..m : g[j] = j - 1
    OBVIOUS
  <2> HIDE DEF g
  <2>4. QED
    BY <2>2, <2>3
<1>6. PICK s : s = Assembled(t)
  OBVIOUS
<1>7. DOMAIN s = 1..m /\ s = [j \in 1..m |-> s[j]] /\ \A j \in 1..m : s[j] = CallEvent(t[j - 1])
  BY <1>5, <1>6
<1>8. IsSeq(s) /\ Len(s) = m
  BY <1>7, ShortSeqs
<1>9. QED
  BY <1>6, <1>7, <1>8

(* The calls that come at the end are those heard.                         *)
LEMMA CallsOfSequel ==
  ASSUME NEW es, NEW calls, NEW sent, Len(es) \in Nat, Len(calls) \in Nat,
         Sequel(sent, es, calls), \A k \in 1..Len(es) : es[k].kind # "call",
         \A k \in 1..Len(calls) : calls[k].kind = "call"
  PROVE  /\ Len(CallsOf(sent)) = Len(calls) /\ DOMAIN CallsOf(sent) = 1..Len(calls)
         /\ \A k \in 1..Len(calls) : CallsOf(sent)[k] = calls[k]
<1> DEFINE m == Len(calls)
           E == Len(es)
           P == {k \in DOMAIN sent : sent[k].kind = "call"}
           g == [k \in 1..m |-> E + k]
<1>1. /\ DOMAIN sent = 1..(E + m + 1)
      /\ \A k \in 1..E : sent[k] = es[k]
      /\ \A k \in 1..m : sent[E + k] = calls[k]
      /\ sent[E + m + 1].kind = "done"
  BY DEF Sequel
<1>2. \A k \in 1..m : E + k \in P /\ sent[E + k] = calls[k]
  <2>1. \A k \in 1..m : E + k \in 1..(E + m + 1)
    OBVIOUS
  <2>2. QED
    BY <1>1, <2>1
<1>3. ASSUME NEW k \in P PROVE \E j \in 1..m : E + j = k
  <2>1. k \in 1..(E + m + 1) /\ sent[k].kind = "call"
    BY <1>1
  <2>2. k \notin 1..E /\ k # E + m + 1
    BY <1>1, <2>1
  <2>3. m \in Nat /\ E \in Nat
    OBVIOUS
  <2> HIDE DEF m, E
  <2>4. k - E \in 1..m /\ E + (k - E) = k
    BY <2>1, <2>2, <2>3
  <2>5. QED
    BY <2>4
<1>4. P \in SUBSET Nat
  <2>1. \A k \in P : k \in Nat
    BY <1>1
  <2> HIDE DEF P
  <2>2. QED
    BY <2>1
<1>5. m \in Nat /\ E \in Nat
  OBVIOUS
<1> HIDE DEF P, m, E
<1>6. g \in [1..m -> P]
  BY <1>2
<1>7. \A i, j \in 1..m : i < j => g[i] < g[j]
  BY <1>5
<1>8. \A x \in P : \E i \in 1..m : g[i] = x
  BY <1>3
<1>9. DOMAIN g = 1..m /\ \A k \in 1..m : g[k] = E + k
  OBVIOUS
<1> HIDE DEF g
<1>10. Enumerates(g, P, m)
  BY <1>6, <1>7, <1>8 DEF Enumerates
<1>11. InOrder(P) = g
  BY <1>4, <1>5, <1>10, EnumOrder
<1>12. CallsOf(sent) = [k \in 1..m |-> sent[g[k]]]
  BY <1>9, <1>11 DEF CallsOf, Those, P
<1>13. \A k \in 1..m : sent[g[k]] = calls[k]
  BY <1>2, <1>9
<1>14. PICK s : s = CallsOf(sent)
  OBVIOUS
<1>15. DOMAIN s = 1..m /\ s = [k \in 1..m |-> s[k]] /\ \A k \in 1..m : s[k] = calls[k]
  BY <1>12, <1>13, <1>14
<1>16. Len(s) = m
  BY <1>5, <1>15, ShortSeqs
<1>17. QED
  BY <1>14, <1>15, <1>16 DEF m

(* What an OpenAI-compatible provider said is heard.                       *)
LEMMA FragmentsHeard ==
  ASSUME client = "openai", NEW lines, IsSeq(lines), InFragments(lines),
         NEW es, IsSeq(es), Recites(es, lines, Len(lines)),
         \A k \in 1..Len(es) : es[k].kind # "call",
         NEW t, NEW p, Sorted(t, p, lines, Len(lines)),
         NEW sent, Sequel(sent, es, Assembled(t))
  PROVE  Heard(sent, lines)
<1>1. PICK n \in Nat : n = Len(lines) /\ DOMAIN lines = 1..n
  BY AppendSeq
<1>2. PICK m \in Nat : \E begun : Sorts(begun, m, t, p, lines, n)
  BY <1>1 DEF Sorted
<1>3. PICK begun : Sorts(begun, m, t, p, lines, n)
  BY <1>2
<1>4. /\ Enumerates(begun, Begun(lines, n), m) /\ DOMAIN t = 0..(m - 1)
      /\ \A i \in 1..m : EntryOf(t[i - 1], lines, lines[begun[i]].call, n)
  BY <1>3 DEF Sorts
<1>5. /\ Begun(lines, n) \in SUBSET Nat
      /\ \A i \in 1..m : begun[i] \in Begun(lines, n) /\ begun[i] \in 1..n
  BY <1>4, BegunType
<1>6. ASSUME NEW i \in 1..m, NEW c, c = lines[begun[i]].call
      PROVE  /\ c \in Calls /\ t[i - 1].args = Written(c) /\ t[i - 1].name = NameOf(c)
             /\ t[i - 1].name # <<>> /\ t[i - 1].id = lines[begun[i]].id
  <2>1. PICK k \in 1..n : k = begun[i] /\ k \in Begun(lines, n)
    BY <1>5
  <2>2. lines[k].kind = "fragment" /\ lines[k].call = c
    <3>1. IsCall(lines[k]) /\ lines[k].kind # "call"
      BY <1>1, <2>1, BegunOnce DEF InFragments
    <3>2. QED
      BY <1>6, <2>1, <3>1 DEF IsCall
  <2>3. PICK N : N = Cardinality(Namings(lines, c, n))
    OBVIOUS
  <2>4. /\ c \in Calls /\ Cardinality(Pieces(lines, c, n)) = Parts[c]
        /\ N >= Len(Spelling[c])
    BY <1>1, <2>2, <2>3 DEF InFragments
  <2>5. N \in Nat
    <3>1. PICK V : V = Namings(lines, c, n)
      OBVIOUS
    <3>2. V \in SUBSET (1..n)
      BY <3>1 DEF Namings, CallLines
    <3>3. IsFiniteSet(V)
      <4>1. IsFiniteSet(1..n)
        BY FS_Interval
      <4>2. QED
        BY <3>2, <4>1, FS_Subset
    <3>4. QED
      BY <2>3, <3>1, <3>3, FS_CardinalityType
  <2>6. PICK e : /\ e = t[i - 1] /\ EntryOf(e, lines, c, n)
                 /\ e.id = lines[begun[i]].id
    BY <1>3, <1>4, <1>6 DEF Sorts
  <2>7. e.args = Written(c) /\ e.name = Spelt(c, N)
    BY <2>3, <2>4, <2>6 DEF EntryOf, Written
  <2>8. Spelt(c, N) = NameOf(c) /\ NameOf(c) # <<>>
    <3>1. PICK L : L = Len(Spelling[c])
      OBVIOUS
    <3>2. L \in Nat \ {0} /\ NameOf(c) # <<>> /\ NameOf(c) = Spelling[c][L]
      BY <2>4, <3>1, LlmStreamAssumption DEF NameOf, Last
    <3>3. N # 0 /\ (N <= L => N = L)
      BY <2>4, <2>5, <3>1, <3>2
    <3>4. QED
      BY <3>1, <3>2, <3>3 DEF Spelt
  <2>9. QED
    BY <2>4, <2>6, <2>7, <2>8
<1>7. \A k \in DOMAIN t : t[k].name # <<>>
  <2>1. \A k \in 0..(m - 1) : \E i \in 1..m : k = i - 1
    <3>1. \A k \in 0..(m - 1) : k + 1 \in 1..m /\ k = (k + 1) - 1
      OBVIOUS
    <3>2. QED
      BY <3>1
  <2>2. QED
    BY <1>4, <1>6, <2>1
<1>8. PICK calls : calls = Assembled(t)
  OBVIOUS
<1>9. /\ IsSeq(calls) /\ Len(calls) = m /\ DOMAIN calls = 1..m
      /\ \A j \in 1..m : calls[j] = CallEvent(t[j - 1])
  BY <1>4, <1>7, <1>8, AssembledOf
<1>10. Sequel(sent, es, calls) /\ Len(es) \in Nat
  BY <1>8, AppendSeq
<1>11. \A k \in 1..Len(calls) : calls[k].kind = "call"
  BY <1>9 DEF CallEvent
<1>12. /\ Len(CallsOf(sent)) = m /\ DOMAIN CallsOf(sent) = 1..m
       /\ \A k \in 1..m : CallsOf(sent)[k] = CallEvent(t[k - 1])
  <2>1. Len(calls) \in Nat
    BY <1>9
  <2>2. /\ Len(CallsOf(sent)) = Len(calls) /\ DOMAIN CallsOf(sent) = 1..Len(calls)
        /\ \A k \in 1..Len(calls) : CallsOf(sent)[k] = calls[k]
    BY <1>10, <1>11, <2>1, CallsOfSequel
  <2>3. QED
    BY <1>9, <2>2
<1>13. PICK those : those = CallsIn(lines)
  OBVIOUS
<1>14. Len(those) = m /\ DOMAIN those = 1..m /\ \A k \in 1..m : those[k] = lines[begun[k]]
  <2>1. InOrder(Begun(lines, n)) = begun
    BY <1>4, <1>5, EnumOrder
  <2>2. DOMAIN begun = 1..m
    BY <1>4 DEF Enumerates
  <2>3. CallsIn(lines) = [k \in 1..m |-> lines[begun[k]]]
    BY <1>1, <2>1, <2>2 DEF CallsIn, Those
  <2>4. DOMAIN those = 1..m /\ those = [k \in 1..m |-> those[k]]
        /\ \A k \in 1..m : those[k] = lines[begun[k]]
    BY <1>13, <2>3
  <2>5. QED
    BY <2>4, ShortSeqs
<1>15. ASSUME NEW k \in 1..m, NEW c, c = those[k].call
       PROVE  /\ CallsOf(sent)[k].name = NameOf(c)
              /\ CallsOf(sent)[k].args = Written(c)
              /\ CallsOf(sent)[k].id = IdOf(those[k])
  <2>1. c = lines[begun[k]].call /\ those[k] = lines[begun[k]]
    BY <1>14, <1>15
  <2>2. PICK e, x : e = CallsOf(sent)[k] /\ x = t[k - 1] /\ e = CallEvent(x)
    BY <1>12
  <2>3. e.args = Parsed(x.args) /\ e.name = x.name /\ e.id = CallId(x.id)
    BY <2>2 DEF CallEvent
  <2>4. /\ c \in Calls /\ x.args = Written(c) /\ x.name = NameOf(c)
        /\ x.id = lines[begun[k]].id
    BY <1>6, <2>1, <2>2
  <2>5. e.args = Written(c)
    BY <2>3, <2>4, ParsedWritten
  <2>6. IdOf(those[k]) = CallId(x.id)
    BY <2>1, <2>4 DEF IdOf
  <2>7. QED
    BY <2>2, <2>3, <2>4, <2>5, <2>6
<1>16. /\ Len(Speech(sent)) = Len(Speech(lines))
       /\ \A k \in DOMAIN Speech(sent) :
            /\ Speech(sent)[k].kind = Speech(lines)[k].kind
            /\ Speech(sent)[k].line = Speech(lines)[k].of
  BY <1>9, <1>10, <1>11, SpeechHeard
<1>17. /\ Len(CallsOf(sent)) = Len(CallsIn(lines))
       /\ \A k \in DOMAIN CallsIn(lines) :
            /\ CallsOf(sent)[k].name = NameOf(CallsIn(lines)[k].call)
            /\ CallsOf(sent)[k].args = Written(CallsIn(lines)[k].call)
            /\ CallsOf(sent)[k].id = IdOf(CallsIn(lines)[k])
  BY <1>12, <1>13, <1>14, <1>15
<1>18. QED
  BY <1>16, <1>17 DEF Heard

-----------------------------------------------------------------------------
(* The steps of a stream, as far as the reply goes.                        *)

(* Where the task is in the reply it reads: what came is heard, and what   *)
(* is still to come is the rest.                                           *)
Position(lines) ==
  \E u \in Nat : /\ Stage(Acc, lines, u) /\ u + Len(wire) = 3 * Len(lines)
                 /\ \A k \in 1..Len(wire) : wire[k] = Wire(lines)[u + k]
Reading(lines) ==
  lines \in Replies[client] /\ reply = [lines |-> lines, whole |-> FALSE] /\ Position(lines)

(* A reply is there while it is read, and until its end is heard.          *)
HeardInv ==
  /\ phase \in {"idle", "connect"} => reply = Nil
  /\ phase = "read" => \E lines : Reading(lines)
  /\ ReplyHeard

(* The replies of the session's provider.                                  *)
LEMMA ReplyOf ==
  ASSUME RepliesRegular, client \in Clients, NEW lines \in Replies[client]
  PROVE  lines \in Seq(Lines) /\ Regular(lines) /\ IsSeq(lines)
<1>1. lines \in Seq(Lines)
  BY LlmStreamAssumption
<1>2. Regular(lines)
  BY DEF RepliesRegular, Regular
<1>3. IsSeq(lines)
  <2>1. Len(lines) \in Nat /\ DOMAIN lines = 1..Len(lines)
        /\ lines = [k \in 1..Len(lines) |-> lines[k]]
    BY <1>1
  <2>2. QED
    BY <2>1, ShortSeqs
<1>4. QED
  BY <1>1, <1>2, <1>3

(* What comes out of the decoder is what was sent, up to what is intact.   *)
LEMMA DecodedLike ==
  ASSUME NEW lines \in Seq(Lines), NEW u \in Nat, wire \in Seq(Halves \cup {Eol}),
         u + Len(wire) = 3 * Len(lines),
         \A k \in 1..Len(wire) : wire[k] = Wire(lines)[u + k],
         NEW n \in 1..Len(wire), NEW d, d = Decoded(SubSeq(wire, 1, n))
  PROVE  Len(d) = n /\ \A k \in 1..n : Like(d[k], Wire(lines)[u + k])
<1> DEFINE H == Halves \cup {Eol}
<1>1. PICK chunk : chunk = SubSeq(wire, 1, n)
  OBVIOUS
<1>2. /\ chunk \in Seq(H) /\ Len(chunk) = n /\ DOMAIN chunk = 1..n
      /\ \A k \in 1..n : chunk[k] = wire[k]
  <2> HIDE DEF H
  <2>1. PICK w : w = wire /\ w \in Seq(H) /\ n \in 1..Len(w)
    BY DEF H
  <2>2. /\ SubSeq(w, 1, n) \in Seq(H) /\ Len(SubSeq(w, 1, n)) = n
        /\ DOMAIN SubSeq(w, 1, n) = 1..n
        /\ \A k \in 1..n : SubSeq(w, 1, n)[k] = w[k]
    BY <2>1
  <2>3. QED
    BY <1>1, <2>1, <2>2
<1>3. d = Decoded(chunk) /\ d \in Seq(H)
  BY <1>1, <1>2, DecodedTypes
<1>4. DOMAIN d = 1..n
  BY <1>2, <1>3 DEF Decoded
<1>5. Len(d) = n
  <2> HIDE DEF H
  <2>1. Len(d) \in Nat /\ DOMAIN d = 1..Len(d) /\ n \in Nat
    BY <1>3
  <2>2. QED
    BY <1>4, <2>1
<1>6. ASSUME NEW k \in 1..n PROVE Like(d[k], Wire(lines)[u + k])
  <2>1. k \in 1..Len(wire)
    OBVIOUS
  <2>2. chunk[k] = Wire(lines)[u + k]
    BY <1>2, <2>1
  <2>3. chunk[k] \in H /\ d[k] \in H
    BY <1>2, <1>3, <1>4
  <2>4. d[k] = IF /\ chunk[k] # Eol /\ chunk[k].line.wide
                  /\ \/ k = 1 /\ chunk[k].half = 2
                     \/ k = Len(chunk) /\ chunk[k].half = 1
                 THEN [chunk[k] EXCEPT !.intact = FALSE]
                 ELSE chunk[k]
    BY <1>2, <1>3 DEF Decoded
  <2>5. PICK x, y : x = chunk[k] /\ y = d[k]
    OBVIOUS
  <2>6. y = x \/ (x # Eol /\ y = [x EXCEPT !.intact = FALSE])
    BY <2>4, <2>5
  <2>7. CASE x = Eol
    BY <2>2, <2>5, <2>6, <2>7 DEF Like
  <2>8. CASE x # Eol
    <3>1. x \in Halves
      BY <2>3, <2>5, <2>8
    <3>2. [x EXCEPT !.intact = FALSE] \in Halves /\ [x EXCEPT !.intact = FALSE].line = x.line
      BY <3>1 DEF Halves
    <3>3. y \in Halves /\ y.line = x.line
      BY <2>6, <3>1, <3>2
    <3>4. QED
      BY <2>2, <2>5, <2>8, <3>3 DEF Like
  <2>9. QED
    BY <2>7, <2>8
<1>7. QED
  BY <1>5, <1>6

(* A chunk is heard as the units it is of.                                 *)
LEMMA ReadHeard ==
  ASSUME RepliesRegular, StreamInv, HeardInv, NEW n \in 1..Len(wire), Read(n)
  PROVE  HeardInv'
<1>1. /\ phase = "read" /\ client \in Clients /\ AccOK(Acc)
      /\ wire \in Seq(Halves \cup {Eol}) /\ Len(wire) \in Nat
  BY DEF StreamInv, Read
<1>2. PICK lines : Reading(lines)
  BY <1>1 DEF HeardInv
<1>3. lines \in Replies[client] /\ reply = [lines |-> lines, whole |-> FALSE]
  BY <1>2 DEF Reading
<1>4. lines \in Seq(Lines) /\ Regular(lines) /\ IsSeq(lines)
  BY <1>1, <1>3, ReplyOf
<1>5. PICK u \in Nat : /\ Stage(Acc, lines, u) /\ u + Len(wire) = 3 * Len(lines)
                       /\ \A k \in 1..Len(wire) : wire[k] = Wire(lines)[u + k]
  BY <1>2 DEF Reading, Position
<1>6. PICK d : d = Decoded(SubSeq(wire, 1, n))
  OBVIOUS
<1>7. Len(d) = n /\ \A k \in 1..n : Like(d[k], Wire(lines)[u + k])
  BY <1>1, <1>4, <1>5, <1>6, DecodedLike
<1>8. PICK a : a = Scan(d)
  OBVIOUS
<1>9. Stage(a, lines, u + n)
  <2>1. Len(d) \in Nat /\ u + Len(d) <= 3 * Len(lines)
    BY <1>1, <1>5, <1>7
  <2>2. Stage(Scan(d), lines, u + Len(d))
    BY <1>4, <1>5, <1>7, <2>1, ScanStage
  <2>3. QED
    BY <1>7, <1>8, <2>2
<1>10. /\ buffer' = a.buffer /\ tools' = a.tools /\ places' = a.places /\ events' = a.events
       /\ phase' = IF a.over THEN "over" ELSE "read"
       /\ reply' = [reply EXCEPT !.whole = a.over]
       /\ client' = client /\ wire' = SubSeq(wire, n + 1, Len(wire))
  BY <1>6, <1>8 DEF Read, sessionVars
<1>11. AccOK(a)
  BY <1>9 DEF Stage
<1>12. PICK o : o = a.over /\ o \in BOOLEAN
  BY <1>11 DEF AccOK
<1>13. reply' = [lines |-> lines, whole |-> o]
  BY <1>3, <1>10, <1>12
<1>14. PICK v \in Nat : v = u + n
  OBVIOUS
<1>15. CASE o
  <2>1. PICK k \in Nat : \E h \in {0, 1, 2} : v = 3 * k + h /\ Reached(a, lines, k, h)
    BY <1>9, <1>14 DEF Stage
  <2>2. Goes(a, lines, k)
    BY <2>1 DEF Reached
  <2>3. Finished(a, lines)
    BY <1>12, <1>15, <2>2 DEF Goes
  <2>4. PICK es : /\ IsSeq(es) /\ Recites(es, lines, Len(lines))
                  /\ a.events = Append(es, [kind |-> "done"])
    BY <2>3 DEF Finished
  <2>5. WholeCalls(lines)
    BY <1>4, <2>3 DEF Finished, Regular
  <2>6. Sequel(a.events, es, <<>>)
    BY <2>4, SequelDone
  <2>7. Heard(a.events, lines)
    BY <1>4, <2>3, <2>4, <2>5, <2>6, BlocksHeard DEF Finished
  <2>8. reply'.lines = lines
    BY <1>13
  <2>9. Heard(events', reply'.lines)
    BY <1>10, <2>7, <2>8
  <2>10. ReplyHeard'
    BY <1>10, <2>9 DEF ReplyHeard, Heard, IdOf
  <2>11. phase' = "over"
    BY <1>10, <1>12, <1>15
  <2>12. QED
    BY <2>10, <2>11 DEF HeardInv
<1>16. CASE ~o
  <2>1. phase' = "read" /\ ~a.over
    BY <1>10, <1>12, <1>16
  <2>2. Acc' = a
    <3>1. a = [buffer |-> a.buffer, tools |-> a.tools, places |-> a.places,
               events |-> a.events, over |-> a.over]
      BY <1>11 DEF AccOK
    <3>2. a.over = FALSE
      BY <1>11, <2>1 DEF AccOK
    <3>3. QED
      BY <1>10, <3>1, <3>2 DEF Acc
  <2>3. Stage(Acc, lines, v)'
    <3>1. Stage(a, lines, v) /\ client' = client
      BY <1>9, <1>10, <1>14
    <3>2. QED
      BY <2>2, <3>1 DEF Stage, AccOK, Reached, Goes, Told, Finished
  <2>4. /\ Len(wire') = Len(wire) - n
        /\ \A k \in 1..Len(wire') : wire'[k] = wire[n + k]
    <3>1. PICK w : w = wire /\ w \in Seq(Halves \cup {Eol}) /\ n \in 1..Len(w) /\ Len(w) \in Nat
      BY <1>1
    <3>2. /\ Len(SubSeq(w, n + 1, Len(w))) = Len(w) - n
          /\ \A k \in 1..(Len(w) - n) : SubSeq(w, n + 1, Len(w))[k] = w[n + k]
      BY <3>1
    <3>3. QED
      BY <1>10, <3>1, <3>2
  <2>5. \A k \in 1..Len(wire') : wire'[k] = Wire(lines)[v + k]
    <3>1. \A k \in 1..Len(wire') : n + k \in 1..Len(wire) /\ u + (n + k) = v + k
      BY <1>1, <1>14, <2>4
    <3>2. QED
      BY <1>5, <2>4, <3>1
  <2>6. v + Len(wire') = 3 * Len(lines)
    <3>1. PICK l \in Nat : l = Len(wire) /\ n \in 1..l
      BY <1>1
    <3>2. PICK r : r = Len(wire') /\ r = l - n
      BY <2>4, <3>1
    <3>3. v + r = u + l
      BY <1>14, <3>1, <3>2
    <3>4. QED
      BY <1>5, <3>1, <3>2, <3>3
  <2>7. Position(lines)'
    BY <2>3, <2>5, <2>6 DEF Position
  <2>8. Reading(lines)'
    <3>1. reply' = [lines |-> lines, whole |-> FALSE]
      BY <1>12, <1>13, <1>16
    <3>2. QED
      BY <1>3, <1>10, <2>7, <3>1 DEF Reading
  <2>9. QED
    BY <2>1, <2>8 DEF HeardInv, ReplyHeard
<1>17. QED
  BY <1>12, <1>15, <1>16

(* The end: all that came is heard, if that is all that was sent.          *)
LEMMA EndsHeard ==
  ASSUME RepliesRegular, StreamInv, HeardInv, ReplyEnds
  PROVE  HeardInv'
<1>1. /\ phase = "read" /\ client \in Clients /\ AccOK(Acc) /\ ~Acc.over
      /\ wire \in Seq(Halves \cup {Eol}) /\ Len(wire) \in Nat
  BY DEF StreamInv, ReplyEnds, Acc
<1>2. PICK lines : Reading(lines)
  BY <1>1 DEF HeardInv
<1>3. lines \in Replies[client] /\ reply = [lines |-> lines, whole |-> FALSE]
  BY <1>2 DEF Reading
<1>4. lines \in Seq(Lines) /\ Regular(lines) /\ IsSeq(lines) /\ Len(lines) \in Nat
  BY <1>1, <1>3, ReplyOf
<1>5. PICK w : w = (wire = <<>>)
  OBVIOUS
<1>6. /\ phase' = "over" /\ reply' = [reply EXCEPT !.whole = w] /\ client' = client
      /\ events' = (IF client = "openai" THEN OnLine(Acc, buffer) ELSE Acc).events
                     \o Assembled((IF client = "openai" THEN OnLine(Acc, buffer) ELSE Acc).tools)
                     \o <<[kind |-> "done"]>>
  BY <1>5 DEF ReplyEnds, sessionVars
<1>7. reply'.lines = lines /\ reply'.whole = w
  BY <1>3, <1>6
<1>8. CASE wire # <<>>
  <2>1. ReplyHeard'
    BY <1>5, <1>7, <1>8 DEF ReplyHeard
  <2>2. QED
    BY <1>6, <2>1 DEF HeardInv
<1>9. CASE wire = <<>>
  <2>1. PICK u \in Nat : Stage(Acc, lines, u) /\ u + Len(wire) = 3 * Len(lines)
    BY <1>2 DEF Reading, Position
  <2>2. Len(wire) = 0
    BY <1>9
  <2>3. PICK n \in Nat : \E h \in {0, 1, 2} : u = 3 * n + h /\ Reached(Acc, lines, n, h)
    BY <2>1 DEF Stage
  <2>4. PICK h \in {0, 1, 2} : u = 3 * n + h /\ Reached(Acc, lines, n, h)
    BY <2>3
  <2>5. n \in 0..Len(lines) /\ (h # 0 => n < Len(lines))
    BY <2>4 DEF Reached
  <2>6. n = Len(lines) /\ h = 0
    BY <1>4, <2>1, <2>2, <2>4, <2>5
  <2>7. Told(Acc, lines, Len(lines)) /\ Len(Acc.buffer) = 0
    BY <1>1, <2>4, <2>6 DEF Reached, Goes
  <2>8. PICK a : a = Acc /\ a.buffer = buffer
    <3>1. Acc.buffer = buffer
      BY DEF Acc
    <3>2. QED
      BY <3>1
  <2>9. OnLine(a, buffer) = a
    BY <2>7, <2>8 DEF OnLine
  <2>10. PICK es, t, p : es = a.events /\ t = a.tools /\ p = a.places
    OBVIOUS
  <2>11. events' = es \o Assembled(t) \o <<[kind |-> "done"]>>
    BY <1>6, <2>8, <2>9, <2>10
  <2>12. /\ IsSeq(es) /\ Recites(es, lines, Len(lines)) /\ PlacesFit(t, p)
         /\ client = "openai" => /\ Sorted(t, p, lines, Len(lines))
                                 /\ \A k \in DOMAIN es : es[k].kind # "call"
         /\ client # "openai" => t = <<>>
    BY <1>1, <2>7, <2>8, <2>10 DEF Told, AccOK
  <2>13. PICK calls : calls = Assembled(t)
    OBVIOUS
  <2>14. IsSeq(calls)
    BY <2>12, <2>13, AssembledCalls DEF PlacesFit
  <2>15. Sequel(events', es, calls)
    BY <2>11, <2>12, <2>13, <2>14, SequelOf
  <2>16. ASSUME client = "openai" PROVE Heard(events', lines)
    <3>1. InFragments(lines)
      BY <1>4, <2>16 DEF Regular
    <3>2. \A k \in 1..Len(es) : es[k].kind # "call"
      BY <2>12, <2>16, AppendSeq
    <3>3. QED
      BY <1>4, <2>12, <2>13, <2>15, <2>16, <3>1, <3>2, FragmentsHeard
  <2>17. ASSUME client # "openai" PROVE Heard(events', lines)
    <3>1. WholeCalls(lines)
      BY <1>4, <2>17 DEF Regular
    <3>2. calls = <<>>
      <4>1. DOMAIN t = 0..(0 - 1) /\ \A k \in DOMAIN t : t[k].name # <<>>
        BY <2>12, <2>17
      <4>2. Len(calls) = 0
        BY <2>13, <4>1, AssembledOf
      <4>3. QED
        BY <2>14, <4>2 DEF IsSeq
    <3>3. QED
      BY <1>4, <2>12, <2>15, <2>17, <3>1, <3>2, BlocksHeard
  <2>18. Heard(events', reply'.lines)
    BY <1>7, <2>16, <2>17
  <2>19. ReplyHeard'
    BY <1>6, <2>18 DEF ReplyHeard, Heard, IdOf
  <2>20. QED
    BY <1>6, <2>19 DEF HeardInv
<1>10. QED
  BY <1>8, <1>9

(* A reply that was asked for: nothing of it is heard, all is to come.     *)
LEMMA AcceptedHeard ==
  ASSUME RepliesRegular, StreamInv, HeardInv, Accepted
  PROVE  HeardInv'
<1>1. /\ phase' = "read" /\ buffer' = <<>> /\ tools' = <<>> /\ places' = <<>>
      /\ events' = <<>> /\ client' = client /\ client \in Clients
  BY DEF StreamInv, Accepted, Try, sessionVars
<1>2. PICK lines \in Replies[client] :
        reply' = [lines |-> lines, whole |-> FALSE] /\ wire' = Wire(lines)
  BY DEF Accepted
<1>3. lines \in Seq(Lines) /\ Len(lines) \in Nat
  BY <1>1, ReplyOf
<1>4. AccOK(Acc)'
  <2>1. StreamInv'
    BY AcceptedKept
  <2>2. QED
    BY <1>1, <2>1 DEF StreamInv
<1>5. PICK a : a = [buffer |-> <<>>, tools |-> <<>>, places |-> <<>>, events |-> <<>>,
                    over |-> FALSE]
  OBVIOUS
<1>6. Acc' = a
  BY <1>1, <1>5 DEF Acc
<1>7. Told(a, lines, 0)
  <2>1. Recites(<<>>, lines, 0)
    <3>1. Audible(lines, 0) = {}
      BY DEF Audible
    <3>2. Enumerates(<<>>, {}, 0)
      BY DEF Enumerates
    <3>3. PICK es : es = <<>> /\ Len(es) = 0
      OBVIOUS
    <3>4. Recites(es, lines, 0)
      BY <3>1, <3>2, <3>3 DEF Recites
    <3>5. QED
      BY <3>3, <3>4
  <2>2. Sorted(<<>>, <<>>, lines, 0)
    <3>1. Begun(lines, 0) = {}
      BY DEF Begun
    <3>2. Enumerates(<<>>, {}, 0)
      BY DEF Enumerates
    <3>3. PICK t : t = <<>> /\ DOMAIN t = {} /\ 0..(0 - 1) = {} /\ 1..0 = {}
      OBVIOUS
    <3>4. \A x : x \in DOMAIN t <=>
             \E b \in Begun(lines, 0) : lines[b].id # Nil /\ lines[b].index = x
      BY <3>1, <3>3
    <3>5. Enumerates(t, Begun(lines, 0), 0)
      BY <3>1, <3>2, <3>3
    <3>6. Sorts(t, 0, t, t, lines, 0)
      BY <3>3, <3>4, <3>5 DEF Sorts
    <3>7. QED
      BY <3>3, <3>6 DEF Sorted
  <2>3. QED
    BY <1>5, <2>1, <2>2 DEF Told
<1>8. Reached(a, lines, 0, 0)
  <2>1. ~a.over /\ Len(a.buffer) = 0
    BY <1>5
  <2>2. QED
    BY <1>3, <1>7, <2>1 DEF Reached, Goes
<1>9. Stage(Acc, lines, 0)'
  <2>1. Reached(a, lines, 0, 0)'
    BY <1>1, <1>8 DEF Reached, Goes, Told, Finished
  <2>2. QED
    BY <1>4, <1>6, <2>1 DEF Stage
<1>10. 0 + Len(wire') = 3 * Len(lines) /\ \A k \in 1..Len(wire') : wire'[k] = Wire(lines)[0 + k]
  <2>1. Len(Wire(lines)) = 3 * Len(lines)
    BY <1>3 DEF Wire
  <2>2. QED
    BY <1>2, <1>3, <2>1
<1>11. Position(lines)'
  BY <1>9, <1>10 DEF Position
<1>12. Reading(lines)'
  BY <1>1, <1>2, <1>11 DEF Reading
<1>13. QED
  BY <1>1, <1>12 DEF HeardInv, ReplyHeard

(* A step that leaves a stream as it is.                                   *)
LEMMA SameHeard ==
  ASSUME HeardInv, UNCHANGED <<client, phase, reply, wire, buffer, tools, places, events>>
  PROVE  HeardInv'
<1>1. Acc' = Acc
  BY DEF Acc
<1>2. ReplyHeard'
  BY DEF HeardInv, ReplyHeard, IdOf
<1>3. ASSUME NEW lines, Reading(lines) PROVE Reading(lines)'
  <2>1. PICK u \in Nat : /\ Stage(Acc, lines, u) /\ u + Len(wire) = 3 * Len(lines)
                         /\ \A k \in 1..Len(wire) : wire[k] = Wire(lines)[u + k]
    BY <1>3 DEF Reading, Position
  <2>2. PICK a : a = Acc
    OBVIOUS
  <2>3. Stage(a, lines, u)'
    BY <2>1, <2>2 DEF Stage, AccOK, Reached, Goes, Told, Finished
  <2>4. Stage(Acc, lines, u)'
    BY <1>1, <2>2, <2>3 DEF Stage, AccOK, Reached, Goes, Told, Finished
  <2>5. Position(lines)'
    BY <2>1, <2>4 DEF Position
  <2>6. QED
    BY <1>3, <2>5 DEF Reading
<1>4. QED
  BY <1>2, <1>3 DEF HeardInv

(* Every step keeps it.                                                    *)
LEMMA HeardStep ==
  ASSUME RepliesRegular, StreamInv, HeardInv, [Next]_vars
  PROVE  HeardInv'
<1>1. ASSUME NEW i \in Instructions, Stream(i) PROVE HeardInv'
  <2>1. phase = "idle" /\ phase' = "connect" /\ reply' = reply
    BY <1>1 DEF Stream, Asked, Resolve, Send, readVars
  <2>2. QED
    BY <2>1 DEF HeardInv, ReplyHeard
<1>2. CASE UploadFails
  BY <1>2, SameHeard DEF UploadFails, sessionVars, readVars
<1>3. CASE Accepted
  BY <1>3, AcceptedHeard
<1>4. CASE Refused \/ Transient
  <2>1. phase = "connect" /\ phase' \in {"connect", "over"} /\ reply' = reply
    BY <1>4 DEF Refused, Transient, Try, End, readVars
  <2>2. QED
    BY <2>1 DEF HeardInv, ReplyHeard
<1>5. ASSUME NEW n \in 1..Len(wire), Read(n) PROVE HeardInv'
  BY <1>5, ReadHeard
<1>6. CASE ReadFails
  <2>1. phase = "read" /\ phase' = "over" /\ reply' = reply
    BY <1>6 DEF ReadFails, End, readVars
  <2>2. PICK lines : reply = [lines |-> lines, whole |-> FALSE]
    BY <2>1 DEF HeardInv, Reading
  <2>3. ~reply'.whole
    BY <2>1, <2>2
  <2>4. QED
    BY <2>1, <2>3 DEF HeardInv, ReplyHeard
<1>7. CASE ReplyEnds
  BY <1>7, EndsHeard
<1>8. CASE Consume
  BY <1>8 DEF Consume, Forgotten, HeardInv, ReplyHeard
<1>9. ASSUME NEW c \in Clients, Switch(c) PROVE HeardInv'
  BY <1>9 DEF Switch, readVars, HeardInv, ReplyHeard
<1>10. ASSUME NEW id \in DOMAIN caches, Expire(id) PROVE HeardInv'
  BY <1>10, SameHeard DEF Expire, readVars
<1>11. CASE UNCHANGED vars
  BY <1>11, SameHeard DEF vars, sessionVars, readVars
<1>12. QED
  BY <1>1, <1>2, <1>3, <1>4, <1>5, <1>6, <1>7, <1>8, <1>9, <1>10, <1>11
  DEF Next, Answer, Receive

(* ReplyHeard: if the providers keep to their protocols, a session hears a *)
(* reply that came to its end as it was written: its texts, its calls in   *)
(* the order they were begun, and of each its own name, its own arguments  *)
(* and its own id, however the network cut it and however the fragments of *)
(* its calls were mixed.                                                   *)
THEOREM ReplyHeardCorrect ==
  ASSUME RepliesRegular
  PROVE  Spec => []ReplyHeard
<1>1. Init => StreamInv /\ HeardInv
  BY InitInv DEF Init, HeardInv, ReplyHeard
<1>2. StreamInv /\ HeardInv /\ [Next]_vars => (StreamInv /\ HeardInv)'
  BY StreamStep, HeardStep
<1>3. HeardInv => ReplyHeard
  BY DEF HeardInv
<1>4. QED
  BY <1>1, <1>2, <1>3, PTL DEF Spec
=============================================================================
