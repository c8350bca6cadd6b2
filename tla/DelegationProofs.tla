-------------------------- MODULE DelegationProofs --------------------------
(***************************************************************************)
(* Proofs about Delegation: the types, the lineages of skills, the budget  *)
(* of a root, and who waits for whom, for any number of sessions, skills,  *)
(* turns and slots.                                                        *)
(***************************************************************************)
EXTENDS Delegation, FiniteSetTheorems, TLAPS

(* The user's session is always there; the others are there once they have *)
(* been given a request; a call that was checked has kept its context.     *)
Present ==
  /\ given[0] = Nil /\ phase[0] # "absent"
  /\ \A s \in Sessions \ {0} : phase[s] = "absent" <=> given[s] = Nil
  /\ \A s \in Sessions :
       phase[s] = "checked" => req[s] # Nil /\ req[s].chain = ContextOf(s)

(* A call that was checked finds a session to become.                      *)
RoomKept ==
  Cardinality({s \in Sessions : phase[s] = "checked"})
    <= Cardinality({s \in Sessions : phase[s] = "absent"})

(* A lineage as activate_skill lets it grow.                               *)
Sound(l) ==
  /\ \A i, j \in DOMAIN l : i # j => l[i] # l[j]
  /\ Len(l) <= MaxDepth

(* An invocation stands at the end of such a lineage.                      *)
SoundInvocation(v) ==
  Sound(v.chain.lineage) /\ v.chain.lineage[Len(v.chain.lineage)] = v.name

(* The chains that sessions inherit, and those of active skills.           *)
Lineages ==
  \A s \in Sessions :
    /\ Inherited(s) # Nil => Sound(Inherited(s).lineage)
    /\ active[s] # Nil => SoundInvocation(active[s])

(* Calls in the foreground that have not ended.                            *)
Open(c) == c # 0 /\ given[c] # Nil /\ given[c].sync /\ phase[c] # "ended"

(* Such a call is waited for, and whoever waits does so for one of them.   *)
Waits ==
  /\ \A c \in Sessions : Open(c) => phase[parent[c]] = "waiting"
  /\ \A p \in Sessions : phase[p] = "waiting" =>
       /\ \E c \in Sessions : Awaits(p, c)
       /\ \A c, d \in Sessions : Awaits(p, c) /\ Awaits(p, d) => c = d

(* A turn that has a guard before it has a point to pay it with.           *)
Powered == \A s \in Sessions : Running(s) => energy[s] # 0

(* The inductive invariant.                                                *)
IInv ==
  /\ TypeOK /\ Present /\ RoomKept /\ Lineages /\ EveryCallCounted /\ Waits
  /\ Powered
-----------------------------------------------------------------------------
(* Small facts.                                                            *)

(* Sessions are numbered from 0, and any of them but the first is a root.  *)
LEMMA SessionFacts ==
  /\ N \in Nat /\ 0 \in Sessions /\ IsFiniteSet(Sessions)
  /\ \A s \in Sessions : s \in Nat /\ (s # 0 => s \in Roots)
<1>1. N \in Nat /\ Turns \in Nat
  BY DelegationAssumption
<1>2. IsFiniteSet(Sessions)
  BY <1>1, FS_Interval DEF Sessions
<1>3. QED
  BY <1>1, <1>2 DEF Sessions, Roots

(* Nil is no chain, no invocation and no request.                          *)
LEMMA NilApart ==
  Nil \notin Chain /\ Nil \notin Invocation /\ Nil \notin Request
BY DelegationAssumption

(* The fields of a request and of an invocation.                           *)
LEMMA FieldTypes ==
  /\ \A r \in Request : /\ r.chain \in Chain \cup {Nil} /\ r.steps \in Nat
                        /\ r.input \in Names /\ r.skill \in BOOLEAN
                        /\ r.sync \in BOOLEAN
  /\ \A v \in Invocation : /\ v.chain \in Chain /\ v.name \in Skills
                           /\ v.pending \in BOOLEAN
  /\ \A c \in Chain : c.root \in Roots /\ c.lineage \in Seq(Skills)
BY DEF Request, Invocation, Chain

(* The context of a session is a chain, if it has one.                     *)
LEMMA ContextType ==
  ASSUME TypeOK, NEW s \in Sessions
  PROVE  /\ Inherited(s) \in Chain \cup {Nil}
         /\ ContextOf(s) \in Chain \cup {Nil}
BY FieldTypes DEF TypeOK, Inherited, ContextOf

(* Numbers of steps and points are natural.                                *)
LEMMA StepsType ==
  ASSUME NEW m \in Nat, NEW n \in Nat
  PROVE  AtLeastOne(m) \in Nat /\ ChildSteps(m, n) \in Nat
<1>1. AtLeastOne(n) \in Nat /\ AtLeastOne(m) \in Nat
  BY DEF AtLeastOne
<1>2. AtLeastOne(n) \div 2 \in Nat
  BY <1>1
<1>3. AtLeastOne(AtLeastOne(n) \div 2) \in Nat
  BY <1>2 DEF AtLeastOne
<1>4. QED
  BY <1>1, <1>3 DEF ChildSteps, Smaller

-----------------------------------------------------------------------------
(* What ends with a session.                                               *)

(* A call that is waited for ends with whoever waits for it.               *)
LEMMA DroppedClosed ==
  ASSUME NEW s \in Sessions, NEW p \in Dropped(s) \cup {s}, NEW c \in Sessions,
         Awaits(p, c)
  PROVE  c \in Dropped(s) \cup {s}
<1>1. CASE c = s
  BY <1>1
<1>2. CASE c # s
  <2> SUFFICES ASSUME NEW S \in SUBSET Sessions, s \in S, Closed(S)
               PROVE  c \in S
    BY <1>2 DEF Dropped
  <2>1. p \in S
    BY DEF Dropped
  <2>2. QED
    BY <2>1 DEF Closed
<1>3. QED
  BY <1>1, <1>2

(* What ends with s is waited for by s or by what ends with s.             *)
LEMMA DroppedAwaited ==
  ASSUME NEW s \in Sessions, NEW c \in Dropped(s)
  PROVE  \E p \in Dropped(s) \cup {s} : Awaits(p, c)
<1> SUFFICES ASSUME \A p \in Dropped(s) \cup {s} : ~Awaits(p, c)
             PROVE  FALSE
  OBVIOUS
<1> DEFINE S == (Dropped(s) \cup {s}) \ {c}
<1>1. c \in Sessions /\ c # s
  BY DEF Dropped
<1>2. S \in SUBSET Sessions /\ s \in S
  BY <1>1 DEF Dropped
<1>3. Closed(S)
  <2> SUFFICES ASSUME NEW p \in S, NEW d \in Sessions, Awaits(p, d)
               PROVE  d \in S
    BY DEF Closed
  <2>1. d \in Dropped(s) \cup {s}
    BY DroppedClosed
  <2>2. d # c
    OBVIOUS
  <2>3. QED
    BY <2>1, <2>2
<1>4. c \in S
  BY <1>2, <1>3 DEF Dropped
<1>5. QED
  BY <1>4

(* So it is a call in the foreground that has not ended.                   *)
LEMMA DroppedOpen ==
  ASSUME NEW s \in Sessions, NEW c \in Dropped(s)
  PROVE  /\ c \in Sessions /\ c # s /\ Open(c)
         /\ phase[parent[c]] = "waiting"
         /\ parent[c] \in Dropped(s) \cup {s}
<1>1. PICK p \in Dropped(s) \cup {s} : Awaits(p, c)
  BY DroppedAwaited
<1>2. c \in Sessions /\ c # s
  BY DEF Dropped
<1>3. QED
  BY <1>1, <1>2 DEF Awaits, Open

(* The end of a session, session by session.                               *)
LEMMA EndEffect ==
  ASSUME TypeOK, Present, NEW s \in Sessions, NEW inv, End(s, inv),
         phase[s] \notin {"absent", "ended"}, NEW q \in Sessions
  PROVE  /\ q = s => phase'[q] \in {"idle", "ended"} /\ (q = 0 <=> phase'[q] = "idle")
         /\ q \in Dropped(s) => phase'[q] = "ended"
         /\ q \notin Dropped(s) \cup {s} /\ Open(s) /\ q = parent[s] =>
              phase'[q] = "tools"
         /\ q \notin Dropped(s) \cup {s} /\ ~(Open(s) /\ q = parent[s]) =>
              phase'[q] = phase[q]
         /\ active'[q] \in {active[q], inv, Nil}
         /\ q \notin Dropped(s) \cup {s} => active'[q] = active[q]
<1>1. phase' = PhasesAfter(s)
  BY DEF End
<1>2. s # 0 => (given[s].sync <=> Open(s))
  BY DEF Open, Present
<1>3. ~Open(s) => s = 0 \/ ~given[s].sync
  BY <1>2
<1>4. s \notin Dropped(s)
  BY DEF Dropped
<1>5. /\ active'[q] \in {active[q], inv, Nil}
      /\ q \notin Dropped(s) \cup {s} => active'[q] = active[q]
  BY DEF End
<1>6. QED
  BY <1>1, <1>2, <1>3, <1>4, <1>5 DEF PhasesAfter, Open

-----------------------------------------------------------------------------
(* The session that a call becomes.                                        *)

(* A call that was checked becomes a session that was not there.           *)
LEMMA NextSessionAbsent ==
  ASSUME TypeOK, Present, RoomKept, NEW s \in Sessions, phase[s] = "checked"
  PROVE  /\ NextSession \in Sessions \ {0} /\ phase[NextSession] = "absent"
         /\ NextSession # s /\ given[NextSession] = Nil
<1> DEFINE A == In("absent")
           C == {q \in Sessions : phase[q] = "checked"}
<1>1. A \in SUBSET Sessions /\ C \in SUBSET Sessions /\ s \in C
  BY DEF In
<1>2. IsFiniteSet(A) /\ IsFiniteSet(C)
  BY <1>1, SessionFacts, FS_Subset
<1>3. A # {}
  <2>1. SUFFICES ASSUME A = {} PROVE FALSE
    OBVIOUS
  <2>2. Cardinality(C) <= 0
    BY <2>1, FS_EmptySet DEF RoomKept, In
  <2>3. Cardinality(C) \in Nat /\ Cardinality(C) # 0
    BY <1>1, <1>2, FS_CardinalityType, FS_EmptySet
  <2>4. QED
    BY <2>2, <2>3
<1>4. NextSession \in A
  BY <1>3 DEF NextSession
<1>5. QED
  BY <1>4 DEF In, Present

-----------------------------------------------------------------------------
(* Where the sessions stand, step by step.                                 *)

(* There stays room while no session is checked and none is taken.         *)
LEMMA RoomStays ==
  ASSUME RoomKept,
         \A q \in Sessions : phase'[q] = "checked" => phase[q] = "checked",
         \A q \in Sessions : phase[q] = "absent" => phase'[q] = "absent"
  PROVE  RoomKept'
<1> DEFINE C == {s \in Sessions : phase[s] = "checked"}
           A == {s \in Sessions : phase[s] = "absent"}
           D == {s \in Sessions : phase'[s] = "checked"}
           B == {s \in Sessions : phase'[s] = "absent"}
<1>1. IsFiniteSet(C) /\ IsFiniteSet(B)
  BY SessionFacts, FS_Subset
<1>2. D \subseteq C /\ A \subseteq B
  OBVIOUS
<1>3. /\ IsFiniteSet(D) /\ IsFiniteSet(A)
      /\ Cardinality(D) <= Cardinality(C) /\ Cardinality(A) <= Cardinality(B)
  BY <1>1, <1>2, FS_Subset
<1>4. /\ Cardinality(A) \in Nat /\ Cardinality(B) \in Nat
      /\ Cardinality(C) \in Nat /\ Cardinality(D) \in Nat
  BY <1>1, <1>3, FS_CardinalityType
<1>5. Cardinality(C) <= Cardinality(A)
  BY DEF RoomKept
<1>6. Cardinality(D) <= Cardinality(B)
  BY <1>3, <1>4, <1>5
<1>7. QED
  BY <1>6 DEF RoomKept

(* A session that goes on with its own turn leaves the others where they   *)
(* are.                                                                    *)
LEMMA MoveKeeps ==
  ASSUME TypeOK, Present, RoomKept, Waits, NEW s \in Sessions,
         NEW X \in {"guard", "prompt", "tools"},
         phase[s] \notin {"absent", "ended", "waiting"},
         phase' = [phase EXCEPT ![s] = X], UNCHANGED <<given, parent>>,
         \A q \in Sessions \ {s} : active'[q] = active[q] /\ req'[q] = req[q]
  PROVE  Present' /\ RoomKept' /\ Waits'
<1>1. \A q \in Sessions : phase'[q] = IF q = s THEN X ELSE phase[q]
  BY DEF TypeOK
<1>2. RoomKept'
  BY <1>1, RoomStays
<1>3. Present'
  BY <1>1, SessionFacts DEF Present, ContextOf, Inherited
<1>4. \A p, c \in Sessions : Awaits(p, c)' <=> Awaits(p, c)
  BY <1>1 DEF Awaits
<1>5. \A c \in Sessions : Open(c)' <=> Open(c)
  BY <1>1 DEF Open
<1>6. \A p \in Sessions : phase'[p] = "waiting" <=> phase[p] = "waiting"
  BY <1>1
<1>7. \A c \in Sessions : parent[c] \in Sessions
  BY DEF TypeOK
<1>8. Waits'
  BY <1>4, <1>5, <1>6, <1>7 DEF Waits
<1>9. QED
  BY <1>2, <1>3, <1>8

(* The end of a session.                                                   *)
LEMMA EndKeeps ==
  ASSUME TypeOK, Present, RoomKept, Waits, NEW s \in Sessions, NEW inv,
         phase[s] \notin {"absent", "ended"}, End(s, inv),
         UNCHANGED <<given, parent, req>>
  PROVE  Present' /\ RoomKept' /\ Waits'
<1> DEFINE gone == Dropped(s) \cup {s}
<1>1. \A q \in Sessions :
        /\ q = s => phase'[q] \in {"idle", "ended"} /\ (q = 0 <=> phase'[q] = "idle")
        /\ q \in Dropped(s) => phase'[q] = "ended"
        /\ q \notin gone /\ Open(s) /\ q = parent[s] => phase'[q] = "tools"
        /\ q \notin gone /\ ~(Open(s) /\ q = parent[s]) => phase'[q] = phase[q]
        /\ q \notin gone => active'[q] = active[q]
  BY EndEffect
<1>2. \A q \in Dropped(s) : q \in Sessions /\ Open(q) /\ parent[q] \in gone
  BY DroppedOpen
<1>3. Open(s) => phase[parent[s]] = "waiting"
  BY DEF Waits
<1>4. \A q \in Sessions : parent[q] \in Sessions
  BY DEF TypeOK
<1>5. \A q \in Sessions : phase'[q] = "checked" => q \notin gone /\ phase[q] = "checked"
  BY <1>1
<1>6. \A q \in Sessions : phase'[q] = "absent" <=> phase[q] = "absent"
  BY <1>1, <1>2, <1>3, SessionFacts DEF Open, Present
<1>7. RoomKept'
  BY <1>5, <1>6, RoomStays
<1>8. Present'
  BY <1>1, <1>5, <1>6, SessionFacts DEF Present, ContextOf, Inherited
<1>9. \A c \in Sessions : Open(c)' <=> Open(c) /\ c \notin gone
  BY <1>1, <1>3 DEF Open
<1>10. \A p, c \in Sessions : Awaits(p, c) <=>
         phase[p] = "waiting" /\ parent[c] = p /\ Open(c)
  BY DEF Awaits, Open
<1>11. \A p, c \in Sessions : Awaits(p, c)' <=>
         phase'[p] = "waiting" /\ parent[c] = p /\ Open(c)'
  BY DEF Awaits, Open
<1>12. \A p \in Sessions : phase'[p] = "waiting" <=>
          phase[p] = "waiting" /\ p \notin gone /\ ~(Open(s) /\ p = parent[s])
  BY <1>1
<1>13. \A c \in Sessions : Open(c)' => phase'[parent[c]] = "waiting"
  <2> SUFFICES ASSUME NEW c \in Sessions, Open(c)' PROVE phase'[parent[c]] = "waiting"
    OBVIOUS
  <2>1. Open(c) /\ c \notin gone /\ phase[parent[c]] = "waiting"
    BY <1>9 DEF Waits
  <2>2. parent[c] \notin gone
    BY <2>1, <1>4, <1>10, DroppedClosed
  <2>3. ~(Open(s) /\ parent[c] = parent[s])
    BY <2>1, <1>3, <1>4, <1>10 DEF Waits
  <2>4. QED
    BY <2>1, <2>2, <2>3, <1>4, <1>12
<1>14. ASSUME NEW p \in Sessions, phase'[p] = "waiting"
       PROVE  /\ \E c \in Sessions : Awaits(p, c)'
              /\ \A c, d \in Sessions : Awaits(p, c)' /\ Awaits(p, d)' => c = d
  <2>1. phase[p] = "waiting" /\ p \notin gone /\ ~(Open(s) /\ p = parent[s])
    BY <1>12, <1>14
  <2>2. PICK c \in Sessions : Awaits(p, c)
    BY <2>1 DEF Waits
  <2>3. c \notin gone
    BY <2>1, <2>2, <1>2, <1>10
  <2>4. Awaits(p, c)'
    BY <2>2, <2>3, <1>9, <1>10, <1>11, <1>14
  <2>5. \A d, e \in Sessions : Awaits(p, d)' /\ Awaits(p, e)' => d = e
    BY <2>1, <1>9, <1>10, <1>11 DEF Waits
  <2>6. QED
    BY <2>4, <2>5
<1>15. Waits'
  BY <1>13, <1>14 DEF Waits
<1>16. QED
  BY <1>7, <1>8, <1>15

(* A call that was checked holds the context that its session has.         *)
LEMMA CheckKeeps ==
  ASSUME TypeOK, Present, RoomKept, Waits, NEW s \in Sessions, Check(s)
  PROVE  Present' /\ RoomKept' /\ Waits'
<1>1. /\ \A q \in Sessions : phase'[q] = IF q = s THEN "checked" ELSE phase[q]
      /\ UNCHANGED <<given, parent, active>> /\ phase[s] = "tools"
  BY DEF Check, TypeOK
<1>2. PICK r : /\ req' = [req EXCEPT ![s] = r] /\ r # Nil /\ r.chain = ContextOf(s)
  <2>1. PICK input \in Names, asked \in Requested, sync \in BOOLEAN :
          \/ req' = [req EXCEPT ![s] = RawRequest(s, input, asked, sync)]
          \/ req' = [req EXCEPT ![s] = SkillRequest(s, input, asked, sync)]
    BY DEF Check
  <2>2. /\ RawRequest(s, input, asked, sync) \in Request
        /\ SkillRequest(s, input, asked, sync) \in Request
    <3>1. ChildSteps(asked, energy[s]) \in Nat
      BY StepsType, DelegationAssumption DEF TypeOK
    <3>2. QED
      BY <3>1, ContextType DEF RawRequest, SkillRequest, Request
  <2>3. /\ RawRequest(s, input, asked, sync).chain = ContextOf(s)
        /\ SkillRequest(s, input, asked, sync).chain = ContextOf(s)
    BY DEF RawRequest, SkillRequest
  <2>4. PICK r \in {RawRequest(s, input, asked, sync),
                   SkillRequest(s, input, asked, sync)} :
          req' = [req EXCEPT ![s] = r]
    BY <2>1
  <2>5. r # Nil /\ r.chain = ContextOf(s)
    BY <2>2, <2>3, NilApart
  <2>6. QED
    BY <2>4, <2>5
<1>3. \A q \in Sessions : req'[q] = IF q = s THEN r ELSE req[q]
  BY <1>2 DEF TypeOK
<1>4. \A q \in Sessions : ContextOf(q)' = ContextOf(q)
  BY <1>1 DEF ContextOf, Inherited
<1>5. Present'
  BY <1>1, <1>2, <1>3, <1>4, SessionFacts DEF Present
<1>6. RoomKept'
  <2> DEFINE C == {q \in Sessions : phase[q] = "checked"}
             A == {q \in Sessions : phase[q] = "absent"}
  <2>1. IsFiniteSet(C) /\ s \notin C
    BY <1>1, SessionFacts, FS_Subset
  <2>2. {q \in Sessions : phase'[q] = "checked"} = C \cup {s}
    BY <1>1
  <2>3. {q \in Sessions : phase'[q] = "absent"} = A
    BY <1>1
  <2>4. Cardinality(C \cup {s}) = Cardinality(C) + 1
    BY <2>1, FS_AddElement
  <2>5. Cardinality(C) < Cardinality(A)
    BY DEF Check, RoomForOne, In
  <2>6. Cardinality(C) \in Nat /\ Cardinality(A) \in Nat
    BY SessionFacts, FS_Subset, FS_CardinalityType
  <2>7. Cardinality(C \cup {s}) <= Cardinality(A)
    BY <2>4, <2>5, <2>6
  <2>8. QED
    BY <2>2, <2>3, <2>7 DEF RoomKept
<1>7. Waits'
  <2>1. \A p, c \in Sessions : Awaits(p, c)' <=> Awaits(p, c)
    BY <1>1 DEF Awaits
  <2>2. \A c \in Sessions : Open(c)' <=> Open(c)
    BY <1>1 DEF Open
  <2>3. \A p \in Sessions : phase'[p] = "waiting" <=> phase[p] = "waiting"
    BY <1>1
  <2>4. \A c \in Sessions : parent[c] \in Sessions
    BY DEF TypeOK
  <2>5. QED
    BY <1>1, <2>1, <2>2, <2>3, <2>4 DEF Waits
<1>8. QED
  BY <1>5, <1>6, <1>7

(* The two ends of Register: a job that finds no slot, and a session.      *)
Refuses(s) ==
  /\ phase' = [phase EXCEPT ![s] = "tools"]
  /\ UNCHANGED <<parent, given>>

Becomes(s, c, chain) ==
  /\ given' = [given EXCEPT ![c] = [req[s] EXCEPT !.chain = chain]]
  /\ parent' = [parent EXCEPT ![c] = s]
  /\ phase' = [phase EXCEPT ![c] = "built",
                            ![s] = IF req[s].sync THEN "waiting" ELSE "tools"]

(* The chain that the new session c inherits from its caller s.            *)
HandedDown(s, c) ==
  IF req[s].skill /\ req[s].chain = Nil THEN NewRoot(c) ELSE req[s].chain

(* Register, taken apart.                                                  *)
LEMMA RegisterParts ==
  ASSUME NEW s, Register(s)
  PROVE  /\ phase[s] = "checked" /\ totals' = Count(s)
         /\ req' = [req EXCEPT ![s] = Nil]
         /\ UNCHANGED <<energy, active, turn, queue, notice, told>>
         /\ \/ Refuses(s)
            \/ Becomes(s, NextSession, HandedDown(s, NextSession))
BY DEF Register, Refuses, Becomes, HandedDown

(* The new session and the request it was built from.                      *)
LEMMA BecomesEffect ==
  ASSUME TypeOK, Present, RoomKept, NEW s \in Sessions, phase[s] = "checked",
         NEW c, c = NextSession, Becomes(s, c, HandedDown(s, c))
  PROVE  /\ c \in Sessions /\ c # 0 /\ c # s /\ phase[c] = "absent" /\ given[c] = Nil
         /\ \A q \in Sessions :
              /\ phase'[q] = IF q = c THEN "built"
                             ELSE IF q = s THEN (IF req[s].sync THEN "waiting" ELSE "tools")
                             ELSE phase[q]
              /\ parent'[q] = IF q = c THEN s ELSE parent[q]
              /\ q # c => given'[q] = given[q]
         /\ given'[c] \in Request /\ given'[c] # Nil
         /\ given'[c].chain = HandedDown(s, c) /\ given'[c].sync = req[s].sync
         /\ HandedDown(s, c) \in {NewRoot(c), ContextOf(s)}
         /\ parent' \in [Sessions -> Sessions]
         /\ given' \in [Sessions -> Request \cup {Nil}]
<1>1. c \in Sessions /\ c # 0 /\ c # s /\ phase[c] = "absent" /\ given[c] = Nil
  BY NextSessionAbsent
<1>2. /\ req[s] \in Request /\ req[s].chain = ContextOf(s)
  BY DEF TypeOK, Present
<1>3. HandedDown(s, c) \in {NewRoot(c), ContextOf(s)}
  BY <1>2 DEF HandedDown
<1>4. NewRoot(c) \in Chain
  BY <1>1, SessionFacts DEF NewRoot, Chain
<1>5. HandedDown(s, c) \in Chain \cup {Nil}
  BY <1>3, <1>4, ContextType
<1>6. /\ [req[s] EXCEPT !.chain = HandedDown(s, c)] \in Request
      /\ [req[s] EXCEPT !.chain = HandedDown(s, c)].chain = HandedDown(s, c)
      /\ [req[s] EXCEPT !.chain = HandedDown(s, c)].sync = req[s].sync
  BY <1>2, <1>5 DEF Request
<1>7. given'[c] = [req[s] EXCEPT !.chain = HandedDown(s, c)]
  BY <1>1 DEF Becomes, TypeOK
<1>8. /\ parent' \in [Sessions -> Sessions]
      /\ given' \in [Sessions -> Request \cup {Nil}]
  BY <1>1, <1>6 DEF Becomes, TypeOK
<1>9. \A q \in Sessions :
        /\ phase'[q] = IF q = c THEN "built"
                       ELSE IF q = s THEN (IF req[s].sync THEN "waiting" ELSE "tools")
                       ELSE phase[q]
        /\ parent'[q] = IF q = c THEN s ELSE parent[q]
        /\ q # c => given'[q] = given[q]
  BY <1>1 DEF Becomes, TypeOK
<1>10. QED
  BY <1>1, <1>3, <1>6, <1>7, <1>8, <1>9, NilApart

(* The session that is made takes the place of one that was not there, as  *)
(* its caller leaves the check.                                            *)
LEMMA BecomesRoom ==
  ASSUME TypeOK, Present, RoomKept, NEW s \in Sessions, phase[s] = "checked",
         NEW c, c = NextSession, Becomes(s, c, HandedDown(s, c))
  PROVE  RoomKept'
<1> DEFINE C == {q \in Sessions : phase[q] = "checked"}
           A == {q \in Sessions : phase[q] = "absent"}
<1>1. /\ c \in Sessions /\ c # s /\ phase[c] = "absent"
      /\ \A q \in Sessions :
           phase'[q] = IF q = c THEN "built"
                       ELSE IF q = s THEN (IF req[s].sync THEN "waiting" ELSE "tools")
                       ELSE phase[q]
  BY BecomesEffect
<1>2. {q \in Sessions : phase'[q] = "checked"} = C \ {s}
  BY <1>1
<1>3. {q \in Sessions : phase'[q] = "absent"} = A \ {c}
  BY <1>1
<1>4. IsFiniteSet(C) /\ IsFiniteSet(A) /\ s \in C /\ c \in A
  BY <1>1, SessionFacts, FS_Subset
<1>5. /\ Cardinality(C \ {s}) = Cardinality(C) - 1
      /\ Cardinality(A \ {c}) = Cardinality(A) - 1
  BY <1>4, FS_RemoveElement
<1>6. Cardinality(C) \in Nat /\ Cardinality(A) \in Nat /\ Cardinality(C) <= Cardinality(A)
  BY <1>4, FS_CardinalityType DEF RoomKept
<1>7. Cardinality(C \ {s}) <= Cardinality(A \ {c})
  BY <1>5, <1>6
<1>8. QED
  BY <1>2, <1>3, <1>7 DEF RoomKept

(* A call in the foreground is waited for from the moment it is there.     *)
LEMMA RegisterKeeps ==
  ASSUME TypeOK, Present, RoomKept, Waits, NEW s \in Sessions, Register(s)
  PROVE  Present' /\ RoomKept' /\ Waits'
<1> USE RegisterParts
<1>1. \A q \in Sessions \ {s} : req'[q] = req[q]
  BY DEF TypeOK
<1>2. active' = active /\ phase[s] = "checked"
  OBVIOUS
<1>3. CASE Refuses(s)
  BY <1>1, <1>2, <1>3, MoveKeeps DEF Refuses
<1>4. CASE Becomes(s, NextSession, HandedDown(s, NextSession))
  <2>0. PICK c \in Sessions : c = NextSession
    BY <1>2, NextSessionAbsent
  <2>1. /\ c \in Sessions /\ c # 0 /\ c # s /\ phase[c] = "absent" /\ given[c] = Nil
        /\ \A q \in Sessions :
             /\ phase'[q] = IF q = c THEN "built"
                            ELSE IF q = s THEN (IF req[s].sync THEN "waiting" ELSE "tools")
                            ELSE phase[q]
             /\ parent'[q] = IF q = c THEN s ELSE parent[q]
             /\ q # c => given'[q] = given[q]
        /\ given'[c] # Nil /\ given'[c].sync = req[s].sync
    BY <1>2, <1>4, <2>0, BecomesEffect
  <2>2. RoomKept'
    BY <1>2, <1>4, <2>0, BecomesRoom
  <2>3. Present'
    <3>1. \A q \in Sessions \ {c} : ContextOf(q)' = ContextOf(q)
      BY <1>2, <2>1 DEF ContextOf, Inherited
    <3>2. QED
      BY <1>1, <2>1, <3>1, SessionFacts DEF Present
  <2>4. \A p \in Sessions : parent[p] \in Sessions
    BY DEF TypeOK
  <2>5. \A d \in Sessions \ {c} : Open(d)' <=> Open(d)
    BY <1>2, <2>1 DEF Open
  <2>6. ~Open(c) /\ (Open(c)' <=> req[s].sync)
    BY <2>1 DEF Open
  <2>7. \A p \in Sessions : phase'[p] = "waiting" <=>
          phase[p] = "waiting" \/ (p = s /\ req[s].sync)
    BY <1>2, <2>1
  <2>8. \A p, d \in Sessions : Awaits(p, d) <=>
          phase[p] = "waiting" /\ parent[d] = p /\ Open(d)
    BY DEF Awaits, Open
  <2>9. \A p, d \in Sessions : Awaits(p, d)' <=>
          phase'[p] = "waiting" /\ parent'[d] = p /\ Open(d)'
    BY DEF Awaits, Open
  <2>10. \A d \in Sessions : Open(d) => parent[d] # s
    BY <1>2 DEF Waits
  <2>11. \A d \in Sessions : Open(d)' => phase'[parent'[d]] = "waiting"
    BY <2>1, <2>4, <2>5, <2>6, <2>7 DEF Waits
  <2>12. ASSUME NEW p \in Sessions, phase'[p] = "waiting"
         PROVE  /\ \E d \in Sessions : Awaits(p, d)'
                /\ \A d, e \in Sessions : Awaits(p, d)' /\ Awaits(p, e)' => d = e
    <3>1. CASE p = s
      <4>1. req[s].sync
        BY <1>2, <2>7, <2>12, <3>1
      <4>2. Awaits(p, c)'
        BY <2>1, <2>6, <2>9, <2>12, <3>1, <4>1
      <4>3. \A d \in Sessions : Awaits(p, d)' => d = c
        BY <2>1, <2>5, <2>9, <2>10, <3>1
      <4>4. QED
        BY <2>1, <4>2, <4>3
    <3>2. CASE p # s
      <4>1. phase[p] = "waiting"
        BY <2>7, <2>12, <3>2
      <4>2. \A d \in Sessions : Awaits(p, d)' <=> Awaits(p, d)
        BY <2>1, <2>5, <2>6, <2>8, <2>9, <2>12, <3>2, <4>1
      <4>3. QED
        BY <4>1, <4>2 DEF Waits
    <3>3. QED
      BY <3>1, <3>2
  <2>13. Waits'
    BY <2>11, <2>12 DEF Waits
  <2>14. QED
    BY <2>2, <2>3, <2>13
<1>5. QED
  BY <1>3, <1>4

-----------------------------------------------------------------------------
(* The skills.                                                             *)

(* The chain that an activation extends.                                   *)
LEMMA ParentChainSound ==
  ASSUME TypeOK, Lineages, NEW s \in Sessions, NEW t, s = 0 => t \in 1..Turns
  PROVE  ParentChain(s, t) \in Chain /\ Sound(ParentChain(s, t).lineage)
<1>1. CASE Inherited(s) # Nil
  BY <1>1, ContextType DEF ParentChain, Lineages
<1>2. CASE Inherited(s) = Nil
  <2>1. OwnRoot(s, t) \in Roots
    BY SessionFacts, DelegationAssumption DEF OwnRoot, Roots
  <2>2. NewRoot(OwnRoot(s, t)) \in Chain
    BY <2>1 DEF NewRoot, Chain
  <2>3. NewRoot(OwnRoot(s, t)).lineage = << >>
    BY DEF NewRoot
  <2>4. Sound(<< >>)
    BY DelegationAssumption DEF Sound
  <2>5. QED
    BY <1>2, <2>2, <2>3, <2>4 DEF ParentChain
<1>3. QED
  BY <1>1, <1>2

(* A skill that is not refused extends its chain by a name of its own.     *)
LEMMA ActivationSound ==
  ASSUME TypeOK, Lineages, NEW s \in Sessions, NEW t, s = 0 => t \in 1..Turns,
         NEW name, name \in Skills => ~Refused(s, name, ParentChain(s, t))
  PROVE  /\ ActiveAfter(s, name, t) \in Invocation \cup {Nil}
         /\ ActiveAfter(s, name, t) # Nil => SoundInvocation(ActiveAfter(s, name, t))
<1>1. CASE name \notin Skills
  BY <1>1 DEF ActiveAfter, TypeOK, Lineages
<1>2. CASE name \in Skills
  <2> DEFINE p == ParentChain(s, t)
             l == Append(p.lineage, name)
             v == [name |-> name, chain |-> AppendFrame(p, name), pending |-> FALSE]
  <2>1. p \in Chain /\ Sound(p.lineage) /\ p.lineage \in Seq(Skills)
    BY ParentChainSound, FieldTypes
  <2>2. AppendFrame(p, name) \in Chain /\ AppendFrame(p, name).lineage = l
    BY <1>2, <2>1 DEF AppendFrame, Chain
  <2>3. ~Contains(p, name) /\ ~(Len(p.lineage) + 1 > MaxDepth)
    BY <1>2 DEF Refused
  <2>4. Sound(l) /\ l[Len(l)] = name
    <3> HIDE DEF p
    <3>1. /\ Len(l) = Len(p.lineage) + 1 /\ Len(p.lineage) \in Nat
          /\ \A i \in DOMAIN p.lineage : l[i] = p.lineage[i] /\ l[i] # name
          /\ l[Len(l)] = name
          /\ \A i \in DOMAIN l : i \in DOMAIN p.lineage \/ i = Len(l)
      BY <1>2, <2>1, <2>3 DEF Contains
    <3>2. \A i, j \in DOMAIN l : i # j => l[i] # l[j]
      BY <2>1, <3>1 DEF Sound
    <3>3. Len(l) <= MaxDepth
      BY <2>3, <3>1, DelegationAssumption
    <3>4. QED
      BY <3>1, <3>2, <3>3 DEF Sound
  <2>5. v \in Invocation /\ v.chain.lineage = l /\ v.name = name
    BY <1>2, <2>2 DEF Invocation
  <2>6. ActiveAfter(s, name, t) = v
    BY <1>2 DEF ActiveAfter
  <2> HIDE DEF v, l, p
  <2>7. SoundInvocation(v)
    BY <2>4, <2>5 DEF SoundInvocation
  <2>8. QED
    BY <2>5, <2>6, <2>7
<1>3. QED
  BY <1>1, <1>2

(* Asking and answering change nothing else of an invocation.              *)
LEMMA PendingSound ==
  ASSUME NEW v \in Invocation, NEW b \in BOOLEAN
  PROVE  /\ [v EXCEPT !.pending = b] \in Invocation
         /\ SoundInvocation(v) => SoundInvocation([v EXCEPT !.pending = b])
BY DEF Invocation, SoundInvocation

(* The start of a turn.                                                    *)
LEMMA StartSound ==
  ASSUME TypeOK, Lineages, NEW s \in Sessions, NEW t, s = 0 => t \in 1..Turns,
         NEW input, NEW args, ~Halts(s, input, args, t) \/ Asked(s),
         SkillAtStart(s, input, t)
  PROVE  /\ active' \in [Sessions -> Invocation \cup {Nil}]
         /\ \A q \in Sessions : active'[q] # Nil => SoundInvocation(active'[q])
         /\ \A q \in Sessions \ {s} : active'[q] = active[q]
<1>1. PICK v : /\ active' = [active EXCEPT ![s] = v]
               /\ v \in Invocation \cup {Nil} /\ (v # Nil => SoundInvocation(v))
  <2>1. CASE Asked(s)
    <3>1. active[s] \in Invocation /\ SoundInvocation(active[s])
      BY <2>1 DEF Asked, TypeOK, Lineages
    <3>2. /\ Resumed(active[s]) \in Invocation
          /\ SoundInvocation(Resumed(active[s]))
      BY <3>1, PendingSound DEF Resumed
    <3>3. active' = [active EXCEPT ![s] = Resumed(active[s])]
      BY <2>1 DEF SkillAtStart
    <3>4. QED
      BY <3>2, <3>3
  <2>2. CASE ~Asked(s)
    <3>1. input \in Skills => ~Refused(s, input, ParentChain(s, t))
      BY <2>2 DEF Halts
    <3>2. /\ ActiveAfter(s, input, t) \in Invocation \cup {Nil}
          /\ ActiveAfter(s, input, t) # Nil => SoundInvocation(ActiveAfter(s, input, t))
      BY <3>1, ActivationSound
    <3>3. active' = [active EXCEPT ![s] = ActiveAfter(s, input, t)]
      BY <2>2 DEF SkillAtStart
    <3>4. QED
      BY <3>2, <3>3
  <2>3. QED
    BY <2>1, <2>2
<1>2. QED
  BY <1>1 DEF TypeOK, Lineages

(* The end of a turn.                                                      *)
LEMMA EndSound ==
  ASSUME TypeOK, Lineages, NEW s \in Sessions, NEW inv, End(s, inv),
         inv \in Invocation \cup {Nil}, inv # Nil => SoundInvocation(inv)
  PROVE  /\ phase' \in [Sessions -> Phases] /\ energy' \in [Sessions -> Nat]
         /\ active' \in [Sessions -> Invocation \cup {Nil}]
         /\ queue' \subseteq Sessions
         /\ \A q \in Sessions : active'[q] # Nil => SoundInvocation(active'[q])
<1>1. \A q \in Sessions : active'[q] \in {active[q], inv, Nil}
  BY DEF End
<1>2. active' \in [Sessions -> Invocation \cup {Nil}]
  <2>1. active' = [q \in Sessions |-> active'[q]]
    BY DEF End
  <2>2. \A q \in Sessions : active'[q] \in Invocation \cup {Nil}
    BY <1>1 DEF TypeOK
  <2>3. QED
    BY <2>1, <2>2
<1>3. phase' \in [Sessions -> Phases]
  BY DEF End, PhasesAfter, TypeOK, Phases
<1>4. energy' \in [Sessions -> Nat] /\ queue' \subseteq Sessions
  BY DEF End, TypeOK
<1>5. QED
  BY <1>1, <1>2, <1>3, <1>4 DEF Lineages

-----------------------------------------------------------------------------
(* The inductive invariant, step by step.                                  *)

(* What a step that makes no session and counts no call leaves alone.      *)
LEMMA UncountedKeeps ==
  ASSUME Lineages, EveryCallCounted, UNCHANGED <<given, totals>>,
         \A q \in Sessions : active'[q] # Nil => SoundInvocation(active'[q])
  PROVE  Lineages' /\ EveryCallCounted'
<1>1. \A q \in Sessions : Inherited(q)' = Inherited(q)
  BY DEF Inherited
<1>2. Lineages'
  BY <1>1 DEF Lineages, SoundInvocation
<1>3. EveryCallCounted'
  BY DEF EveryCallCounted, Inherited
<1>4. QED
  BY <1>2, <1>3

(* The end of a session leaves it valid.                                   *)
LEMMA EndInvariant ==
  ASSUME IInv, NEW s \in Sessions, NEW inv, End(s, inv),
         inv \in Invocation \cup {Nil}, inv # Nil => SoundInvocation(inv),
         phase[s] \notin {"absent", "ended"},
         UNCHANGED <<parent, given, req, totals, turn, notice, told>>
  PROVE  IInv'
<1> USE DEF IInv
<1>1. /\ phase' \in [Sessions -> Phases] /\ energy' \in [Sessions -> Nat]
      /\ active' \in [Sessions -> Invocation \cup {Nil}]
      /\ queue' \subseteq Sessions
      /\ \A q \in Sessions : active'[q] # Nil => SoundInvocation(active'[q])
  BY EndSound
<1>2. TypeOK'
  BY <1>1 DEF TypeOK
<1>3. Present' /\ RoomKept' /\ Waits'
  BY EndKeeps
<1>4. Lineages' /\ EveryCallCounted'
  BY <1>1, UncountedKeeps
<1>5. Powered'
  <2> SUFFICES ASSUME NEW q \in Sessions, Running(q)' PROVE energy'[q] # 0
    BY DEF Powered
  <2>1. q \notin Dropped(s) \cup {s}
    BY EndEffect DEF Running
  <2>2. Running(q)
    <3>1. Open(s) /\ q = parent[s] => phase[q] = "waiting"
      BY DEF Waits
    <3>2. QED
      BY <2>1, <3>1, EndEffect DEF Running
  <2>3. energy'[q] = energy[q]
    BY <2>1 DEF End
  <2>4. QED
    BY <2>2, <2>3 DEF Powered
<1>6. QED
  BY <1>2, <1>3, <1>4, <1>5

(* So does a session that goes on with its own turn.                       *)
LEMMA MoveInvariant ==
  ASSUME IInv, NEW s \in Sessions, NEW X \in {"guard", "prompt", "tools"},
         phase[s] \notin {"absent", "ended", "waiting"},
         phase' = [phase EXCEPT ![s] = X],
         UNCHANGED <<parent, given, req, totals>>,
         active' \in [Sessions -> Invocation \cup {Nil}],
         \A q \in Sessions : active'[q] # Nil => SoundInvocation(active'[q]),
         \A q \in Sessions \ {s} : active'[q] = active[q],
         energy' \in [Sessions -> Nat], energy'[s] # 0,
         \A q \in Sessions \ {s} : energy'[q] = energy[q], turn' \in 0..Turns,
         queue' \subseteq Sessions, notice' \subseteq Sessions, told' \subseteq Sessions
  PROVE  IInv'
<1> USE DEF IInv
<1>1. TypeOK'
  BY DEF TypeOK, Phases
<1>2. Present' /\ RoomKept' /\ Waits'
  BY MoveKeeps
<1>3. Lineages' /\ EveryCallCounted'
  BY UncountedKeeps
<1>4. Powered'
  <2>1. \A q \in Sessions \ {s} : phase'[q] = phase[q]
    BY DEF TypeOK
  <2>2. QED
    BY <2>1 DEF Powered, Running
<1>5. QED
  BY <1>1, <1>2, <1>3, <1>4

(* A turn of the user's session.                                           *)
LEMMA UserTurnInvariant ==
  ASSUME IInv, NEW input \in Names, NEW args \in Arguments, UserTurn(input, args)
  PROVE  IInv'
<1> USE DEF IInv
<1>1. PICK t \in 1..Turns : t = turn'
  BY DelegationAssumption DEF UserTurn, TypeOK
<1>2. /\ phase[0] = "idle" /\ UNCHANGED <<parent, given, req, totals, told>>
      /\ 0 \in Sessions
  BY SessionFacts DEF UserTurn
<1>3. turn' \in 0..Turns
  BY <1>1, DelegationAssumption
<1>4. CASE ~Asked(0) /\ Halts(0, input, args, t)
  <2>1. UNCHANGED <<phase, energy, active, queue, notice>>
    BY <1>1, <1>4 DEF UserTurn
  <2>2. TypeOK'
    BY <1>2, <1>3, <2>1 DEF TypeOK
  <2>3. Present' /\ RoomKept' /\ Waits'
    <3>1. \A q \in Sessions : Open(q)' = Open(q) /\ ContextOf(q)' = ContextOf(q)
      BY <1>2, <2>1 DEF Open, ContextOf, Inherited
    <3>2. \A p, q \in Sessions : Awaits(p, q)' = Awaits(p, q)
      BY <1>2, <2>1 DEF Awaits
    <3>3. QED
      BY <1>2, <2>1, <3>1, <3>2 DEF Present, RoomKept, Waits
  <2>4. Lineages' /\ EveryCallCounted'
    BY <1>2, <2>1, UncountedKeeps DEF Lineages
  <2>5. Powered'
    BY <2>1 DEF Powered, Running
  <2>6. QED
    BY <2>2, <2>3, <2>4, <2>5
<1>5. CASE ~(~Asked(0) /\ Halts(0, input, args, t))
  <2>1. /\ SkillAtStart(0, input, t)
        /\ energy' = [energy EXCEPT ![0] = Energy]
        /\ phase' = [phase EXCEPT ![0] = "guard"]
        /\ notice' = IF queue = {} THEN notice ELSE queue
        /\ queue' = {}
    BY <1>1, <1>5 DEF UserTurn
  <2>2. /\ active' \in [Sessions -> Invocation \cup {Nil}]
        /\ \A q \in Sessions : active'[q] # Nil => SoundInvocation(active'[q])
        /\ \A q \in Sessions \ {0} : active'[q] = active[q]
    BY <1>2, <1>5, <2>1, StartSound
  <2>3. /\ energy' \in [Sessions -> Nat] /\ energy'[0] # 0
        /\ \A q \in Sessions \ {0} : energy'[q] = energy[q]
        /\ queue' \subseteq Sessions /\ notice' \subseteq Sessions
        /\ told' \subseteq Sessions
    BY <1>2, <2>1, DelegationAssumption DEF TypeOK
  <2>4. QED
    BY <1>2, <1>3, <2>1, <2>2, <2>3, MoveInvariant
<1>6. QED
  BY <1>4, <1>5

(* The turn of a delegated session.                                        *)
LEMMA DelegatedTurnInvariant ==
  ASSUME IInv, NEW s \in Sessions, NEW args \in Arguments, DelegatedTurn(s, args)
  PROVE  IInv'
<1> USE DEF IInv
<1>1. PICK t : t = turn
  OBVIOUS
<1>2. PICK input : input = given[s].input
  OBVIOUS
<1>3. /\ s # 0 /\ phase[s] = "built"
      /\ UNCHANGED <<parent, given, req, totals, turn, notice, told>>
  BY DEF DelegatedTurn
<1>4. CASE Halts(s, input, args, t)
  <2>1. End(s, Nil)
    BY <1>1, <1>2, <1>4 DEF DelegatedTurn
  <2>2. QED
    BY <1>3, <2>1, EndInvariant
<1>5. CASE ~Halts(s, input, args, t)
  <2>1. /\ SkillAtStart(s, input, t)
        /\ energy' = [energy EXCEPT ![s] = AtLeastOne(given[s].steps)]
        /\ phase' = [phase EXCEPT ![s] = "guard"]
        /\ UNCHANGED queue
    BY <1>1, <1>2, <1>5 DEF DelegatedTurn
  <2>2. /\ active' \in [Sessions -> Invocation \cup {Nil}]
        /\ \A q \in Sessions : active'[q] # Nil => SoundInvocation(active'[q])
        /\ \A q \in Sessions \ {s} : active'[q] = active[q]
    BY <1>3, <1>5, <2>1, StartSound
  <2>3. AtLeastOne(given[s].steps) \in Nat \ {0}
    <3>1. given[s] \in Request
      BY <1>3 DEF Present, TypeOK
    <3>2. QED
      BY <3>1, FieldTypes DEF AtLeastOne
  <2>4. /\ energy' \in [Sessions -> Nat] /\ energy'[s] # 0
        /\ \A q \in Sessions \ {s} : energy'[q] = energy[q]
    BY <2>1, <2>3 DEF TypeOK
  <2>5. QED
    BY <1>3, <2>1, <2>2, <2>4, MoveInvariant DEF TypeOK
<1>6. QED
  BY <1>4, <1>5

(* The steps of a turn that stays in its session, and its ends.            *)
LEMMA OwnStepsInvariant ==
  ASSUME IInv, NEW s \in Sessions,
         Guard(s) \/ Prompt(s) \/ NextIteration(s) \/ Finish(s) \/ AskUser(s) \/ Stop(s)
  PROVE  IInv'
<1> USE DEF IInv
<1>1. active[s] \in Invocation \cup {Nil} /\ (active[s] # Nil => SoundInvocation(active[s]))
  BY DEF TypeOK, Lineages
<1>2. /\ active \in [Sessions -> Invocation \cup {Nil}]
      /\ \A q \in Sessions : active[q] # Nil => SoundInvocation(active[q])
  BY DEF TypeOK, Lineages
<1>3. CASE Guard(s)
  <2>1. CASE energy[s] = 1
    BY <1>1, <1>3, <2>1, EndInvariant DEF Guard
  <2>2. CASE energy[s] # 1
    <3>1. /\ energy' = [energy EXCEPT ![s] = @ - 1]
          /\ phase' = [phase EXCEPT ![s] = "prompt"] /\ phase[s] = "guard"
          /\ UNCHANGED <<active, queue, parent, given, req, totals, turn, notice, told>>
      BY <1>3, <2>2 DEF Guard
    <3>2. /\ energy' \in [Sessions -> Nat] /\ energy'[s] # 0
          /\ \A q \in Sessions \ {s} : energy'[q] = energy[q]
      <4>1. energy[s] \in Nat /\ energy[s] # 0 /\ energy[s] # 1
        BY <2>2, <3>1 DEF TypeOK, Powered, Running
      <4>2. energy[s] - 1 \in Nat /\ energy[s] - 1 # 0
        BY <4>1
      <4>3. QED
        BY <3>1, <4>2 DEF TypeOK
    <3>3. QED
      BY <1>2, <3>1, <3>2, MoveInvariant DEF TypeOK
  <2>3. QED
    BY <2>1, <2>2
<1>4. CASE Prompt(s)
  <2>1. /\ phase' = [phase EXCEPT ![s] = "tools"] /\ phase[s] = "prompt"
        /\ UNCHANGED <<parent, given, energy, active, req, totals, turn, queue>>
        /\ told' \subseteq Sessions /\ notice' \subseteq Sessions
        /\ energy[s] # 0
    BY <1>4 DEF Prompt, TypeOK, Powered, Running
  <2>2. QED
    BY <1>2, <2>1, MoveInvariant DEF TypeOK
<1>5. CASE NextIteration(s)
  <2>1. /\ phase' = [phase EXCEPT ![s] = "guard"] /\ phase[s] = "tools"
        /\ UNCHANGED <<parent, given, energy, active, req, totals, turn, queue,
                       notice, told>>
        /\ energy[s] # 0
    BY <1>5 DEF NextIteration, Powered, Running
  <2>2. QED
    BY <1>2, <2>1, MoveInvariant DEF TypeOK
<1>6. CASE Finish(s)
  BY <1>6, EndInvariant DEF Finish
<1>7. CASE Stop(s)
  BY <1>1, <1>7, EndInvariant DEF Stop, Running
<1>8. CASE AskUser(s)
  <2>1. PICK inv : inv = IF active[s] = Nil THEN Nil
                         ELSE [active[s] EXCEPT !.pending = TRUE]
    OBVIOUS
  <2>2. inv \in Invocation \cup {Nil} /\ (inv # Nil => SoundInvocation(inv))
    BY <1>1, <2>1, PendingSound
  <2>3. /\ End(s, inv) /\ phase[s] = "tools"
        /\ UNCHANGED <<parent, given, req, totals, turn, notice, told>>
    BY <1>8, <2>1 DEF AskUser
  <2>4. QED
    BY <2>2, <2>3, EndInvariant
<1>9. QED
  BY <1>3, <1>4, <1>5, <1>6, <1>7, <1>8

(* A checked call waits for its registration.                              *)
LEMMA CheckInvariant ==
  ASSUME IInv, NEW s \in Sessions, Check(s)
  PROVE  IInv'
<1> USE DEF IInv
<1>1. /\ phase[s] = "tools" /\ phase' = [phase EXCEPT ![s] = "checked"]
      /\ UNCHANGED <<parent, given, energy, active, totals, turn, queue, notice, told>>
  BY DEF Check
<1>2. req' \in [Sessions -> Request \cup {Nil}]
  <2>1. PICK input \in Names, asked \in Requested, sync \in BOOLEAN :
          \/ req' = [req EXCEPT ![s] = RawRequest(s, input, asked, sync)]
          \/ req' = [req EXCEPT ![s] = SkillRequest(s, input, asked, sync)]
    BY DEF Check
  <2>2. ChildSteps(asked, energy[s]) \in Nat
    BY StepsType, DelegationAssumption DEF TypeOK
  <2>3. /\ RawRequest(s, input, asked, sync) \in Request
        /\ SkillRequest(s, input, asked, sync) \in Request
    BY <2>2, ContextType DEF RawRequest, SkillRequest, Request
  <2>4. QED
    BY <2>1, <2>3 DEF TypeOK
<1>3. TypeOK'
  BY <1>1, <1>2 DEF TypeOK, Phases
<1>4. Present' /\ RoomKept' /\ Waits'
  BY CheckKeeps
<1>5. Lineages' /\ EveryCallCounted'
  BY <1>1, UncountedKeeps DEF Lineages
<1>6. Powered'
  <2>1. \A q \in Sessions : Running(q)' => Running(q)
    BY <1>1 DEF Running, TypeOK
  <2>2. QED
    BY <1>1, <2>1 DEF Powered
<1>7. QED
  BY <1>3, <1>4, <1>5, <1>6

(* Counting a call raises one counter by one, if any.                      *)
LEMMA CountEffect ==
  ASSUME TypeOK, NEW s \in Sessions, NEW r \in Roots
  PROVE  /\ Count(s) \in [Roots -> Nat] /\ Count(s)[r] >= totals[r]
         /\ ContextOf(s) # Nil /\ ContextOf(s).root = r =>
              Count(s)[r] = totals[r] + 1
<1>1. CASE ContextOf(s) = Nil
  BY <1>1 DEF Count, TypeOK
<1>2. CASE ContextOf(s) # Nil
  <2>1. ContextOf(s).root \in Roots
    BY <1>2, ContextType, FieldTypes
  <2>2. Count(s) = [totals EXCEPT ![ContextOf(s).root] = @ + 1]
    BY <1>2 DEF Count
  <2>3. totals \in [Roots -> Nat]
    BY DEF TypeOK
  <2>4. QED
    BY <2>1, <2>2, <2>3
<1>3. QED
  BY <1>1, <1>2

(* The session that a call becomes was counted, if it is in a chain.       *)
LEMMA BecomesCounted ==
  ASSUME TypeOK, Present, RoomKept, EveryCallCounted, NEW s \in Sessions,
         phase[s] = "checked", totals' = Count(s),
         NEW c, c = NextSession, Becomes(s, c, HandedDown(s, c))
  PROVE  EveryCallCounted'
<1> SUFFICES ASSUME NEW r \in Roots
             PROVE  Cardinality({q \in Sessions \ {r} :
                       Inherited(q)' # Nil /\ Inherited(q)'.root = r}) <= totals'[r]
  BY DEF EveryCallCounted
<1> DEFINE old == {q \in Sessions \ {r} : Inherited(q) # Nil /\ Inherited(q).root = r}
           new == {q \in Sessions \ {r} : Inherited(q)' # Nil /\ Inherited(q)'.root = r}
<1>1. /\ c \in Sessions /\ given[c] = Nil
      /\ \A q \in Sessions : q # c => given'[q] = given[q]
      /\ given'[c] # Nil /\ given'[c].chain = HandedDown(s, c)
      /\ HandedDown(s, c) \in {NewRoot(c), ContextOf(s)}
  BY BecomesEffect
<1>2. \A q \in Sessions \ {c} : Inherited(q)' = Inherited(q)
  BY <1>1 DEF Inherited
<1>3. Inherited(c)' = HandedDown(s, c)
  BY <1>1 DEF Inherited
<1>4. /\ IsFiniteSet(old) /\ Cardinality(old) \in Nat /\ Cardinality(old) <= totals[r]
      /\ IsFiniteSet(new)
  BY SessionFacts, FS_Subset, FS_CardinalityType DEF EveryCallCounted
<1>5. totals[r] \in Nat /\ totals'[r] \in Nat /\ totals'[r] >= totals[r]
  BY CountEffect DEF TypeOK
<1>6. CASE c \in new
  <2>1. HandedDown(s, c) # NewRoot(c)
    BY <1>3, <1>6 DEF NewRoot
  <2>2. ContextOf(s) # Nil /\ ContextOf(s).root = r
    BY <1>1, <1>3, <1>6, <2>1
  <2>3. totals'[r] = totals[r] + 1
    BY <2>2, CountEffect
  <2>4. new \subseteq old \cup {c}
    BY <1>2
  <2>5. c \notin old
    BY <1>1 DEF Inherited
  <2>6. /\ IsFiniteSet(old \cup {c})
        /\ Cardinality(old \cup {c}) = Cardinality(old) + 1
    BY <1>4, <2>5, FS_AddElement
  <2>7. Cardinality(new) <= Cardinality(old \cup {c}) /\ Cardinality(new) \in Nat
    BY <1>4, <2>4, <2>6, FS_Subset, FS_CardinalityType
  <2>8. QED
    BY <1>4, <1>5, <2>3, <2>6, <2>7
<1>7. CASE c \notin new
  <2>1. new \subseteq old
    BY <1>2, <1>7
  <2>2. Cardinality(new) <= Cardinality(old) /\ Cardinality(new) \in Nat
    BY <1>4, <2>1, FS_Subset, FS_CardinalityType
  <2>3. QED
    BY <1>4, <1>5, <2>2
<1>8. QED
  BY <1>6, <1>7

(* The registration of a call.                                             *)
LEMMA RegisterInvariant ==
  ASSUME IInv, NEW s \in Sessions, Register(s)
  PROVE  IInv'
<1> USE DEF IInv
<1>1. /\ phase[s] = "checked" /\ totals' = Count(s)
      /\ req' = [req EXCEPT ![s] = Nil]
      /\ UNCHANGED <<energy, active, turn, queue, notice, told>>
      /\ \/ Refuses(s)
         \/ Becomes(s, NextSession, HandedDown(s, NextSession))
  BY RegisterParts
<1>2. Present' /\ RoomKept' /\ Waits'
  BY RegisterKeeps
<1>3. totals' \in [Roots -> Nat]
  <2>1. 1 \in Roots
    BY DelegationAssumption DEF Roots
  <2>2. QED
    BY <1>1, <2>1, CountEffect
<1>4. req' \in [Sessions -> Request \cup {Nil}]
  BY <1>1 DEF TypeOK
<1>5. CASE Refuses(s)
  <2>1. phase' = [phase EXCEPT ![s] = "tools"] /\ UNCHANGED <<parent, given>>
    BY <1>5 DEF Refuses
  <2>2. TypeOK'
    BY <1>1, <1>3, <1>4, <2>1 DEF TypeOK, Phases
  <2>3. Lineages'
    <3>1. \A q \in Sessions : Inherited(q)' = Inherited(q)
      BY <2>1 DEF Inherited
    <3>2. QED
      BY <1>1, <3>1 DEF Lineages
  <2>4. EveryCallCounted'
    <3>1. \A r \in Roots : totals'[r] >= totals[r] /\ totals[r] \in Nat /\ totals'[r] \in Nat
      BY <1>1, <1>3, CountEffect DEF TypeOK
    <3> SUFFICES ASSUME NEW r \in Roots
                 PROVE  Cardinality({q \in Sessions \ {r} :
                           Inherited(q)' # Nil /\ Inherited(q)'.root = r}) <= totals'[r]
      BY DEF EveryCallCounted
    <3> DEFINE old == {q \in Sessions \ {r} : Inherited(q) # Nil /\ Inherited(q).root = r}
    <3>2. {q \in Sessions \ {r} : Inherited(q)' # Nil /\ Inherited(q)'.root = r} = old
      BY <2>1 DEF Inherited
    <3>3. Cardinality(old) <= totals[r] /\ Cardinality(old) \in Nat
      BY SessionFacts, FS_Subset, FS_CardinalityType DEF EveryCallCounted
    <3>4. QED
      BY <3>1, <3>2, <3>3
  <2>5. Powered'
    <3>1. \A q \in Sessions : Running(q)' => Running(q)
      BY <1>1, <2>1 DEF Running, TypeOK
    <3>2. QED
      BY <1>1, <3>1 DEF Powered
  <2>6. QED
    BY <1>2, <2>2, <2>3, <2>4, <2>5
<1>6. CASE Becomes(s, NextSession, HandedDown(s, NextSession))
  <2>1. PICK c \in Sessions : c = NextSession
    BY <1>1, NextSessionAbsent
  <2>2. /\ c # 0 /\ c # s
        /\ \A q \in Sessions :
             /\ phase'[q] = IF q = c THEN "built"
                            ELSE IF q = s THEN (IF req[s].sync THEN "waiting" ELSE "tools")
                            ELSE phase[q]
             /\ q # c => given'[q] = given[q]
        /\ given'[c] # Nil /\ given'[c].chain = HandedDown(s, c)
        /\ HandedDown(s, c) \in {NewRoot(c), ContextOf(s)}
        /\ parent' \in [Sessions -> Sessions]
        /\ given' \in [Sessions -> Request \cup {Nil}]
    BY <1>1, <1>6, <2>1, BecomesEffect
  <2>3. TypeOK'
    <3>1. phase' \in [Sessions -> Phases]
      BY <1>6 DEF Becomes, TypeOK, Phases
    <3>2. QED
      BY <1>1, <1>3, <1>4, <2>2, <3>1 DEF TypeOK
  <2>4. Lineages'
    <3>1. \A q \in Sessions \ {c} : Inherited(q)' = Inherited(q)
      BY <2>2 DEF Inherited
    <3>2. Inherited(c)' = HandedDown(s, c)
      BY <2>2 DEF Inherited
    <3>3. Sound(NewRoot(c).lineage)
      BY DelegationAssumption DEF Sound, NewRoot
    <3>4. ContextOf(s) # Nil => Sound(ContextOf(s).lineage)
      BY DEF ContextOf, Lineages, SoundInvocation
    <3>5. HandedDown(s, c) # Nil => Sound(HandedDown(s, c).lineage)
      BY <2>2, <3>3, <3>4
    <3>6. \A q \in Sessions : Inherited(q)' # Nil => Sound(Inherited(q)'.lineage)
      BY <3>1, <3>2, <3>5 DEF Lineages
    <3>7. QED
      BY <1>1, <3>6 DEF Lineages, Sound, SoundInvocation
  <2>5. EveryCallCounted'
    BY <1>1, <1>6, <2>1, BecomesCounted
  <2>6. Powered'
    <3>1. \A q \in Sessions : Running(q)' => Running(q)
      BY <1>1, <2>2 DEF Running
    <3>2. QED
      BY <1>1, <3>1 DEF Powered
  <2>7. QED
    BY <1>2, <2>3, <2>4, <2>5, <2>6
<1>7. QED
  BY <1>1, <1>5, <1>6

-----------------------------------------------------------------------------
(* The theorems.                                                           *)

(* At first only the user's session is there, and it is idle.              *)
LEMMA InitInvariant == Init => IInv
<1> SUFFICES ASSUME Init PROVE IInv
  OBVIOUS
<1>1. TypeOK
  BY SessionFacts, DelegationAssumption DEF Init, TypeOK, Phases
<1>2. \A s \in Sessions : /\ phase[s] = IF s = 0 THEN "idle" ELSE "absent"
                          /\ given[s] = Nil /\ active[s] = Nil
  BY DEF Init
<1>3. Present
  BY <1>2, SessionFacts DEF Present
<1>4. RoomKept
  <2>1. {s \in Sessions : phase[s] = "checked"} = {}
    BY <1>2
  <2>2. Cardinality({s \in Sessions : phase[s] = "absent"}) \in Nat
    BY SessionFacts, FS_Subset, FS_CardinalityType
  <2>3. QED
    BY <2>1, <2>2, FS_EmptySet DEF RoomKept
<1>5. Lineages
  BY <1>2 DEF Lineages, Inherited
<1>6. EveryCallCounted
  <2> SUFFICES ASSUME NEW r \in Roots
               PROVE  Cardinality({c \in Sessions \ {r} :
                         Inherited(c) # Nil /\ Inherited(c).root = r}) <= totals[r]
    BY DEF EveryCallCounted
  <2>1. {c \in Sessions \ {r} : Inherited(c) # Nil /\ Inherited(c).root = r} = {}
    BY <1>2 DEF Inherited
  <2>2. Cardinality({}) = 0 /\ totals[r] = 0
    BY FS_EmptySet DEF Init
  <2>3. Cardinality({c \in Sessions \ {r} :
           Inherited(c) # Nil /\ Inherited(c).root = r}) = 0
    BY <2>1, <2>2
  <2>4. QED
    BY <2>2, <2>3
<1>7. Waits /\ Powered
  BY <1>2 DEF Waits, Open, Powered, Running
<1>8. QED
  BY <1>1, <1>3, <1>4, <1>5, <1>6, <1>7 DEF IInv

(* What nothing touches stays as it is.                                    *)
LEMMA StutterInvariant == IInv /\ UNCHANGED vars => IInv'
<1> SUFFICES ASSUME IInv, UNCHANGED vars PROVE IInv'
  OBVIOUS
<1> USE DEF IInv, vars
<1>1. TypeOK' /\ RoomKept'
  BY DEF TypeOK, RoomKept
<1>2. \A q \in Sessions : Open(q)' = Open(q) /\ ContextOf(q)' = ContextOf(q)
  BY DEF Open, ContextOf, Inherited
<1>3. \A p, q \in Sessions : Awaits(p, q)' = Awaits(p, q)
  BY DEF Awaits
<1>4. Present' /\ Waits'
  BY <1>2, <1>3 DEF Present, Waits
<1>5. Lineages' /\ EveryCallCounted'
  BY UncountedKeeps DEF Lineages
<1>6. Powered'
  BY DEF Powered, Running
<1>7. QED
  BY <1>1, <1>4, <1>5, <1>6

(* Every step keeps the invariant.                                         *)
LEMMA NextInvariant == IInv /\ [Next]_vars => IInv'
<1> SUFFICES ASSUME IInv, [Next]_vars PROVE IInv'
  OBVIOUS
<1>1. CASE \E input \in Names, args \in Arguments : UserTurn(input, args)
  BY <1>1, UserTurnInvariant
<1>2. ASSUME NEW s \in Sessions, Iterate(s) \/ Stop(s) PROVE IInv'
  <2>1. CASE \E args \in Arguments : DelegatedTurn(s, args)
    BY <2>1, DelegatedTurnInvariant
  <2>2. CASE Check(s)
    BY <2>2, CheckInvariant
  <2>3. CASE Register(s)
    BY <2>3, RegisterInvariant
  <2>4. CASE Guard(s) \/ Prompt(s) \/ NextIteration(s) \/ Finish(s) \/ AskUser(s)
             \/ Stop(s)
    BY <2>4, OwnStepsInvariant
  <2>5. QED
    BY <1>2, <2>1, <2>2, <2>3, <2>4 DEF Iterate
<1>3. CASE UNCHANGED vars
  BY <1>3, StutterInvariant
<1>4. QED
  BY <1>1, <1>2, <1>3 DEF Next

(* The inductive invariant holds of every behaviour: with it the types of  *)
(* all variables, room for every checked call and a point for every turn   *)
(* that a guard will charge.                                               *)
THEOREM DelegationInvariant == Spec => []IInv
<1>1. QED
  BY InitInvariant, NextInvariant, PTL DEF Spec

(* The lineages of skills are free of repetition and no longer than the    *)
(* maximum, for any number of sessions and skills, any way they call each  *)
(* other (SkillRuntime::activate_skill).                                   *)
THEOREM ChainSoundCorrect == Spec => []ChainSound
<1>1. IInv => ChainSound
  BY DEF IInv, Lineages, ChainSound, SoundInvocation, Sound
<1>2. QED
  BY <1>1, DelegationInvariant, PTL

(* The counter of a root sees every call made inside its chain             *)
(* (register_call_chain_use).                                              *)
THEOREM EveryCallCountedCorrect == Spec => []EveryCallCounted
<1>1. IInv => EveryCallCounted
  BY DEF IInv
<1>2. QED
  BY <1>1, DelegationInvariant, PTL

(* Whoever waits for a call waits for one, which is still under way        *)
(* (SubagentRuntime::run_sync).                                            *)
THEOREM CalleeLivesCorrect == Spec => []CalleeLives
<1>1. ASSUME IInv PROVE CalleeLives
  <2> SUFFICES ASSUME NEW s \in Sessions, phase[s] = "waiting"
               PROVE  Cardinality({c \in Sessions : Awaits(s, c)}) = 1
    BY DEF CalleeLives
  <2>1. PICK c \in Sessions : Awaits(s, c)
    BY <1>1 DEF IInv, Waits
  <2>2. {d \in Sessions : Awaits(s, d)} = {c}
    BY <1>1, <2>1 DEF IInv, Waits
  <2>3. QED
    BY <2>2, FS_Singleton
<1>2. QED
  BY <1>1, DelegationInvariant, PTL

(* What is typed after a question goes to the skill that asked             *)
(* (consume_pending_interaction).                                          *)
THEOREM ReplyResumesCorrect == Spec => ReplyResumes
<1>1. ASSUME IInv, Next, turn' # turn, active[0] # Nil, active[0].pending
      PROVE  active'[0] = [active[0] EXCEPT !.pending = FALSE]
  <2>1. PICK input \in Names, args \in Arguments : UserTurn(input, args)
    BY <1>1 DEF Next, Iterate, DelegatedTurn, Guard, Prompt, NextIteration, Finish,
                AskUser, Stop, Check, Register
  <2>2. Asked(0)
    BY <1>1 DEF Asked
  <2>3. SkillAtStart(0, input, turn')
    BY <2>1, <2>2 DEF UserTurn
  <2>4. active' = [active EXCEPT ![0] = Resumed(active[0])]
    BY <2>2, <2>3 DEF SkillAtStart
  <2>5. active \in [Sessions -> Invocation \cup {Nil}] /\ 0 \in Sessions
    BY <1>1, SessionFacts DEF IInv, TypeOK
  <2>6. QED
    BY <2>4, <2>5 DEF Resumed
<1>2. IInv /\ [Next]_vars => [turn' # turn /\ active[0] # Nil /\ active[0].pending =>
         active'[0] = [active[0] EXCEPT !.pending = FALSE]]_vars
  BY <1>1
<1>3. QED
  BY <1>2, DelegationInvariant, PTL DEF Spec, ReplyResumes
-----------------------------------------------------------------------------
(* The steps that are handed down.                                         *)

(* The user's session, and every session that was made.                    *)
Made(s) == s = 0 \/ given[s] # Nil

(* The points a session may have.                                          *)
Allowance(s) == IF Made(s) THEN Budget(s) ELSE 0

(* A turn has no more points than it began with, whoever makes a request   *)
(* exists, and the request as well as the session it becomes has half of   *)
(* its maker's steps at most.                                              *)
Halved ==
  /\ \A s \in Sessions : energy[s] <= Allowance(s)
  /\ \A s \in Sessions : req[s] # Nil =>
       Made(s) /\ req[s].steps \in 1..AtLeastOne(Budget(s) \div 2)
  /\ \A s \in Sessions \ {0} : given[s] # Nil => Made(parent[s])
  /\ StepsShrink

(* What a call gets is half of the budget at most, if no more than the     *)
(* budget is left, and a step at least.                                    *)
LEMMA ChildStepsShrink ==
  ASSUME NEW asked \in Requested, NEW left \in Nat, NEW b \in Nat, left <= b
  PROVE  ChildSteps(asked, left) \in 1..AtLeastOne(b \div 2)
<1>1. asked \in Nat \ {0}
  BY DelegationAssumption
<1> DEFINE l == AtLeastOne(left)
           h == l \div 2
<1>2. l \in Nat \ {0} /\ (l <= b \/ l = 1)
  BY DEF AtLeastOne
<1>3. h \in Nat /\ b \div 2 \in Nat /\ (h <= b \div 2 \/ h = 0)
  <2>1. CASE l <= b
    BY <1>2, <2>1
  <2>2. CASE l = 1
    BY <2>2
  <2>3. QED
    BY <1>2, <2>1, <2>2
<1> HIDE DEF h
<1>4. AtLeastOne(h) \in 1..AtLeastOne(b \div 2)
  BY <1>3 DEF AtLeastOne
<1>5. AtLeastOne(h) \in Nat /\ AtLeastOne(b \div 2) \in Nat
  BY <1>3 DEF AtLeastOne
<1>6. Smaller(asked, AtLeastOne(h)) \in 1..AtLeastOne(b \div 2)
  BY <1>1, <1>4, <1>5 DEF Smaller
<1>7. QED
  BY <1>6 DEF ChildSteps, h

(* The budget of a session that was made is a number.                      *)
LEMMA BudgetType ==
  ASSUME TypeOK, NEW s \in Sessions
  PROVE  /\ Made(s) => Budget(s) \in Nat /\ Allowance(s) = Budget(s)
         /\ Allowance(s) \in Nat /\ energy[s] \in Nat
<1>1. given[s] # Nil => given[s].steps \in Nat
  BY FieldTypes DEF TypeOK
<1>2. QED
  BY <1>1, DelegationAssumption DEF Made, Budget, Allowance, TypeOK

(* A step that makes no request and no session, and leaves every session   *)
(* with points within its budget.                                          *)
LEMMA HalvedKept ==
  ASSUME Halved, UNCHANGED <<parent, given, req>>,
         \A q \in Sessions : energy'[q] <= Allowance(q)
  PROVE  Halved'
<1>1. \A q \in Sessions : /\ Made(q)' = Made(q) /\ Budget(q)' = Budget(q)
                          /\ Allowance(q)' = Allowance(q)
  BY DEF Made, Budget, Allowance
<1>2. parent' = parent /\ given' = given
  OBVIOUS
<1>3. StepsShrink'
  <2> SUFFICES ASSUME NEW q \in Sessions \ {0}, given[q] # Nil
               PROVE  given[q].steps \in 1..AtLeastOne(Budget(parent[q])' \div 2)
    BY <1>2 DEF StepsShrink
  <2>1. Budget(parent[q])' = Budget(parent[q])
    BY <1>2 DEF Budget
  <2>2. QED
    BY <2>1 DEF Halved, StepsShrink
<1>4. \A q \in Sessions \ {0} : given'[q] # Nil => Made(parent[q])'
  BY <1>2 DEF Halved, Made
<1>5. QED
  BY <1>1, <1>2, <1>3, <1>4 DEF Halved

(* The end of a session takes its points, and theirs from those that end   *)
(* with it.                                                                *)
LEMMA EndHalved ==
  ASSUME TypeOK, Halved, NEW s \in Sessions, NEW inv, End(s, inv),
         UNCHANGED <<parent, given, req>>
  PROVE  Halved'
<1>1. ASSUME NEW q \in Sessions PROVE energy'[q] <= Allowance(q)
  <2>1. energy'[q] \in {0, energy[q]}
    BY DEF End
  <2>2. energy[q] <= Allowance(q) /\ Allowance(q) \in Nat /\ energy[q] \in Nat
    BY BudgetType DEF Halved
  <2>3. QED
    BY <2>1, <2>2
<1>2. QED
  BY <1>1, HalvedKept

(* So does a turn that begins, with its whole budget, and each step of it  *)
(* that goes on, with no more than it had.                                 *)
LEMMA SpendHalved ==
  ASSUME TypeOK, Halved, NEW s \in Sessions, NEW e \in Nat,
         energy' = [energy EXCEPT ![s] = e], e <= energy[s] \/ e <= Allowance(s),
         UNCHANGED <<parent, given, req>>
  PROVE  Halved'
<1>1. ASSUME NEW q \in Sessions PROVE energy'[q] <= Allowance(q)
  <2>1. energy[q] <= Allowance(q) /\ Allowance(q) \in Nat /\ energy[q] \in Nat
    BY BudgetType DEF Halved
  <2>2. energy'[q] = IF q = s THEN e ELSE energy[q]
    BY DEF TypeOK
  <2>3. QED
    BY <2>1, <2>2
<1>2. QED
  BY <1>1, HalvedKept

(* A request is made from what its maker has left.                         *)
LEMMA CheckHalved ==
  ASSUME IInv, Halved, NEW s \in Sessions, Check(s)
  PROVE  Halved'
<1>1. /\ phase[s] = "tools" /\ UNCHANGED <<parent, given, energy>>
  BY DEF Check
<1>2. PICK input \in Names, asked \in Requested, sync \in BOOLEAN :
        \/ req' = [req EXCEPT ![s] = RawRequest(s, input, asked, sync)]
        \/ req' = [req EXCEPT ![s] = SkillRequest(s, input, asked, sync)]
  BY DEF Check
<1>3. Made(s)
  BY <1>1 DEF IInv, Present, Made
<1>4. ChildSteps(asked, energy[s]) \in 1..AtLeastOne(Budget(s) \div 2)
  BY <1>3, BudgetType, ChildStepsShrink DEF IInv, Halved
<1>5. req'[s].steps = ChildSteps(asked, energy[s])
  BY <1>2 DEF RawRequest, SkillRequest, IInv, TypeOK
<1>6. \A q \in Sessions : q # s => req'[q] = req[q]
  BY <1>2 DEF IInv, TypeOK
<1>7. \A q \in Sessions : /\ Made(q)' = Made(q) /\ Budget(q)' = Budget(q)
                          /\ Allowance(q)' = Allowance(q)
  BY <1>1 DEF Made, Budget, Allowance
<1>8. \A q \in Sessions : req'[q] # Nil =>
        Made(q) /\ req'[q].steps \in 1..AtLeastOne(Budget(q) \div 2)
  BY <1>3, <1>4, <1>5, <1>6 DEF Halved
<1>9. StepsShrink'
  <2> SUFFICES ASSUME NEW q \in Sessions \ {0}, given[q] # Nil
               PROVE  given[q].steps \in 1..AtLeastOne(Budget(parent[q])' \div 2)
    BY <1>1 DEF StepsShrink
  <2>1. Budget(parent[q])' = Budget(parent[q])
    BY <1>1 DEF Budget
  <2>2. QED
    BY <2>1 DEF Halved, StepsShrink
<1>10. \A q \in Sessions \ {0} : given'[q] # Nil => Made(parent[q])'
  BY <1>1 DEF Halved, Made
<1>11. QED
  BY <1>1, <1>7, <1>8, <1>9, <1>10 DEF Halved

(* A session is made with the steps of its request.                        *)
LEMMA RegisterHalved ==
  ASSUME IInv, Halved, NEW s \in Sessions, Register(s)
  PROVE  Halved'
<1> USE DEF IInv
<1>1. /\ phase[s] = "checked" /\ req' = [req EXCEPT ![s] = Nil]
      /\ UNCHANGED energy
      /\ \/ Refuses(s)
         \/ Becomes(s, NextSession, HandedDown(s, NextSession))
  BY RegisterParts
<1>2. \A q \in Sessions : req'[q] # Nil => req'[q] = req[q]
  BY <1>1 DEF TypeOK
<1>3. CASE Refuses(s)
  <2>1. parent' = parent /\ given' = given
    BY <1>3 DEF Refuses
  <2>2. \A q \in Sessions : /\ Made(q)' = Made(q) /\ Budget(q)' = Budget(q)
                            /\ Allowance(q)' = Allowance(q)
    BY <2>1 DEF Made, Budget, Allowance
  <2>3. StepsShrink'
    <3> SUFFICES ASSUME NEW q \in Sessions \ {0}, given[q] # Nil
                 PROVE  given[q].steps \in 1..AtLeastOne(Budget(parent[q])' \div 2)
      BY <2>1 DEF StepsShrink
    <3>1. Budget(parent[q])' = Budget(parent[q])
      BY <2>1 DEF Budget
    <3>2. QED
      BY <3>1 DEF Halved, StepsShrink
  <2>4. \A q \in Sessions \ {0} : given'[q] # Nil => Made(parent[q])'
    BY <2>1 DEF Halved, Made
  <2>5. QED
    BY <1>1, <1>2, <2>1, <2>2, <2>3, <2>4 DEF Halved
<1>4. CASE Becomes(s, NextSession, HandedDown(s, NextSession))
  <2>1. PICK c \in Sessions : c = NextSession
    BY <1>1, NextSessionAbsent
  <2>2. /\ c # 0 /\ c # s /\ given[c] = Nil
        /\ \A q \in Sessions :
             /\ parent'[q] = IF q = c THEN s ELSE parent[q]
             /\ q # c => given'[q] = given[q]
        /\ given'[c] \in Request /\ given'[c] # Nil
    BY <1>1, <1>4, <2>1, BecomesEffect
  <2>3. given'[c].steps = req[s].steps
    <3>1. given'[c] = [req[s] EXCEPT !.chain = HandedDown(s, c)]
      BY <1>4, <2>1 DEF Becomes, TypeOK
    <3>2. req[s] \in Request
      BY <1>1 DEF Present, TypeOK
    <3>3. QED
      BY <3>1, <3>2 DEF Request
  <2>4. /\ req[s] # Nil /\ Made(s)
        /\ given'[c].steps \in 1..AtLeastOne(Budget(s) \div 2)
    BY <1>1, <2>3 DEF Present, Halved
  <2>5. \A q \in Sessions : Made(q) => q # c /\ Made(q)' /\ Budget(q)' = Budget(q)
    BY <2>2 DEF Made, Budget
  <2>6. energy'[c] <= Allowance(c)'
    <3>1. energy[c] <= 0 /\ energy[c] \in Nat
      BY <2>2 DEF Halved, Allowance, Made, TypeOK
    <3>2. Allowance(c)' \in Nat
      BY <2>2, FieldTypes DEF Allowance, Made, Budget
    <3>3. QED
      BY <1>1, <3>1, <3>2
  <2>7. \A q \in Sessions : energy'[q] <= Allowance(q)'
    <3>1. \A q \in Sessions \ {c} : Allowance(q)' = Allowance(q)
      BY <2>2 DEF Allowance, Made, Budget
    <3>2. QED
      BY <1>1, <2>6, <3>1 DEF Halved
  <2>8. \A q \in Sessions : req'[q] # Nil =>
          Made(q)' /\ req'[q].steps \in 1..AtLeastOne(Budget(q)' \div 2)
    BY <1>2, <2>5 DEF Halved
  <2>9. ASSUME NEW q \in Sessions \ {0}, given'[q] # Nil
        PROVE  /\ Made(parent[q])'
               /\ given'[q].steps \in 1..AtLeastOne(Budget(parent[q])' \div 2)
    <3>1. PICK p \in Sessions : p = parent'[q]
      BY <2>2 DEF TypeOK
    <3>2. Made(p) /\ given'[q].steps \in 1..AtLeastOne(Budget(p) \div 2)
      BY <2>2, <2>4, <2>9, <3>1 DEF Halved, StepsShrink
    <3>3. Made(p)' /\ Budget(p)' = Budget(p)
      BY <2>5, <3>2
    <3>4. QED
      BY <3>1, <3>2, <3>3 DEF Made, Budget
  <2>10. StepsShrink'
    BY <2>9 DEF StepsShrink
  <2>11. QED
    BY <2>7, <2>8, <2>9, <2>10 DEF Halved
<1>5. QED
  BY <1>1, <1>3, <1>4

(* Every step hands down within the budget.                                *)
LEMMA NextHalved == IInv /\ Halved /\ [Next]_vars => Halved'
<1> SUFFICES ASSUME IInv, Halved, [Next]_vars PROVE Halved'
  OBVIOUS
<1> USE DEF IInv
<1>1. ASSUME NEW input \in Names, NEW args \in Arguments, UserTurn(input, args)
      PROVE  Halved'
  <2>1. /\ energy' = energy \/ energy' = [energy EXCEPT ![0] = Energy]
        /\ UNCHANGED <<parent, given, req>>
    BY <1>1 DEF UserTurn
  <2>2. CASE energy' = energy
    BY <2>1, <2>2, HalvedKept DEF Halved
  <2>3. CASE energy' = [energy EXCEPT ![0] = Energy]
    <3>1. Energy = Allowance(0) /\ Energy \in Nat /\ Energy <= Energy
      BY DelegationAssumption DEF Budget, Allowance, Made
    <3>2. QED
      BY <2>1, <2>3, <3>1, SpendHalved, SessionFacts
  <2>4. QED
    BY <2>1, <2>2, <2>3
<1>2. ASSUME NEW s \in Sessions, Iterate(s) \/ Stop(s) PROVE Halved'
  <2>1. ASSUME NEW args \in Arguments, DelegatedTurn(s, args) PROVE Halved'
    <3>1. /\ s # 0 /\ phase[s] = "built" /\ UNCHANGED <<parent, given, req>>
          /\ \/ End(s, Nil)
             \/ energy' = [energy EXCEPT ![s] = AtLeastOne(given[s].steps)]
      BY <2>1 DEF DelegatedTurn
    <3>2. given[s] # Nil /\ given[s] \in Request
      BY <3>1 DEF Present, TypeOK
    <3>3. given[s].steps # 0 /\ given[s].steps \in Nat
      <4>1. given[s].steps \in Nat
        BY <3>2, FieldTypes
      <4>2. Budget(parent[s]) \in Nat /\ Budget(parent[s]) \div 2 \in Nat
        BY <3>1, <3>2, BudgetType DEF Halved, TypeOK
      <4>3. AtLeastOne(Budget(parent[s]) \div 2) \in Nat
        BY <4>2 DEF AtLeastOne
      <4>4. given[s].steps \in 1..AtLeastOne(Budget(parent[s]) \div 2)
        BY <3>1, <3>2 DEF Halved, StepsShrink
      <4>5. QED
        BY <4>1, <4>3, <4>4
    <3>4. AtLeastOne(given[s].steps) = Allowance(s) /\ Allowance(s) \in Nat
      BY <3>1, <3>2, <3>3 DEF AtLeastOne, Budget, Allowance, Made
    <3>5. QED
      BY <3>1, <3>4, EndHalved, SpendHalved
  <2>2. CASE Guard(s)
    <3>1. /\ phase[s] = "guard" /\ UNCHANGED <<parent, given, req>>
          /\ \/ End(s, active[s])
             \/ energy' = [energy EXCEPT ![s] = energy[s] - 1]
      BY <2>2 DEF Guard
    <3>2. energy[s] - 1 \in Nat /\ energy[s] - 1 <= energy[s]
      BY <3>1 DEF TypeOK, Powered, Running
    <3>3. QED
      BY <3>1, <3>2, EndHalved, SpendHalved
  <2>3. CASE Prompt(s) \/ NextIteration(s)
    <3>1. UNCHANGED <<parent, given, req, energy>>
      BY <2>3 DEF Prompt, NextIteration
    <3>2. QED
      BY <3>1, HalvedKept DEF Halved
  <2>4. CASE Finish(s) \/ Stop(s)
    BY <2>4, EndHalved DEF Finish, Stop
  <2>5. CASE AskUser(s)
    BY <2>5, EndHalved DEF AskUser
  <2>6. QED
    BY <1>2, <2>1, <2>2, <2>3, <2>4, <2>5, CheckHalved, RegisterHalved DEF Iterate
<1>3. CASE UNCHANGED vars
  BY <1>3, HalvedKept DEF Halved, vars
<1>4. QED
  BY <1>1, <1>2, <1>3 DEF Next
-----------------------------------------------------------------------------
(* The lineages that are handed down.                                      *)

(* What an active skill has added to the chain its session inherited.      *)
Grown(s, v) ==
  v # Nil /\ Inherited(s) # Nil =>
    \E name \in Skills : v.chain = AppendFrame(Inherited(s), name)

(* A call in the foreground was given the context that its caller has for  *)
(* as long as it waits; a session adds one name at most; and it has no     *)
(* skill before it is there.                                               *)
Carried ==
  /\ \A p, c \in Sessions :
       Awaits(p, c) /\ ContextOf(p) # Nil => Inherited(c) = ContextOf(p)
  /\ \A s \in Sessions : Grown(s, active[s])
  /\ \A s \in Sessions \ {0} : given[s] = Nil => active[s] = Nil

(* A chain carries itself, and the one that it extends by a name.          *)
LEMMA FrameCarries ==
  ASSUME NEW chain \in Chain
  PROVE  /\ Carries(chain, chain)
         /\ \A name \in Skills : Carries(AppendFrame(chain, name), chain)
<1>0. chain.lineage \in Seq(Skills) /\ chain # Nil
  BY FieldTypes, NilApart
<1> SUFFICES ASSUME NEW name \in Skills
             PROVE  Carries(AppendFrame(chain, name), chain)
  BY <1>0 DEF Carries
<1>1. chain.lineage \in Seq(Skills)
  BY FieldTypes
<1>2. chain # Nil /\ AppendFrame(chain, name) # Nil
  <2>1. AppendFrame(chain, name) \in Chain
    BY <1>1 DEF AppendFrame, Chain
  <2>2. QED
    BY <2>1, NilApart
<1>3. PICK l \in Seq(Skills) : l = chain.lineage
  BY <1>1
<1>4. /\ AppendFrame(chain, name).root = chain.root
      /\ AppendFrame(chain, name).lineage = Append(l, name)
  BY <1>3 DEF AppendFrame, Chain
<1>5. /\ Len(l) <= Len(Append(l, name)) /\ Len(l) <= Len(l)
      /\ \A i \in DOMAIN l : Append(l, name)[i] = l[i]
  BY <1>3
<1>6. QED
  BY <1>2, <1>3, <1>4, <1>5 DEF Carries

(* A step that makes no session and lets nobody wait leaves that so, if it *)
(* leaves the skills of those who wait alone.                              *)
LEMMA CarriedStays ==
  ASSUME Carried, UNCHANGED <<parent, given>>,
         \A p, c \in Sessions : Awaits(p, c)' => Awaits(p, c) /\ active'[p] = active[p],
         \A q \in Sessions : Grown(q, active'[q]),
         \A q \in Sessions \ {0} : given[q] = Nil => active'[q] = Nil
  PROVE  Carried'
<1>1. \A q \in Sessions : /\ Inherited(q)' = Inherited(q)
                          /\ Grown(q, active[q])' <=> Grown(q, active'[q])
  BY DEF Inherited, Grown, AppendFrame
<1>2. \A p, c \in Sessions : Awaits(p, c)' => ContextOf(p)' = ContextOf(p)
  BY <1>1 DEF ContextOf
<1>3. QED
  BY <1>1, <1>2 DEF Carried

(* The start of a turn: a skill that is activated extends what the session *)
(* inherited.                                                              *)
LEMMA StartCarried ==
  ASSUME IInv, Carried, NEW s \in Sessions, NEW input, NEW t,
         phase[s] \in {"idle", "built"}, SkillAtStart(s, input, t),
         phase' = [phase EXCEPT ![s] = "guard"], UNCHANGED <<parent, given>>
  PROVE  Carried'
<1> USE DEF IInv
<1>1. \A q \in Sessions : phase'[q] = IF q = s THEN "guard" ELSE phase[q]
  BY DEF TypeOK
<1>2. \A q \in Sessions \ {s} : active'[q] = active[q]
  BY DEF SkillAtStart, TypeOK
<1>3. Grown(s, active'[s])
  <2>1. CASE Asked(s)
    <3>1. active'[s] = Resumed(active[s]) /\ active[s] \in Invocation
      BY <2>1 DEF SkillAtStart, Asked, TypeOK
    <3>2. active'[s].chain = active[s].chain /\ active[s] # Nil
      BY <2>1, <3>1 DEF Resumed, Invocation, Asked
    <3>3. QED
      BY <3>2 DEF Carried, Grown
  <2>2. CASE ~Asked(s)
    <3>1. active'[s] = ActiveAfter(s, input, t)
      BY <2>2 DEF SkillAtStart, TypeOK
    <3>2. CASE input \in Skills
      <4>1. active'[s].chain = AppendFrame(ParentChain(s, t), input)
        BY <3>1, <3>2 DEF ActiveAfter
      <4>2. QED
        BY <3>2, <4>1 DEF Grown, ParentChain
    <3>3. CASE input \notin Skills
      BY <3>1, <3>3 DEF ActiveAfter, Carried
    <3>4. QED
      BY <3>2, <3>3
  <2>3. QED
    BY <2>1, <2>2
<1>4. s # 0 => given[s] # Nil
  BY DEF Present
<1>5. \A p, c \in Sessions : Awaits(p, c)' => Awaits(p, c) /\ p # s
  BY <1>1 DEF Awaits
<1>6. \A q \in Sessions : Grown(q, active'[q])
  BY <1>2, <1>3 DEF Carried
<1>7. \A q \in Sessions \ {0} : given[q] = Nil => active'[q] = Nil
  BY <1>2, <1>4 DEF Carried
<1>8. QED
  BY <1>2, <1>5, <1>6, <1>7, CarriedStays

(* The end of a session: whoever still waits has its skill, and so has the *)
(* user's session, which inherits nothing.                                 *)
LEMMA EndCarried ==
  ASSUME IInv, Carried, NEW s \in Sessions, NEW inv, End(s, inv),
         phase[s] \notin {"absent", "ended"}, UNCHANGED <<parent, given>>
  PROVE  Carried'
<1> USE DEF IInv
<1> DEFINE gone == Dropped(s) \cup {s}
<1>1. \A q \in Sessions : /\ q \in gone => phase'[q] \in {"idle", "ended"}
                          /\ q \notin gone => active'[q] = active[q]
                          /\ phase'[q] = "waiting" => phase[q] = "waiting"
                          /\ phase[q] = "ended" => phase'[q] = "ended"
  <2> SUFFICES ASSUME NEW q \in Sessions
               PROVE  /\ q \in gone => phase'[q] \in {"idle", "ended"}
                      /\ q \notin gone => active'[q] = active[q]
                      /\ phase'[q] = "waiting" => phase[q] = "waiting"
                      /\ phase[q] = "ended" => phase'[q] = "ended"
    OBVIOUS
  <2>1. Open(s) => phase[parent[s]] = "waiting"
    BY DEF Waits
  <2>2. q \in Dropped(s) => Open(q)
    BY DroppedOpen
  <2>3. QED
    BY <2>1, <2>2, EndEffect DEF Open
<1>2. \A p, c \in Sessions : Awaits(p, c)' => Awaits(p, c) /\ active'[p] = active[p]
  BY <1>1 DEF Awaits
<1>3. \A q \in Sessions : q # 0 => active'[q] \in {active[q], Nil}
  BY DEF End
<1>4. \A q \in Sessions : Grown(q, active'[q])
  <2>1. Inherited(0) = Nil
    BY DEF Present, Inherited
  <2>2. QED
    BY <1>3, <2>1 DEF Carried, Grown
<1>5. \A q \in Sessions \ {0} : given[q] = Nil => active'[q] = Nil
  BY <1>3 DEF Carried
<1>6. QED
  BY <1>2, <1>4, <1>5, CarriedStays

(* A step of a session's turn that changes no skill and lets nobody wait.  *)
LEMMA PauseCarried ==
  ASSUME IInv, Carried, NEW s \in Sessions,
         NEW X \in {"guard", "prompt", "tools", "checked"},
         phase[s] \notin {"absent", "ended", "waiting"},
         phase' = [phase EXCEPT ![s] = X], UNCHANGED <<parent, given, active>>
  PROVE  Carried'
<1>1. \A q \in Sessions : phase'[q] = IF q = s THEN X ELSE phase[q]
  BY DEF IInv, TypeOK
<1>2. \A p, c \in Sessions : Awaits(p, c)' => Awaits(p, c)
  BY <1>1 DEF Awaits
<1>3. QED
  BY <1>2, CarriedStays DEF Carried

(* A call becomes a session with the context of its caller.                *)
LEMMA RegisterCarried ==
  ASSUME IInv, Carried, NEW s \in Sessions, Register(s)
  PROVE  Carried'
<1> USE DEF IInv
<1>1. /\ phase[s] = "checked" /\ active' = active
      /\ \/ Refuses(s)
         \/ Becomes(s, NextSession, HandedDown(s, NextSession))
  BY RegisterParts
<1>2. CASE Refuses(s)
  BY <1>1, <1>2, PauseCarried DEF Refuses
<1>3. CASE Becomes(s, NextSession, HandedDown(s, NextSession))
  <2>1. PICK c \in Sessions : c = NextSession
    BY <1>1, NextSessionAbsent
  <2>2. /\ c # 0 /\ c # s /\ phase[c] = "absent" /\ given[c] = Nil
        /\ \A q \in Sessions :
             /\ phase'[q] = IF q = c THEN "built"
                            ELSE IF q = s THEN (IF req[s].sync THEN "waiting" ELSE "tools")
                            ELSE phase[q]
             /\ parent'[q] = IF q = c THEN s ELSE parent[q]
             /\ q # c => given'[q] = given[q]
        /\ given'[c] # Nil /\ given'[c].chain = HandedDown(s, c)
    BY <1>1, <1>3, <2>1, BecomesEffect
  <2>3. ContextOf(s) # Nil => HandedDown(s, c) = ContextOf(s)
    BY <1>1 DEF Present, HandedDown
  <2>4. active[c] = Nil
    BY <2>2 DEF Carried
  <2>5. /\ \A q \in Sessions \ {c} : Inherited(q)' = Inherited(q)
        /\ Inherited(c)' = HandedDown(s, c)
    BY <2>2 DEF Inherited
  <2>6. \A q \in Sessions \ {c} : ContextOf(q)' = ContextOf(q)
    BY <1>1, <2>5 DEF ContextOf
  <2>7. ASSUME NEW p \in Sessions, NEW d \in Sessions, Awaits(p, d)',
               ContextOf(p)' # Nil
        PROVE  Inherited(d)' = ContextOf(p)'
    <3>1. p # c
      BY <2>2, <2>7 DEF Awaits
    <3>2. CASE d = c
      BY <2>2, <2>3, <2>5, <2>6, <2>7, <3>1, <3>2 DEF Awaits
    <3>3. CASE d # c
      <4>1. Awaits(p, d) \/ (p = s /\ Open(d) /\ parent[d] = s)
        BY <1>1, <2>2, <2>7, <3>1, <3>3 DEF Awaits, Open
      <4>2. Awaits(p, d)
        BY <1>1, <4>1 DEF Waits
      <4>3. QED
        BY <2>5, <2>6, <2>7, <3>1, <3>3, <4>2 DEF Carried
    <3>4. QED
      BY <3>2, <3>3
  <2>8. \A q \in Sessions : Grown(q, active[q])'
    <3>1. \A q \in Sessions \ {c} : Grown(q, active[q])' <=> Grown(q, active[q])
      BY <1>1, <2>5 DEF Grown, AppendFrame
    <3>2. Grown(c, active[c])'
      BY <1>1, <2>4 DEF Grown
    <3>3. QED
      BY <3>1, <3>2 DEF Carried
  <2>9. \A q \in Sessions \ {0} : given'[q] = Nil => active'[q] = Nil
    BY <1>1, <2>2 DEF Carried
  <2>10. QED
    BY <2>7, <2>8, <2>9 DEF Carried
<1>4. QED
  BY <1>1, <1>2, <1>3

(* Every step hands the lineage down.                                      *)
LEMMA NextCarried == IInv /\ Carried /\ [Next]_vars => Carried'
<1> SUFFICES ASSUME IInv, Carried, [Next]_vars PROVE Carried'
  OBVIOUS
<1>1. ASSUME NEW input \in Names, NEW args \in Arguments, UserTurn(input, args)
      PROVE  Carried'
  <2>1. phase[0] = "idle" /\ UNCHANGED <<parent, given>>
    BY <1>1 DEF UserTurn
  <2>2. PICK t : t = turn'
    OBVIOUS
  <2>3. \/ UNCHANGED <<phase, active>>
        \/ SkillAtStart(0, input, t) /\ phase' = [phase EXCEPT ![0] = "guard"]
    BY <1>1, <2>2 DEF UserTurn
  <2>4. CASE UNCHANGED <<phase, active>>
    BY <2>1, <2>4, CarriedStays DEF Carried, Awaits
  <2>5. QED
    BY <2>1, <2>3, <2>4, StartCarried, SessionFacts
<1>2. ASSUME NEW s \in Sessions, Iterate(s) \/ Stop(s) PROVE Carried'
  <2>1. ASSUME NEW args \in Arguments, DelegatedTurn(s, args) PROVE Carried'
    <3>1. phase[s] = "built" /\ UNCHANGED <<parent, given>>
      BY <2>1 DEF DelegatedTurn
    <3>2. PICK input : input = given[s].input
      OBVIOUS
    <3>3. \/ End(s, Nil)
          \/ SkillAtStart(s, input, turn) /\ phase' = [phase EXCEPT ![s] = "guard"]
      BY <2>1, <3>2 DEF DelegatedTurn
    <3>4. QED
      BY <3>1, <3>3, EndCarried, StartCarried
  <2>2. CASE Guard(s)
    <3>1. /\ phase[s] = "guard" /\ UNCHANGED <<parent, given>>
          /\ \/ End(s, active[s])
             \/ phase' = [phase EXCEPT ![s] = "prompt"] /\ UNCHANGED active
      BY <2>2 DEF Guard
    <3>2. QED
      BY <3>1, EndCarried, PauseCarried
  <2>3. CASE Prompt(s) \/ NextIteration(s) \/ Check(s)
    <3>1. /\ phase[s] \in {"prompt", "tools"} /\ UNCHANGED <<parent, given, active>>
          /\ \E X \in {"guard", "tools", "checked"} : phase' = [phase EXCEPT ![s] = X]
      BY <2>3 DEF Prompt, NextIteration, Check
    <3>2. QED
      BY <3>1, PauseCarried
  <2>4. CASE Finish(s) \/ Stop(s)
    BY <2>4, EndCarried DEF Finish, Stop, Running
  <2>5. CASE AskUser(s)
    BY <2>5, EndCarried DEF AskUser
  <2>6. QED
    BY <1>2, <2>1, <2>2, <2>3, <2>4, <2>5, RegisterCarried DEF Iterate
<1>3. CASE UNCHANGED vars
  BY <1>3, CarriedStays DEF Carried, vars, Awaits
<1>4. QED
  BY <1>1, <1>2, <1>3 DEF Next

(* As long as a caller waits, the session it called works with its whole   *)
(* lineage, whatever way the call took, at any depth of any tree           *)
(* (make_raw_execution_request, make_skill_execution_request,              *)
(* activate_skill).                                                        *)
THEOREM LineageCarriedCorrect == Spec => []LineageCarried
<1>1. Init => Carried
  BY DEF Init, Carried, Grown, Awaits
<1>2. ASSUME IInv, Carried PROVE LineageCarried
  <2> SUFFICES ASSUME NEW s \in Sessions, NEW c \in Sessions, Awaits(s, c),
                      ContextOf(s) # Nil
               PROVE  Carries(ContextOf(c), ContextOf(s))
    BY DEF LineageCarried
  <2>1. PICK above : above = ContextOf(s)
    OBVIOUS
  <2>2. above \in Chain /\ above # Nil /\ Inherited(c) = above
    BY <1>2, <2>1, ContextType DEF IInv, Carried
  <2>3. CASE active[c] = Nil
    <3>1. ContextOf(c) = above
      BY <2>2, <2>3 DEF ContextOf
    <3>2. QED
      BY <2>1, <2>2, <3>1, FrameCarries
  <2>4. CASE active[c] # Nil
    <3>1. PICK name \in Skills : active[c].chain = AppendFrame(above, name)
      BY <1>2, <2>2, <2>4 DEF Carried, Grown
    <3>2. ContextOf(c) = AppendFrame(above, name)
      BY <2>4, <3>1 DEF ContextOf
    <3>3. QED
      BY <2>1, <2>2, <3>2, FrameCarries
  <2>5. QED
    BY <2>3, <2>4
<1>3. QED
  BY <1>1, <1>2, InitInvariant, NextInvariant, NextCarried, PTL DEF Spec

(* For any energy and any depth, each delegated session has half of its    *)
(* maker's budget at most, and one step at least; lineages have no         *)
(* repetition and are handed down whole.  This bounds every edge of the    *)
(* tree, not the sum over a tree: a call takes nothing from its maker,     *)
(* which may make many (effective_limits, activate_skill).                 *)
THEOREM DelegationBoundedCorrect == Spec => []DelegationBounded
<1>1. Init => Halved
  BY DelegationAssumption, SessionFacts DEF Init, Halved, StepsShrink, Made, Budget, Allowance
<1>2. IInv /\ Halved /\ LineageCarried => DelegationBounded
  BY DEF IInv, Halved, Lineages, ChainSound, SoundInvocation, Sound, DelegationBounded
<1>3. QED
  BY <1>1, <1>2, LineageCarriedCorrect, InitInvariant, NextInvariant, NextHalved, PTL DEF Spec
=============================================================================
