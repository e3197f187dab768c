--------------------------- MODULE ResponseProofs ----------------------------
(***************************************************************************)
(* Proofs about how the platform answers in time: the deadlines of work    *)
(* orders, and the account that an incident gives of itself. The parts     *)
(* share no state: each theorem is about the specification of its own      *)
(* part.                                                                   *)
(***************************************************************************)
EXTENDS SlaSweep, IncidentTimeline, FiniteSetTheorems, TLAPS

------------------------------------------------------------------------------
(***************************************************************************)
(* Theorems about the SLA sweep, for any number of orders and sweepers,    *)
(* any priorities and any clock.                                           *)
(*                                                                         *)
(* Told says who knows of an order: before it is marked nobody, and after  *)
(* it either one sweeper, which has not told the assignee yet, or nobody,  *)
(* and then the assignee was told once, or there was none, or something    *)
(* failed.  Timely says what the last tick of a sweeper has seen: every    *)
(* open order that had been in its last quarter then is marked as warned.  *)
(***************************************************************************)

OneHolder ==
    \A k \in Kinds, o \in Orders : \A s, t \in Holders(k, o) : s = t

HeldIsUntold ==
    \A k \in Kinds, o \in Orders :
        Holders(k, o) # {} => o \in marked[k] \ nobody[k] /\ told[k][o] = 0

UnmarkedIsUntold ==
    \A k \in Kinds, o \in Orders :
        /\ o \notin marked[k] => told[k][o] = 0
        /\ told[k][o] <= 1

NobodyIsMarked == \A k \in Kinds : nobody[k] \subseteq marked[k]

\* A sweeper between two ticks, or without a tick, holds nothing.
EmptyHands == \A s \in Sweepers : sweep[s].pc \in {"waiting", "down"} => sweep[s].hand = {}

Told ==
    /\ OneHolder /\ HeldIsUntold /\ UnmarkedIsUntold /\ NobodyIsMarked
    /\ EmptyHands /\ LostOnlyByFailure

\* The approval gave every open order four intervals at least.
FourIntervals ==
    \A o \in Orders : Open(o) => order[o].since <= now /\ order[o].since + 4 * Interval <= order[o].due

\* The tick whose warnings s has run: the one that is over, or, during the
\* breach notices of a tick, the one before.
LastTick(s) == IF sweep[s].pc = "breach" THEN sweep[s].next - 2 * Interval
               ELSE sweep[s].next - Interval

Timely ==
    failures = 0 =>
        \A s \in Sweepers :
            /\ sweep[s].pc # "down"
            /\ now <= sweep[s].next
            /\ LastTick(s) <= now
            /\ sweep[s].pc = "breach" => now + Interval = sweep[s].next
            /\ \A o \in Orders :
                  Open(o) /\ 3 * order[o].due + order[o].since < 4 * LastTick(s)
                      => o \in marked["sla_warning"]

IInv ==
    /\ TypeOK
    /\ Told
    /\ FourIntervals
    /\ Timely
    /\ WarnedBeforeBreached

------------------------------------------------------------------------------
\* Every step keeps the types.
LEMMA TypeStep ==
    ASSUME TypeOK, [Next]_vars
    PROVE  TypeOK'
<1>1. ASSUME NEW o \in Orders, StampWorkOrderApproval(o)
      PROVE  TypeOK'
  <2>1. now' \in Time /\ failures' \in 0 .. MaxFailures
    BY <1>1, SlaAssumption DEF StampWorkOrderApproval, Place, SLADeadline, TypeOK, Order,
       Sweep, PCs, Statuses, Kinds, Time
  <2>2. [order[o] EXCEPT !.status = "approved", !.since = now,
                     !.due = SLADeadline(order[o].priority)] \in Order
    <3>1. /\ order[o] \in Order /\ now \in Nat /\ order[o].priority \in Priorities
          /\ \A p \in Priorities : SLADeadline(p) \in Nat
      BY SlaAssumption DEF TypeOK, Time, Order, SLADeadline
    <3>2. QED
      BY <3>1, SlaAssumption DEF Order, Statuses
  <2>3. order' \in [Orders -> Order]
    BY <1>1, SlaAssumption, <2>2 DEF StampWorkOrderApproval, Place, SLADeadline, TypeOK
  <2>4. /\ marked' \in [Kinds -> SUBSET Orders] /\ nobody' \in [Kinds -> SUBSET Orders]
       /\ told' \in [Kinds -> [Orders -> Nat]] /\ sweep' \in [Sweepers -> Sweep]
    BY <1>1, SlaAssumption DEF StampWorkOrderApproval, Place, SLADeadline, TypeOK, Order,
       Sweep, PCs, Statuses, Kinds, Time
  <2>5. QED
    BY <2>1, <2>2, <2>3, <2>4 DEF TypeOK
<1>2. ASSUME NEW o \in Orders, EmergencyStart(o)
      PROVE  TypeOK'
  <2>1. now' \in Time /\ failures' \in 0 .. MaxFailures
    BY <1>2, SlaAssumption DEF EmergencyStart, Place, SLADeadline, TypeOK, Order, Sweep, PCs,
       Statuses, Kinds, Time
  <2>2. [order[o] EXCEPT !.status = "in_progress", !.since = now,
                     !.due = SLADeadline("critical")] \in Order
    <3>1. /\ order[o] \in Order /\ now \in Nat /\ order[o].priority \in Priorities
          /\ \A p \in Priorities : SLADeadline(p) \in Nat
      BY SlaAssumption DEF TypeOK, Time, Order, SLADeadline
    <3>2. QED
      BY <3>1, SlaAssumption DEF Order, Statuses
  <2>3. order' \in [Orders -> Order]
    BY <1>2, SlaAssumption, <2>2 DEF EmergencyStart, Place, SLADeadline, TypeOK
  <2>4. /\ marked' \in [Kinds -> SUBSET Orders] /\ nobody' \in [Kinds -> SUBSET Orders]
       /\ told' \in [Kinds -> [Orders -> Nat]] /\ sweep' \in [Sweepers -> Sweep]
    BY <1>2, SlaAssumption DEF EmergencyStart, Place, SLADeadline, TypeOK, Order, Sweep, PCs,
       Statuses, Kinds, Time
  <2>5. QED
    BY <2>1, <2>2, <2>3, <2>4 DEF TypeOK
<1>3. ASSUME NEW o \in Orders, Advance(o)
      PROVE  TypeOK'
  <2>1. now' \in Time /\ failures' \in 0 .. MaxFailures
    BY <1>3, SlaAssumption DEF Advance, Place, TypeOK, Order, Sweep, PCs, Statuses, Kinds, Time
  <2>2. /\ [order[o] EXCEPT !.status = "in_progress"] \in Order
       /\ [order[o] EXCEPT !.status = "completed"] \in Order
    BY <1>3, SlaAssumption DEF Advance, Place, TypeOK, Order, Sweep, PCs, Statuses, Kinds, Time
  <2>3. order' \in [Orders -> Order]
    BY <1>3, SlaAssumption, <2>2 DEF Advance, Place, TypeOK
  <2>4. /\ marked' \in [Kinds -> SUBSET Orders] /\ nobody' \in [Kinds -> SUBSET Orders]
       /\ told' \in [Kinds -> [Orders -> Nat]] /\ sweep' \in [Sweepers -> Sweep]
    BY <1>3, SlaAssumption DEF Advance, Place, TypeOK, Order, Sweep, PCs, Statuses, Kinds, Time
  <2>5. QED
    BY <2>1, <2>2, <2>3, <2>4 DEF TypeOK
<1>4. ASSUME NEW o \in Orders, SoftDeleteWorkOrder(o)
      PROVE  TypeOK'
  <2>1. now' \in Time /\ failures' \in 0 .. MaxFailures
    BY <1>4, SlaAssumption DEF SoftDeleteWorkOrder, Place, TypeOK, Order, Sweep, PCs, Statuses,
       Kinds, Time
  <2>2. [order[o] EXCEPT !.status = "deleted"] \in Order
    <3>1. /\ order[o] \in Order /\ now \in Nat /\ order[o].priority \in Priorities
          /\ \A p \in Priorities : SLADeadline(p) \in Nat
      BY SlaAssumption DEF TypeOK, Time, Order, SLADeadline
    <3>2. QED
      BY <3>1, SlaAssumption DEF Order, Statuses
  <2>3. order' \in [Orders -> Order]
    BY <1>4, SlaAssumption, <2>2 DEF SoftDeleteWorkOrder, Place, TypeOK
  <2>4. /\ marked' \in [Kinds -> SUBSET Orders] /\ nobody' \in [Kinds -> SUBSET Orders]
       /\ told' \in [Kinds -> [Orders -> Nat]] /\ sweep' \in [Sweepers -> Sweep]
    BY <1>4, SlaAssumption DEF SoftDeleteWorkOrder, Place, TypeOK, Order, Sweep, PCs, Statuses,
       Kinds, Time
  <2>5. QED
    BY <2>1, <2>2, <2>3, <2>4 DEF TypeOK
<1>5. ASSUME NEW o \in Orders, NEW u \in Users, AssignWorkOrder(o, u)
      PROVE  TypeOK'
  <2>1. now' \in Time /\ failures' \in 0 .. MaxFailures
    BY <1>5, SlaAssumption DEF AssignWorkOrder, Place, TypeOK, Order, Sweep, PCs, Statuses,
       Kinds, Time
  <2>2. order' \in [Orders -> Order]
    BY <1>5, SlaAssumption DEF AssignWorkOrder, Place, TypeOK, Order, Sweep, PCs, Statuses,
       Kinds, Time
  <2>3. marked' \in [Kinds -> SUBSET Orders] /\ nobody' \in [Kinds -> SUBSET Orders]
    BY <1>5, SlaAssumption DEF AssignWorkOrder, Place, TypeOK, Order, Sweep, PCs, Statuses,
       Kinds, Time, Eligible
  <2>4. told' \in [Kinds -> [Orders -> Nat]]
    BY <1>5, SlaAssumption DEF AssignWorkOrder, Place, TypeOK, Order, Sweep, PCs, Statuses,
       Kinds, Time
  <2>5. sweep' \in [Sweepers -> Sweep]
    BY <1>5, SlaAssumption DEF AssignWorkOrder, Place, TypeOK, Order, Sweep, PCs, Statuses,
       Kinds, Time, Eligible
  <2>6. QED
    BY <2>1, <2>2, <2>3, <2>4, <2>5 DEF TypeOK
<1>6. ASSUME NEW s \in Sweepers, EndTick(s)
      PROVE  TypeOK'
  <2>1. now' \in Time /\ failures' \in 0 .. MaxFailures
    BY <1>6, SlaAssumption DEF EndTick, TypeOK, Order, Sweep, PCs, Statuses, Kinds, Time
  <2>2. order' \in [Orders -> Order]
    BY <1>6, SlaAssumption DEF EndTick, TypeOK, Order, Sweep, PCs, Statuses, Kinds, Time
  <2>3. marked' \in [Kinds -> SUBSET Orders] /\ nobody' \in [Kinds -> SUBSET Orders]
    BY <1>6, SlaAssumption DEF EndTick, TypeOK, Order, Sweep, PCs, Statuses, Kinds, Time,
       Eligible
  <2>4. told' \in [Kinds -> [Orders -> Nat]]
    BY <1>6, SlaAssumption DEF EndTick, TypeOK, Order, Sweep, PCs, Statuses, Kinds, Time
  <2>5. sweep' \in [Sweepers -> Sweep]
    BY <1>6, SlaAssumption DEF EndTick, TypeOK, Order, Sweep, PCs, Statuses, Kinds, Time,
       Eligible
  <2>6. QED
    BY <2>1, <2>2, <2>3, <2>4, <2>5 DEF TypeOK
<1>7. ASSUME NEW s \in Sweepers, NEW k \in Kinds, Mark(s, k)
      PROVE  TypeOK'
  <2>1. now' \in Time /\ failures' \in 0 .. MaxFailures
    BY <1>7, SlaAssumption DEF Mark, Turn, NextTick, PcOf, TypeOK, Order, Sweep, PCs, Statuses,
       Kinds, Time
  <2>2. order' \in [Orders -> Order]
    BY <1>7, SlaAssumption DEF Mark, Turn, NextTick, PcOf, TypeOK, Order, Sweep, PCs, Statuses,
       Kinds, Time
  <2>3. marked' \in [Kinds -> SUBSET Orders] /\ nobody' \in [Kinds -> SUBSET Orders]
    BY <1>7, SlaAssumption DEF Mark, Turn, NextTick, PcOf, TypeOK, Order, Sweep, PCs, Statuses,
       Kinds, Time, Eligible
  <2>4. told' \in [Kinds -> [Orders -> Nat]]
    BY <1>7, SlaAssumption DEF Mark, Turn, NextTick, PcOf, TypeOK, Order, Sweep, PCs, Statuses,
       Kinds, Time
  <2>5. sweep' \in [Sweepers -> Sweep]
    BY <1>7, SlaAssumption DEF Mark, Turn, NextTick, PcOf, TypeOK, Order, Sweep, PCs, Statuses,
       Kinds, Time, Eligible
  <2>6. QED
    BY <2>1, <2>2, <2>3, <2>4, <2>5 DEF TypeOK
<1>8. ASSUME NEW s \in Sweepers, NEW k \in Kinds, MarkFails(s, k)
      PROVE  TypeOK'
  <2>1. now' \in Time /\ failures' \in 0 .. MaxFailures
    BY <1>8, SlaAssumption DEF MarkFails, Turn, NextTick, PcOf, TypeOK, Order, Sweep, PCs,
       Statuses, Kinds, Time
  <2>2. order' \in [Orders -> Order]
    BY <1>8, SlaAssumption DEF MarkFails, Turn, NextTick, PcOf, TypeOK, Order, Sweep, PCs,
       Statuses, Kinds, Time
  <2>3. marked' \in [Kinds -> SUBSET Orders] /\ nobody' \in [Kinds -> SUBSET Orders]
    BY <1>8, SlaAssumption DEF MarkFails, Turn, NextTick, PcOf, TypeOK, Order, Sweep, PCs,
       Statuses, Kinds, Time, Eligible
  <2>4. told' \in [Kinds -> [Orders -> Nat]]
    BY <1>8, SlaAssumption DEF MarkFails, Turn, NextTick, PcOf, TypeOK, Order, Sweep, PCs,
       Statuses, Kinds, Time
  <2>5. sweep' \in [Sweepers -> Sweep]
    BY <1>8, SlaAssumption DEF MarkFails, Turn, NextTick, PcOf, TypeOK, Order, Sweep, PCs,
       Statuses, Kinds, Time, Eligible
  <2>6. QED
    BY <2>1, <2>2, <2>3, <2>4, <2>5 DEF TypeOK
<1>9. ASSUME NEW s \in Sweepers, NEW k \in Kinds, NEW o \in Orders, Tell(s, k, o)
      PROVE  TypeOK'
  <2>1. now' \in Time /\ failures' \in 0 .. MaxFailures
    BY <1>9, SlaAssumption DEF Tell, Drop, Holders, PcOf, TypeOK, Order, Sweep, PCs, Statuses,
       Kinds, Time
  <2>2. order' \in [Orders -> Order]
    BY <1>9, SlaAssumption DEF Tell, Drop, Holders, PcOf, TypeOK, Order, Sweep, PCs, Statuses,
       Kinds, Time
  <2>3. marked' \in [Kinds -> SUBSET Orders] /\ nobody' \in [Kinds -> SUBSET Orders]
    BY <1>9, SlaAssumption DEF Tell, Drop, Holders, PcOf, TypeOK, Order, Sweep, PCs, Statuses,
       Kinds, Time, Eligible
  <2>4. told' \in [Kinds -> [Orders -> Nat]]
    BY <1>9, SlaAssumption DEF Tell, Drop, Holders, PcOf, TypeOK, Order, Sweep, PCs, Statuses,
       Kinds, Time
  <2>5. sweep' \in [Sweepers -> Sweep]
    BY <1>9, SlaAssumption DEF Tell, Drop, Holders, PcOf, TypeOK, Order, Sweep, PCs, Statuses,
       Kinds, Time, Eligible
  <2>6. QED
    BY <2>1, <2>2, <2>3, <2>4, <2>5 DEF TypeOK
<1>10. ASSUME NEW s \in Sweepers, NEW k \in Kinds, NEW o \in Orders, TellFails(s, k, o)
       PROVE  TypeOK'
  <2>1. now' \in Time /\ failures' \in 0 .. MaxFailures
    BY <1>10, SlaAssumption DEF TellFails, Drop, Holders, PcOf, TypeOK, Order, Sweep, PCs,
       Statuses, Kinds, Time
  <2>2. order' \in [Orders -> Order]
    BY <1>10, SlaAssumption DEF TellFails, Drop, Holders, PcOf, TypeOK, Order, Sweep, PCs,
       Statuses, Kinds, Time
  <2>3. marked' \in [Kinds -> SUBSET Orders] /\ nobody' \in [Kinds -> SUBSET Orders]
    BY <1>10, SlaAssumption DEF TellFails, Drop, Holders, PcOf, TypeOK, Order, Sweep, PCs,
       Statuses, Kinds, Time, Eligible
  <2>4. told' \in [Kinds -> [Orders -> Nat]]
    BY <1>10, SlaAssumption DEF TellFails, Drop, Holders, PcOf, TypeOK, Order, Sweep, PCs,
       Statuses, Kinds, Time
  <2>5. sweep' \in [Sweepers -> Sweep]
    BY <1>10, SlaAssumption DEF TellFails, Drop, Holders, PcOf, TypeOK, Order, Sweep, PCs,
       Statuses, Kinds, Time, Eligible
  <2>6. QED
    BY <2>1, <2>2, <2>3, <2>4, <2>5 DEF TypeOK
<1>11. ASSUME NEW s \in Sweepers, Die(s)
       PROVE  TypeOK'
  <2>1. now' \in Time /\ failures' \in 0 .. MaxFailures
    BY <1>11, SlaAssumption DEF Die, TypeOK, Order, Sweep, PCs, Statuses, Kinds, Time
  <2>2. order' \in [Orders -> Order]
    BY <1>11, SlaAssumption DEF Die, TypeOK, Order, Sweep, PCs, Statuses, Kinds, Time
  <2>3. marked' \in [Kinds -> SUBSET Orders] /\ nobody' \in [Kinds -> SUBSET Orders]
    BY <1>11, SlaAssumption DEF Die, TypeOK, Order, Sweep, PCs, Statuses, Kinds, Time, Eligible
  <2>4. told' \in [Kinds -> [Orders -> Nat]]
    BY <1>11, SlaAssumption DEF Die, TypeOK, Order, Sweep, PCs, Statuses, Kinds, Time
  <2>5. sweep' \in [Sweepers -> Sweep]
    BY <1>11, SlaAssumption DEF Die, TypeOK, Order, Sweep, PCs, Statuses, Kinds, Time, Eligible
  <2>6. QED
    BY <2>1, <2>2, <2>3, <2>4, <2>5 DEF TypeOK
<1>12. ASSUME NEW s \in Sweepers, StartSLAChecker(s)
       PROVE  TypeOK'
  <2>1. now' \in Time /\ failures' \in 0 .. MaxFailures
    BY <1>12, SlaAssumption DEF StartSLAChecker, Fresh, TypeOK, Order, Sweep, PCs, Statuses,
       Kinds, Time
  <2>2. order' \in [Orders -> Order]
    BY <1>12, SlaAssumption DEF StartSLAChecker, Fresh, TypeOK, Order, Sweep, PCs, Statuses,
       Kinds, Time
  <2>3. marked' \in [Kinds -> SUBSET Orders] /\ nobody' \in [Kinds -> SUBSET Orders]
    BY <1>12, SlaAssumption DEF StartSLAChecker, Fresh, TypeOK, Order, Sweep, PCs, Statuses,
       Kinds, Time, Eligible
  <2>4. told' \in [Kinds -> [Orders -> Nat]]
    BY <1>12, SlaAssumption DEF StartSLAChecker, Fresh, TypeOK, Order, Sweep, PCs, Statuses,
       Kinds, Time
  <2>5. sweep' \in [Sweepers -> Sweep]
    BY <1>12, SlaAssumption DEF StartSLAChecker, Fresh, TypeOK, Order, Sweep, PCs, Statuses,
       Kinds, Time, Eligible
  <2>6. QED
    BY <2>1, <2>2, <2>3, <2>4, <2>5 DEF TypeOK
<1>13. CASE Tick
  <2>1. now' \in Time /\ failures' \in 0 .. MaxFailures
    BY <1>13, SlaAssumption DEF Tick, TypeOK, Order, Sweep, PCs, Statuses, Kinds, Time
  <2>2. order' \in [Orders -> Order]
    BY <1>13, SlaAssumption DEF Tick, TypeOK, Order, Sweep, PCs, Statuses, Kinds, Time
  <2>3. marked' \in [Kinds -> SUBSET Orders] /\ nobody' \in [Kinds -> SUBSET Orders]
    BY <1>13, SlaAssumption DEF Tick, TypeOK, Order, Sweep, PCs, Statuses, Kinds, Time,
       Eligible
  <2>4. told' \in [Kinds -> [Orders -> Nat]]
    BY <1>13, SlaAssumption DEF Tick, TypeOK, Order, Sweep, PCs, Statuses, Kinds, Time
  <2>5. sweep' \in [Sweepers -> Sweep]
    BY <1>13, SlaAssumption DEF Tick, TypeOK, Order, Sweep, PCs, Statuses, Kinds, Time,
       Eligible
  <2>6. QED
    BY <2>1, <2>2, <2>3, <2>4, <2>5 DEF TypeOK
<1>14. CASE UNCHANGED vars
  BY <1>14 DEF vars, TypeOK, Order, Sweep, PCs, Statuses, Kinds, Time, Eligible
<1>15. QED
  BY <1>1, <1>2, <1>3, <1>4, <1>5, <1>6, <1>7, <1>8, <1>9, <1>10, <1>11, <1>12, <1>13, <1>14
     DEF Next, Lifecycle, Work
\* Every step keeps who knows of what.
LEMMA ToldStep ==
    ASSUME TypeOK, TypeOK', Told, [Next]_vars
    PROVE  Told'
<1>1. ASSUME NEW o \in Orders, StampWorkOrderApproval(o)
      PROVE  Told'
  BY <1>1 DEF StampWorkOrderApproval, Told, OneHolder, HeldIsUntold, UnmarkedIsUntold, NobodyIsMarked, EmptyHands,
     LostOnlyByFailure, Holders
<1>2. ASSUME NEW o \in Orders, EmergencyStart(o)
      PROVE  Told'
  BY <1>2 DEF EmergencyStart, Told, OneHolder, HeldIsUntold, UnmarkedIsUntold, NobodyIsMarked, EmptyHands,
     LostOnlyByFailure, Holders
<1>3. ASSUME NEW o \in Orders, Advance(o)
      PROVE  Told'
  BY <1>3 DEF Advance, Told, OneHolder, HeldIsUntold, UnmarkedIsUntold, NobodyIsMarked, EmptyHands,
     LostOnlyByFailure, Holders
<1>4. ASSUME NEW o \in Orders, SoftDeleteWorkOrder(o)
      PROVE  Told'
  BY <1>4 DEF SoftDeleteWorkOrder, Told, OneHolder, HeldIsUntold, UnmarkedIsUntold, NobodyIsMarked, EmptyHands,
     LostOnlyByFailure, Holders
<1>5. ASSUME NEW o \in Orders, NEW u \in Users, AssignWorkOrder(o, u)
      PROVE  Told'
  BY <1>5 DEF AssignWorkOrder, Told, OneHolder, HeldIsUntold, UnmarkedIsUntold, NobodyIsMarked, EmptyHands,
     LostOnlyByFailure, Holders
<1>6. ASSUME NEW s \in Sweepers, EndTick(s)
      PROVE  Told'
  <2>1. \A k \in Kinds, o \in Orders : Holders(k, o)' = Holders(k, o)
    BY <1>6, SlaAssumption DEF EndTick, Told, OneHolder, HeldIsUntold, UnmarkedIsUntold,
       NobodyIsMarked, EmptyHands, LostOnlyByFailure, Holders, PcOf, TypeOK, Sweep, PCs, Kinds
  <2>2. OneHolder'
    BY <1>6, SlaAssumption, <2>1 DEF EndTick, Told, OneHolder, HeldIsUntold, UnmarkedIsUntold,
       NobodyIsMarked, EmptyHands, LostOnlyByFailure, PcOf, TypeOK, Sweep, PCs, Kinds
  <2>3. HeldIsUntold'
    BY <1>6, SlaAssumption, <2>1 DEF EndTick, Told, OneHolder, HeldIsUntold, UnmarkedIsUntold,
       NobodyIsMarked, EmptyHands, LostOnlyByFailure, PcOf, TypeOK, Sweep, PCs, Kinds
  <2>4. UnmarkedIsUntold'
    BY <1>6, SlaAssumption, <2>1 DEF EndTick, Told, OneHolder, HeldIsUntold, UnmarkedIsUntold,
       NobodyIsMarked, EmptyHands, LostOnlyByFailure, PcOf, TypeOK, Sweep, PCs, Kinds
  <2>5. NobodyIsMarked'
    BY <1>6, SlaAssumption, <2>1 DEF EndTick, Told, OneHolder, HeldIsUntold, UnmarkedIsUntold,
       NobodyIsMarked, EmptyHands, LostOnlyByFailure, PcOf, TypeOK, Sweep, PCs, Kinds
  <2>6. EmptyHands'
    BY <1>6, SlaAssumption, <2>1 DEF EndTick, Told, OneHolder, HeldIsUntold, UnmarkedIsUntold,
       NobodyIsMarked, EmptyHands, LostOnlyByFailure, PcOf, TypeOK, Sweep, PCs, Kinds
  <2>7. LostOnlyByFailure'
    BY <1>6, SlaAssumption, <2>1 DEF EndTick, Told, OneHolder, HeldIsUntold, UnmarkedIsUntold,
       NobodyIsMarked, EmptyHands, LostOnlyByFailure, PcOf, TypeOK, Sweep, PCs, Kinds
  <2>8. QED
    BY <2>1, <2>2, <2>3, <2>4, <2>5, <2>6, <2>7 DEF Told
<1>7. ASSUME NEW s \in Sweepers, NEW k \in Kinds, Mark(s, k)
      PROVE  Told'
  <2>1. sweep[s].hand = {}
    BY <1>7, SlaAssumption DEF Mark, Turn, NextTick, PcOf, Told, OneHolder, HeldIsUntold,
       UnmarkedIsUntold, NobodyIsMarked, EmptyHands, LostOnlyByFailure, Holders, TypeOK, Sweep,
       PCs, Kinds
  <2>2. \A q \in Kinds, x \in Orders :
         Holders(q, x)' = Holders(q, x) \cup
             IF q = k /\ x \in Eligible(k) /\ order[x].assignee # None THEN {s} ELSE {}
    BY <1>7, SlaAssumption, <2>1 DEF Mark, Turn, NextTick, PcOf, Told, OneHolder, HeldIsUntold,
       UnmarkedIsUntold, NobodyIsMarked, EmptyHands, LostOnlyByFailure, Holders, TypeOK, Sweep,
       PCs, Kinds
  <2>3. \A x \in Eligible(k) : x \notin marked[k] /\ Holders(k, x) = {} /\ told[k][x] = 0
    BY <1>7, SlaAssumption DEF Mark, Turn, NextTick, PcOf, Eligible, Told, OneHolder,
       HeldIsUntold, UnmarkedIsUntold, NobodyIsMarked, EmptyHands, LostOnlyByFailure, TypeOK,
       Sweep, PCs, Kinds
  <2>4. /\ told' = told /\ failures' = failures
       /\ \A q \in Kinds :
            /\ marked'[q] = marked[q] \cup IF q = k THEN Eligible(k) ELSE {}
            /\ nobody'[q] = nobody[q] \cup
                   IF q = k THEN {x \in Eligible(k) : order[x].assignee = None} ELSE {}
    BY <1>7, SlaAssumption DEF Mark, Turn, NextTick, PcOf, TypeOK
  <2>5. OneHolder'
    BY <1>7, SlaAssumption, <2>2, <2>3 DEF Mark, Turn, NextTick, PcOf, Told, OneHolder,
       HeldIsUntold, UnmarkedIsUntold, NobodyIsMarked, EmptyHands, LostOnlyByFailure, TypeOK,
       Sweep, PCs, Kinds
  <2>6. HeldIsUntold'
    <3> SUFFICES ASSUME NEW q \in Kinds, NEW x \in Orders, Holders(q, x)' # {}
                 PROVE  x \in marked'[q] /\ x \notin nobody'[q] /\ told'[q][x] = 0
      BY DEF HeldIsUntold
    <3>1. CASE q = k /\ x \in Eligible(k)
      <4>1. order[x].assignee # None /\ x \notin nobody[k]
        BY <2>2, <2>3, <3>1 DEF TypeOK, Told, NobodyIsMarked
      <4>2. QED
        BY <2>3, <2>4, <3>1, <4>1
    <3>2. CASE ~(q = k /\ x \in Eligible(k))
      <4>1. Holders(q, x) # {}
        BY <2>2, <3>2
      <4>2. QED
        BY <2>4, <3>2, <4>1 DEF Told, HeldIsUntold
    <3>3. QED
      BY <3>1, <3>2
  <2>7. UnmarkedIsUntold'
    BY <1>7, SlaAssumption, <2>2, <2>3 DEF Mark, Turn, NextTick, PcOf, Told, OneHolder,
       HeldIsUntold, UnmarkedIsUntold, NobodyIsMarked, EmptyHands, LostOnlyByFailure, TypeOK,
       Sweep, PCs, Kinds
  <2>8. NobodyIsMarked'
    BY <1>7, SlaAssumption, <2>2, <2>3 DEF Mark, Turn, NextTick, PcOf, Told, OneHolder,
       HeldIsUntold, UnmarkedIsUntold, NobodyIsMarked, EmptyHands, LostOnlyByFailure, TypeOK,
       Sweep, PCs, Kinds
  <2>9. EmptyHands'
    BY <1>7, SlaAssumption, <2>1 DEF Mark, Turn, NextTick, PcOf, Told, OneHolder, HeldIsUntold,
       UnmarkedIsUntold, NobodyIsMarked, EmptyHands, LostOnlyByFailure, Holders, TypeOK, Sweep,
       PCs, Kinds
  <2>10. LostOnlyByFailure'
    <3> SUFFICES ASSUME failures' = 0, NEW q \in Kinds, NEW x \in marked'[q],
                        x \notin nobody'[q]
                 PROVE  told'[q][x] = 1 \/ Holders(q, x)' # {}
      BY DEF LostOnlyByFailure
    <3>1. CASE q = k /\ x \in Eligible(k)
      BY <2>2, <2>4, <3>1 DEF Eligible
    <3>2. CASE ~(q = k /\ x \in Eligible(k))
      <4>1. x \in marked[q] \ nobody[q] /\ x \in Orders
        BY <2>4, <3>2 DEF TypeOK
      <4>2. QED
        BY <2>2, <2>4, <3>2, <4>1 DEF Told, LostOnlyByFailure
    <3>3. QED
      BY <3>1, <3>2
  <2>11. QED
    BY <2>1, <2>2, <2>3, <2>4, <2>5, <2>6, <2>7, <2>8, <2>9, <2>10 DEF Told
<1>8. ASSUME NEW s \in Sweepers, NEW k \in Kinds, MarkFails(s, k)
      PROVE  Told'
  <2>1. OneHolder'
    BY <1>8, SlaAssumption DEF MarkFails, Turn, NextTick, PcOf, Told, OneHolder, HeldIsUntold,
       UnmarkedIsUntold, NobodyIsMarked, EmptyHands, LostOnlyByFailure, Holders, TypeOK, Sweep,
       PCs, Kinds, Eligible
  <2>2. HeldIsUntold'
    BY <1>8, SlaAssumption DEF MarkFails, Turn, NextTick, PcOf, Told, OneHolder, HeldIsUntold,
       UnmarkedIsUntold, NobodyIsMarked, EmptyHands, LostOnlyByFailure, Holders, TypeOK, Sweep,
       PCs, Kinds, Eligible
  <2>3. UnmarkedIsUntold'
    BY <1>8, SlaAssumption DEF MarkFails, Turn, NextTick, PcOf, Told, OneHolder, HeldIsUntold,
       UnmarkedIsUntold, NobodyIsMarked, EmptyHands, LostOnlyByFailure, Holders, TypeOK, Sweep,
       PCs, Kinds, Eligible
  <2>4. NobodyIsMarked'
    BY <1>8, SlaAssumption DEF MarkFails, Turn, NextTick, PcOf, Told, OneHolder, HeldIsUntold,
       UnmarkedIsUntold, NobodyIsMarked, EmptyHands, LostOnlyByFailure, Holders, TypeOK, Sweep,
       PCs, Kinds, Eligible
  <2>5. EmptyHands'
    BY <1>8, SlaAssumption DEF MarkFails, Turn, NextTick, PcOf, Told, OneHolder, HeldIsUntold,
       UnmarkedIsUntold, NobodyIsMarked, EmptyHands, LostOnlyByFailure, Holders, TypeOK, Sweep,
       PCs, Kinds, Eligible
  <2>6. LostOnlyByFailure'
    BY <1>8, SlaAssumption DEF MarkFails, Turn, NextTick, PcOf, Told, OneHolder, HeldIsUntold,
       UnmarkedIsUntold, NobodyIsMarked, EmptyHands, LostOnlyByFailure, Holders, TypeOK, Sweep,
       PCs, Kinds, Eligible
  <2>7. QED
    BY <2>1, <2>2, <2>3, <2>4, <2>5, <2>6 DEF Told
<1>9. ASSUME NEW s \in Sweepers, NEW k \in Kinds, NEW o \in Orders, Tell(s, k, o)
      PROVE  Told'
  <2>1. \A q \in Kinds, x \in Orders :
         Holders(q, x)' = IF q = k /\ x = o THEN Holders(q, x) \ {s} ELSE Holders(q, x)
    BY <1>9, SlaAssumption DEF Tell, Drop, Holders, PcOf, Told, OneHolder, HeldIsUntold,
       UnmarkedIsUntold, NobodyIsMarked, EmptyHands, LostOnlyByFailure, TypeOK, Sweep, PCs,
       Kinds
  <2>2. Holders(k, o)' = {}
    BY <1>9, SlaAssumption, <2>1 DEF Tell, Drop, Holders, PcOf, Told, OneHolder, HeldIsUntold,
       UnmarkedIsUntold, NobodyIsMarked, EmptyHands, LostOnlyByFailure, TypeOK, Sweep, PCs,
       Kinds
  <2>3. OneHolder'
    BY <1>9, SlaAssumption, <2>1, <2>2 DEF Tell, Drop, Holders, PcOf, Told, OneHolder,
       HeldIsUntold, UnmarkedIsUntold, NobodyIsMarked, EmptyHands, LostOnlyByFailure, TypeOK,
       Sweep, PCs, Kinds
  <2>4. HeldIsUntold'
    BY <1>9, SlaAssumption, <2>1, <2>2 DEF Tell, Drop, Holders, PcOf, Told, OneHolder,
       HeldIsUntold, UnmarkedIsUntold, NobodyIsMarked, EmptyHands, LostOnlyByFailure, TypeOK,
       Sweep, PCs, Kinds
  <2>5. UnmarkedIsUntold'
    BY <1>9, SlaAssumption, <2>1, <2>2 DEF Tell, Drop, Holders, PcOf, Told, OneHolder,
       HeldIsUntold, UnmarkedIsUntold, NobodyIsMarked, EmptyHands, LostOnlyByFailure, TypeOK,
       Sweep, PCs, Kinds
  <2>6. NobodyIsMarked'
    BY <1>9, SlaAssumption, <2>1, <2>2 DEF Tell, Drop, Holders, PcOf, Told, OneHolder,
       HeldIsUntold, UnmarkedIsUntold, NobodyIsMarked, EmptyHands, LostOnlyByFailure, TypeOK,
       Sweep, PCs, Kinds
  <2>7. EmptyHands'
    BY <1>9, SlaAssumption, <2>1, <2>2 DEF Tell, Drop, Holders, PcOf, Told, OneHolder,
       HeldIsUntold, UnmarkedIsUntold, NobodyIsMarked, EmptyHands, LostOnlyByFailure, TypeOK,
       Sweep, PCs, Kinds
  <2>8. LostOnlyByFailure'
    BY <1>9, SlaAssumption, <2>1, <2>2 DEF Tell, Drop, Holders, PcOf, Told, OneHolder,
       HeldIsUntold, UnmarkedIsUntold, NobodyIsMarked, EmptyHands, LostOnlyByFailure, TypeOK,
       Sweep, PCs, Kinds
  <2>9. QED
    BY <2>1, <2>2, <2>3, <2>4, <2>5, <2>6, <2>7, <2>8 DEF Told
<1>10. ASSUME NEW s \in Sweepers, NEW k \in Kinds, NEW o \in Orders, TellFails(s, k, o)
       PROVE  Told'
  <2>1. OneHolder'
    BY <1>10, SlaAssumption DEF TellFails, Drop, Holders, PcOf, Told, OneHolder, HeldIsUntold,
       UnmarkedIsUntold, NobodyIsMarked, EmptyHands, LostOnlyByFailure, TypeOK, Sweep, PCs,
       Kinds, Eligible
  <2>2. HeldIsUntold'
    BY <1>10, SlaAssumption DEF TellFails, Drop, Holders, PcOf, Told, OneHolder, HeldIsUntold,
       UnmarkedIsUntold, NobodyIsMarked, EmptyHands, LostOnlyByFailure, TypeOK, Sweep, PCs,
       Kinds, Eligible
  <2>3. UnmarkedIsUntold'
    BY <1>10, SlaAssumption DEF TellFails, Drop, Holders, PcOf, Told, OneHolder, HeldIsUntold,
       UnmarkedIsUntold, NobodyIsMarked, EmptyHands, LostOnlyByFailure, TypeOK, Sweep, PCs,
       Kinds, Eligible
  <2>4. NobodyIsMarked'
    BY <1>10, SlaAssumption DEF TellFails, Drop, Holders, PcOf, Told, OneHolder, HeldIsUntold,
       UnmarkedIsUntold, NobodyIsMarked, EmptyHands, LostOnlyByFailure, TypeOK, Sweep, PCs,
       Kinds, Eligible
  <2>5. EmptyHands'
    BY <1>10, SlaAssumption DEF TellFails, Drop, Holders, PcOf, Told, OneHolder, HeldIsUntold,
       UnmarkedIsUntold, NobodyIsMarked, EmptyHands, LostOnlyByFailure, TypeOK, Sweep, PCs,
       Kinds, Eligible
  <2>6. LostOnlyByFailure'
    BY <1>10, SlaAssumption DEF TellFails, Drop, Holders, PcOf, Told, OneHolder, HeldIsUntold,
       UnmarkedIsUntold, NobodyIsMarked, EmptyHands, LostOnlyByFailure, TypeOK, Sweep, PCs,
       Kinds, Eligible
  <2>7. QED
    BY <2>1, <2>2, <2>3, <2>4, <2>5, <2>6 DEF Told
<1>11. ASSUME NEW s \in Sweepers, Die(s)
       PROVE  Told'
  <2>1. OneHolder'
    BY <1>11, SlaAssumption DEF Die, Told, OneHolder, HeldIsUntold, UnmarkedIsUntold,
       NobodyIsMarked, EmptyHands, LostOnlyByFailure, Holders, PcOf, TypeOK, Sweep, PCs, Kinds,
       Eligible
  <2>2. HeldIsUntold'
    BY <1>11, SlaAssumption DEF Die, Told, OneHolder, HeldIsUntold, UnmarkedIsUntold,
       NobodyIsMarked, EmptyHands, LostOnlyByFailure, Holders, PcOf, TypeOK, Sweep, PCs, Kinds,
       Eligible
  <2>3. UnmarkedIsUntold'
    BY <1>11, SlaAssumption DEF Die, Told, OneHolder, HeldIsUntold, UnmarkedIsUntold,
       NobodyIsMarked, EmptyHands, LostOnlyByFailure, Holders, PcOf, TypeOK, Sweep, PCs, Kinds,
       Eligible
  <2>4. NobodyIsMarked'
    BY <1>11, SlaAssumption DEF Die, Told, OneHolder, HeldIsUntold, UnmarkedIsUntold,
       NobodyIsMarked, EmptyHands, LostOnlyByFailure, Holders, PcOf, TypeOK, Sweep, PCs, Kinds,
       Eligible
  <2>5. EmptyHands'
    BY <1>11, SlaAssumption DEF Die, Told, OneHolder, HeldIsUntold, UnmarkedIsUntold,
       NobodyIsMarked, EmptyHands, LostOnlyByFailure, Holders, PcOf, TypeOK, Sweep, PCs, Kinds,
       Eligible
  <2>6. LostOnlyByFailure'
    BY <1>11, SlaAssumption DEF Die, Told, OneHolder, HeldIsUntold, UnmarkedIsUntold,
       NobodyIsMarked, EmptyHands, LostOnlyByFailure, Holders, PcOf, TypeOK, Sweep, PCs, Kinds,
       Eligible
  <2>7. QED
    BY <2>1, <2>2, <2>3, <2>4, <2>5, <2>6 DEF Told
<1>12. ASSUME NEW s \in Sweepers, StartSLAChecker(s)
       PROVE  Told'
  <2>1. \A k \in Kinds, o \in Orders : Holders(k, o)' = Holders(k, o)
    BY <1>12, SlaAssumption DEF StartSLAChecker, Fresh, Told, OneHolder, HeldIsUntold,
       UnmarkedIsUntold, NobodyIsMarked, EmptyHands, LostOnlyByFailure, Holders, PcOf, TypeOK,
       Sweep, PCs, Kinds
  <2>2. OneHolder'
    BY <1>12, SlaAssumption, <2>1 DEF StartSLAChecker, Fresh, Told, OneHolder, HeldIsUntold,
       UnmarkedIsUntold, NobodyIsMarked, EmptyHands, LostOnlyByFailure, PcOf, TypeOK, Sweep,
       PCs, Kinds
  <2>3. HeldIsUntold'
    BY <1>12, SlaAssumption, <2>1 DEF StartSLAChecker, Fresh, Told, OneHolder, HeldIsUntold,
       UnmarkedIsUntold, NobodyIsMarked, EmptyHands, LostOnlyByFailure, PcOf, TypeOK, Sweep,
       PCs, Kinds
  <2>4. UnmarkedIsUntold'
    BY <1>12, SlaAssumption, <2>1 DEF StartSLAChecker, Fresh, Told, OneHolder, HeldIsUntold,
       UnmarkedIsUntold, NobodyIsMarked, EmptyHands, LostOnlyByFailure, PcOf, TypeOK, Sweep,
       PCs, Kinds
  <2>5. NobodyIsMarked'
    BY <1>12, SlaAssumption, <2>1 DEF StartSLAChecker, Fresh, Told, OneHolder, HeldIsUntold,
       UnmarkedIsUntold, NobodyIsMarked, EmptyHands, LostOnlyByFailure, PcOf, TypeOK, Sweep,
       PCs, Kinds
  <2>6. EmptyHands'
    BY <1>12, SlaAssumption, <2>1 DEF StartSLAChecker, Fresh, Told, OneHolder, HeldIsUntold,
       UnmarkedIsUntold, NobodyIsMarked, EmptyHands, LostOnlyByFailure, PcOf, TypeOK, Sweep,
       PCs, Kinds
  <2>7. LostOnlyByFailure'
    BY <1>12, SlaAssumption, <2>1 DEF StartSLAChecker, Fresh, Told, OneHolder, HeldIsUntold,
       UnmarkedIsUntold, NobodyIsMarked, EmptyHands, LostOnlyByFailure, PcOf, TypeOK, Sweep,
       PCs, Kinds
  <2>8. QED
    BY <2>1, <2>2, <2>3, <2>4, <2>5, <2>6, <2>7 DEF Told
<1>13. CASE Tick
  BY <1>13 DEF Tick, Told, OneHolder, HeldIsUntold, UnmarkedIsUntold, NobodyIsMarked, EmptyHands,
     LostOnlyByFailure, Holders
<1>14. CASE UNCHANGED vars
  BY <1>14 DEF vars, Told, OneHolder, HeldIsUntold, UnmarkedIsUntold, NobodyIsMarked,
     EmptyHands, LostOnlyByFailure, Holders, PcOf, TypeOK, Sweep, PCs, Kinds, Eligible
<1>15. QED
  BY <1>1, <1>2, <1>3, <1>4, <1>5, <1>6, <1>7, <1>8, <1>9, <1>10, <1>11, <1>12, <1>13, <1>14
     DEF Next, Lifecycle, Work
\* Nothing but an approval writes approved_at and the deadline.
LEMMA FourStep ==
    ASSUME TypeOK, FourIntervals, [Next]_vars
    PROVE  FourIntervals'
<1>1. ASSUME NEW o \in Orders, StampWorkOrderApproval(o)
      PROVE  FourIntervals'
  BY <1>1, SlaAssumption DEF StampWorkOrderApproval, Place, SLADeadline, FourIntervals, Open,
     TypeOK, Order, Time
<1>2. ASSUME NEW o \in Orders, EmergencyStart(o)
      PROVE  FourIntervals'
  BY <1>2, SlaAssumption DEF EmergencyStart, Place, SLADeadline, FourIntervals, Open, TypeOK,
     Order, Time
<1>3. ASSUME NEW o \in Orders, Advance(o)
      PROVE  FourIntervals'
  <2>1. \A x \in Orders :
  /\ Open(x)' => Open(x)
  /\ order'[x].since = order[x].since /\ order'[x].due = order[x].due
    <3>1. PICK z \in {"in_progress", "completed"} :
             /\ order' = [order EXCEPT ![o] = [order[o] EXCEPT !.status = z]]
             /\ Open(o)
      BY <1>3 DEF Advance, Place, Open
    <3>2. QED
      BY <3>1 DEF Open, TypeOK, Order
  <2>2. FourIntervals'
    BY <1>3, SlaAssumption, <2>1 DEF Advance, Place, FourIntervals
  <2>3. QED
    BY <2>1, <2>2 DEF FourIntervals, Open, TypeOK, Order, Time
<1>4. ASSUME NEW o \in Orders, SoftDeleteWorkOrder(o)
      PROVE  FourIntervals'
  BY <1>4, SlaAssumption DEF SoftDeleteWorkOrder, Place, FourIntervals, Open, TypeOK, Order,
     Time
<1>5. ASSUME NEW o \in Orders, NEW u \in Users, AssignWorkOrder(o, u)
      PROVE  FourIntervals'
  BY <1>5, SlaAssumption DEF AssignWorkOrder, Place, FourIntervals, Open, TypeOK, Order, Time
<1>6. ASSUME NEW s \in Sweepers, EndTick(s)
      PROVE  FourIntervals'
  BY <1>6, SlaAssumption DEF EndTick, FourIntervals, Open, TypeOK, Order, Time
<1>7. ASSUME NEW s \in Sweepers, NEW k \in Kinds, Mark(s, k)
      PROVE  FourIntervals'
  BY <1>7, SlaAssumption DEF Mark, Turn, NextTick, PcOf, FourIntervals, Open, TypeOK, Order,
     Time
<1>8. ASSUME NEW s \in Sweepers, NEW k \in Kinds, MarkFails(s, k)
      PROVE  FourIntervals'
  BY <1>8, SlaAssumption DEF MarkFails, Turn, NextTick, PcOf, FourIntervals, Open, TypeOK,
     Order, Time
<1>9. ASSUME NEW s \in Sweepers, NEW k \in Kinds, NEW o \in Orders, Tell(s, k, o)
      PROVE  FourIntervals'
  BY <1>9, SlaAssumption DEF Tell, Drop, Holders, PcOf, FourIntervals, Open, TypeOK, Order,
     Time
<1>10. ASSUME NEW s \in Sweepers, NEW k \in Kinds, NEW o \in Orders, TellFails(s, k, o)
       PROVE  FourIntervals'
  BY <1>10, SlaAssumption DEF TellFails, Drop, Holders, PcOf, FourIntervals, Open, TypeOK,
     Order, Time
<1>11. ASSUME NEW s \in Sweepers, Die(s)
       PROVE  FourIntervals'
  BY <1>11, SlaAssumption DEF Die, FourIntervals, Open, TypeOK, Order, Time
<1>12. ASSUME NEW s \in Sweepers, StartSLAChecker(s)
       PROVE  FourIntervals'
  BY <1>12, SlaAssumption DEF StartSLAChecker, Fresh, FourIntervals, Open, TypeOK, Order, Time
<1>13. CASE Tick
  BY <1>13, SlaAssumption DEF Tick, FourIntervals, Open, TypeOK, Order, Time
<1>14. CASE UNCHANGED vars
  BY <1>14 DEF vars, FourIntervals, Open, TypeOK, Order, Time
<1>15. QED
  BY <1>1, <1>2, <1>3, <1>4, <1>5, <1>6, <1>7, <1>8, <1>9, <1>10, <1>11, <1>12, <1>13, <1>14
     DEF Next, Lifecycle, Work
\* What the last tick of every sweeper has seen.
LEMMA TimelyStep ==
    ASSUME TypeOK, TypeOK', FourIntervals, EmptyHands, Timely, [Next]_vars
    PROVE  Timely'
<1>1. ASSUME NEW o \in Orders, StampWorkOrderApproval(o)
      PROVE  Timely'
  BY <1>1, SlaAssumption DEF StampWorkOrderApproval, Place, SLADeadline, Timely, LastTick,
     Open, FourIntervals, TypeOK, Order, Sweep, PCs, Statuses, Kinds, Time, EmptyHands,
     Eligible, Closing, Overdue, OnTime
<1>2. ASSUME NEW o \in Orders, EmergencyStart(o)
      PROVE  Timely'
  BY <1>2, SlaAssumption DEF EmergencyStart, Place, SLADeadline, Timely, LastTick, Open,
     FourIntervals, TypeOK, Order, Sweep, PCs, Statuses, Kinds, Time, EmptyHands, Eligible,
     Closing, Overdue, OnTime
<1>3. ASSUME NEW o \in Orders, Advance(o)
      PROVE  Timely'
  <2>1. \A x \in Orders :
  /\ Open(x)' => Open(x)
  /\ order'[x].since = order[x].since /\ order'[x].due = order[x].due
    <3>1. PICK z \in {"in_progress", "completed"} :
             /\ order' = [order EXCEPT ![o] = [order[o] EXCEPT !.status = z]]
             /\ Open(o)
      BY <1>3 DEF Advance, Place, Open
    <3>2. QED
      BY <3>1 DEF Open, TypeOK, Order
  <2>2. Timely'
    BY <1>3, SlaAssumption, <2>1 DEF Advance, Place, Timely, LastTick
  <2>3. QED
    BY <2>1, <2>2 DEF Timely, LastTick, Open, FourIntervals, TypeOK, Order, Sweep, PCs,
       Statuses, Kinds, Time, EmptyHands, Eligible, Closing, Overdue, OnTime
<1>4. ASSUME NEW o \in Orders, SoftDeleteWorkOrder(o)
      PROVE  Timely'
  BY <1>4, SlaAssumption DEF SoftDeleteWorkOrder, Place, Timely, LastTick, Open, FourIntervals,
     TypeOK, Order, Sweep, PCs, Statuses, Kinds, Time, EmptyHands, Eligible, Closing, Overdue,
     OnTime
<1>5. ASSUME NEW o \in Orders, NEW u \in Users, AssignWorkOrder(o, u)
      PROVE  Timely'
  BY <1>5, SlaAssumption DEF AssignWorkOrder, Place, Timely, LastTick, Open, FourIntervals,
     TypeOK, Order, Sweep, PCs, Statuses, Kinds, Time, EmptyHands, Eligible, Closing, Overdue,
     OnTime
<1>6. ASSUME NEW s \in Sweepers, EndTick(s)
      PROVE  Timely'
  BY <1>6, SlaAssumption DEF EndTick, Timely, LastTick, Open, FourIntervals, TypeOK, Order,
     Sweep, PCs, Statuses, Kinds, Time, EmptyHands, Eligible, Closing, Overdue, OnTime
<1>7. ASSUME NEW s \in Sweepers, NEW k \in Kinds, Mark(s, k)
      PROVE  Timely'
  <2> SUFFICES ASSUME failures = 0, NEW t \in Sweepers
               PROVE  /\ sweep'[t].pc # "down"
                      /\ now <= sweep'[t].next
                      /\ LastTick(t)' <= now
                      /\ sweep'[t].pc = "breach" => now + Interval = sweep'[t].next
                      /\ \A o \in Orders :
                            Open(o) /\ 3 * order[o].due + order[o].since < 4 * LastTick(t)'
                                => o \in marked'["sla_warning"]
    BY <1>7 DEF Timely, Mark, Open
  <2>1. marked["sla_warning"] \subseteq marked'["sla_warning"]
    BY <1>7 DEF Mark, TypeOK, Kinds
  <2>2. CASE t # s
    <3>1. sweep'[t] = sweep[t] /\ LastTick(t)' = LastTick(t)
      BY <1>7, <2>2 DEF Mark, TypeOK, LastTick
    <3>2. QED
      BY <2>1, <3>1 DEF Timely
  <2>3. CASE t = s /\ k = "sla_breach"
    <3>1. /\ sweep[s].pc = "waiting" /\ sweep[s].next = now
          /\ sweep'[s].pc = "breach" /\ sweep'[s].next = now + Interval
      <4>1. now <= sweep[s].next
        BY DEF Timely
      <4>2. /\ sweep[s].pc = "waiting" /\ sweep[s].next <= now
            /\ sweep'[s].pc = "breach" /\ sweep'[s].next = now + Interval
        BY <1>7, <2>3 DEF Mark, Turn, NextTick, PcOf, TypeOK
      <4>3. now \in Nat /\ sweep[s].next \in Nat
        BY SlaAssumption DEF TypeOK, Sweep, Time
      <4>4. QED
        BY <4>1, <4>2, <4>3
    <3>2. LastTick(s)' = LastTick(s) /\ LastTick(s) = now - Interval
      BY <3>1, SlaAssumption DEF LastTick, TypeOK, Time
    <3>3. QED
      BY <2>1, <2>3, <3>1, <3>2, SlaAssumption DEF Timely, TypeOK, Time
  <2>4. CASE t = s /\ k = "sla_warning"
    <3>1. /\ sweep[s].pc = "breach" /\ sweep'[s].pc = "warn"
          /\ sweep'[s].next = sweep[s].next /\ sweep[s].next = now + Interval
      BY <1>7, <2>4 DEF Mark, Turn, NextTick, PcOf, Timely, TypeOK
    <3>2. LastTick(s)' = now
      BY <3>1, SlaAssumption DEF LastTick, TypeOK, Time
    <3>3. Eligible(k) \subseteq marked'["sla_warning"]
      BY <1>7, <2>4 DEF Mark, TypeOK, Kinds
    <3>4. \A o \in Orders : Closing(o) => o \in marked'["sla_warning"]
      BY <2>1, <2>4, <3>3 DEF Eligible
    <3>5. QED
      BY <2>4, <3>1, <3>2, <3>4, SlaAssumption DEF Closing, TypeOK, Time
  <2>5. QED
    BY <2>2, <2>3, <2>4 DEF Kinds
<1>8. ASSUME NEW s \in Sweepers, NEW k \in Kinds, MarkFails(s, k)
      PROVE  Timely'
  BY <1>8, SlaAssumption DEF MarkFails, Turn, NextTick, PcOf, Timely, LastTick, Open,
     FourIntervals, TypeOK, Order, Sweep, PCs, Statuses, Kinds, Time, EmptyHands, Eligible,
     Closing, Overdue, OnTime
<1>9. ASSUME NEW s \in Sweepers, NEW k \in Kinds, NEW o \in Orders, Tell(s, k, o)
      PROVE  Timely'
  BY <1>9, SlaAssumption DEF Tell, Drop, Holders, PcOf, Timely, LastTick, Open, FourIntervals,
     TypeOK, Order, Sweep, PCs, Statuses, Kinds, Time, EmptyHands, Eligible, Closing, Overdue,
     OnTime
<1>10. ASSUME NEW s \in Sweepers, NEW k \in Kinds, NEW o \in Orders, TellFails(s, k, o)
       PROVE  Timely'
  BY <1>10, SlaAssumption DEF TellFails, Drop, Holders, PcOf, Timely, LastTick, Open,
     FourIntervals, TypeOK, Order, Sweep, PCs, Statuses, Kinds, Time, EmptyHands, Eligible,
     Closing, Overdue, OnTime
<1>11. ASSUME NEW s \in Sweepers, Die(s)
       PROVE  Timely'
  BY <1>11, SlaAssumption DEF Die, Timely, LastTick, Open, FourIntervals, TypeOK, Order, Sweep,
     PCs, Statuses, Kinds, Time, EmptyHands, Eligible, Closing, Overdue, OnTime
<1>12. ASSUME NEW s \in Sweepers, StartSLAChecker(s)
       PROVE  Timely'
  BY <1>12, SlaAssumption DEF StartSLAChecker, Fresh, Timely, LastTick, Open, FourIntervals,
     TypeOK, Order, Sweep, PCs, Statuses, Kinds, Time, EmptyHands, Eligible, Closing, Overdue,
     OnTime
<1>13. CASE Tick
  BY <1>13, SlaAssumption DEF Tick, Timely, LastTick, Open, FourIntervals, TypeOK, Order,
     Sweep, PCs, Statuses, Kinds, Time, EmptyHands, Eligible, Closing, Overdue, OnTime
<1>14. CASE UNCHANGED vars
  BY <1>14 DEF vars, Timely, LastTick, Open, FourIntervals, TypeOK, Order, Sweep, PCs,
     Statuses, Kinds, Time, EmptyHands, Eligible, Closing, Overdue, OnTime
<1>15. QED
  BY <1>1, <1>2, <1>3, <1>4, <1>5, <1>6, <1>7, <1>8, <1>9, <1>10, <1>11, <1>12, <1>13, <1>14
     DEF Next, Lifecycle, Work
\* An order that is overdue at a tick was in its last quarter at the tick before.
LEMMA WarnedStep ==
    ASSUME TypeOK, FourIntervals, Timely, WarnedBeforeBreached, [Next]_vars
    PROVE  WarnedBeforeBreached'
<1>1. ASSUME NEW o \in Orders, StampWorkOrderApproval(o)
      PROVE  WarnedBeforeBreached'
  BY <1>1, SlaAssumption DEF StampWorkOrderApproval, Place, SLADeadline, WarnedBeforeBreached,
     Kinds, Eligible, Overdue, TypeOK, Timely, LastTick, Open, FourIntervals, Order, Sweep,
     Time
<1>2. ASSUME NEW o \in Orders, EmergencyStart(o)
      PROVE  WarnedBeforeBreached'
  BY <1>2, SlaAssumption DEF EmergencyStart, Place, SLADeadline, WarnedBeforeBreached, Kinds,
     Eligible, Overdue, TypeOK, Timely, LastTick, Open, FourIntervals, Order, Sweep, Time
<1>3. ASSUME NEW o \in Orders, Advance(o)
      PROVE  WarnedBeforeBreached'
  BY <1>3, SlaAssumption DEF Advance, Place, WarnedBeforeBreached, Kinds, Eligible, Overdue,
     TypeOK, Timely, LastTick, Open, FourIntervals, Order, Sweep, Time
<1>4. ASSUME NEW o \in Orders, SoftDeleteWorkOrder(o)
      PROVE  WarnedBeforeBreached'
  BY <1>4, SlaAssumption DEF SoftDeleteWorkOrder, Place, WarnedBeforeBreached, Kinds, Eligible,
     Overdue, TypeOK, Timely, LastTick, Open, FourIntervals, Order, Sweep, Time
<1>5. ASSUME NEW o \in Orders, NEW u \in Users, AssignWorkOrder(o, u)
      PROVE  WarnedBeforeBreached'
  BY <1>5, SlaAssumption DEF AssignWorkOrder, Place, WarnedBeforeBreached, Kinds, Eligible,
     Overdue, TypeOK, Timely, LastTick, Open, FourIntervals, Order, Sweep, Time
<1>6. ASSUME NEW s \in Sweepers, EndTick(s)
      PROVE  WarnedBeforeBreached'
  BY <1>6, SlaAssumption DEF EndTick, WarnedBeforeBreached, Kinds, Eligible, Overdue, TypeOK,
     Timely, LastTick, Open, FourIntervals, Order, Sweep, Time
<1>7. ASSUME NEW s \in Sweepers, NEW k \in Kinds, Mark(s, k)
      PROVE  WarnedBeforeBreached'
  BY <1>7, SlaAssumption DEF Mark, Turn, NextTick, PcOf, WarnedBeforeBreached, Kinds, Eligible,
     Overdue, TypeOK, Timely, LastTick, Open, FourIntervals, Order, Sweep, Time
<1>8. ASSUME NEW s \in Sweepers, NEW k \in Kinds, MarkFails(s, k)
      PROVE  WarnedBeforeBreached'
  BY <1>8, SlaAssumption DEF MarkFails, Turn, NextTick, PcOf, WarnedBeforeBreached, Kinds,
     Eligible, Overdue, TypeOK, Timely, LastTick, Open, FourIntervals, Order, Sweep, Time
<1>9. ASSUME NEW s \in Sweepers, NEW k \in Kinds, NEW o \in Orders, Tell(s, k, o)
      PROVE  WarnedBeforeBreached'
  BY <1>9, SlaAssumption DEF Tell, Drop, Holders, PcOf, WarnedBeforeBreached, Kinds, Eligible,
     Overdue, TypeOK, Timely, LastTick, Open, FourIntervals, Order, Sweep, Time
<1>10. ASSUME NEW s \in Sweepers, NEW k \in Kinds, NEW o \in Orders, TellFails(s, k, o)
       PROVE  WarnedBeforeBreached'
  BY <1>10, SlaAssumption DEF TellFails, Drop, Holders, PcOf, WarnedBeforeBreached, Kinds,
     Eligible, Overdue, TypeOK, Timely, LastTick, Open, FourIntervals, Order, Sweep, Time
<1>11. ASSUME NEW s \in Sweepers, Die(s)
       PROVE  WarnedBeforeBreached'
  BY <1>11, SlaAssumption DEF Die, WarnedBeforeBreached, Kinds, Eligible, Overdue, TypeOK,
     Timely, LastTick, Open, FourIntervals, Order, Sweep, Time
<1>12. ASSUME NEW s \in Sweepers, StartSLAChecker(s)
       PROVE  WarnedBeforeBreached'
  BY <1>12, SlaAssumption DEF StartSLAChecker, Fresh, WarnedBeforeBreached, Kinds, Eligible,
     Overdue, TypeOK, Timely, LastTick, Open, FourIntervals, Order, Sweep, Time
<1>13. CASE Tick
  BY <1>13, SlaAssumption DEF Tick, WarnedBeforeBreached, Kinds, Eligible, Overdue, TypeOK,
     Timely, LastTick, Open, FourIntervals, Order, Sweep, Time
<1>14. CASE UNCHANGED vars
  BY <1>14 DEF vars, WarnedBeforeBreached, Kinds, Eligible, Overdue, TypeOK, Timely, LastTick,
     Open, FourIntervals, Order, Sweep, Time
<1>15. QED
  BY <1>1, <1>2, <1>3, <1>4, <1>5, <1>6, <1>7, <1>8, <1>9, <1>10, <1>11, <1>12, <1>13, <1>14
     DEF Next, Lifecycle, Work
------------------------------------------------------------------------------
\* The first state satisfies the invariant.
LEMMA InitIInv == ASSUME Init PROVE IInv
<1>1. TypeOK
  BY SlaAssumption DEF Init, TypeOK, Order, Sweep, PCs, Statuses, Kinds, Time
<1>2. Told
  BY DEF Init, Told, OneHolder, HeldIsUntold, UnmarkedIsUntold, NobodyIsMarked,
         EmptyHands, LostOnlyByFailure, Holders, PcOf, Kinds
<1>3. FourIntervals
  BY DEF Init, FourIntervals, Open
<1>4. Timely
  BY SlaAssumption DEF Init, Timely, LastTick, Open
<1>5. WarnedBeforeBreached
  BY DEF Init, WarnedBeforeBreached, Kinds
<1>6. QED
  BY <1>1, <1>2, <1>3, <1>4, <1>5 DEF IInv

\* The invariant is inductive.
THEOREM Safety == Spec => []IInv
<1>1. Init => IInv
  BY InitIInv
<1>2. IInv /\ [Next]_vars => IInv'
  <2> SUFFICES ASSUME IInv, [Next]_vars PROVE IInv'
    OBVIOUS
  <2>1. TypeOK'
    BY TypeStep DEF IInv
  <2>2. Told'
    BY <2>1, ToldStep DEF IInv
  <2>3. FourIntervals'
    BY FourStep DEF IInv
  <2>4. Timely'
    BY <2>1, TimelyStep DEF IInv, Told
  <2>5. WarnedBeforeBreached'
    BY WarnedStep DEF IInv
  <2>6. QED
    BY <2>1, <2>2, <2>3, <2>4, <2>5 DEF IInv
<1>3. QED
  BY <1>1, <1>2, PTL DEF Spec

\* The tables and the sweepers keep their types.
THEOREM TypeCorrect == Spec => []TypeOK
<1>1. IInv => TypeOK
  BY DEF IInv
<1>2. QED
  BY <1>1, Safety, PTL

\* No assignee is told twice of a breach or a warning, however many replicas
\* sweep and whatever dies between the mark and the notice.
THEOREM OneNotice == Spec => []ToldAtMostOnce
<1>1. IInv => ToldAtMostOnce
  BY DEF IInv, Told, UnmarkedIsUntold, ToldAtMostOnce
<1>2. QED
  BY <1>1, Safety, PTL

\* Without a failure every marked order with an assignee is reported or about
\* to be.
THEOREM NoSilentMark == Spec => []LostOnlyByFailure
<1>1. IInv => LostOnlyByFailure
  BY DEF IInv, Told
<1>2. QED
  BY <1>1, Safety, PTL

\* With ticks on time and no failure, a quarter of the shortest SLA is long
\* enough for the warning to come before the breach.
THEOREM WarningFirst == Spec => []WarnedBeforeBreached
<1>1. IInv => WarnedBeforeBreached
  BY DEF IInv
<1>2. QED
  BY <1>1, Safety, PTL

\* Breaches and warnings are told once: never twice, and not at all only after a
\* failure.
THEOREM ExactNotices == Spec => []NoticesAreExact
<1>1. ToldAtMostOnce /\ LostOnlyByFailure => NoticesAreExact
  BY DEF NoticesAreExact
<1>2. QED
  BY <1>1, OneNotice, NoSilentMark, PTL

------------------------------------------------------------------------------
(***************************************************************************)
(* The timeline of an incident, for any responders, any interleaving of    *)
(* their transactions and any failure.                                     *)
(*                                                                         *)
(* The columns of an incident are rewritten and its comments only grow,    *)
(* so the present values alone do not carry the proof. TimelineInv: what   *)
(* has committed was stamped before the last commit (StampsArePast), the   *)
(* row belongs to one transaction at a time (OneUpdater), what that one    *)
(* has written will agree with the comments once its own is there          *)
(* (PendingIsSound), as the row does now (RowIsSound), and after a commit  *)
(* in order the youngest comment is that of the status (YoungestTells).    *)
(***************************************************************************)

IncidentRow ==
    [status : IncidentStatus, acknowledged : Nat \cup {NoTime}, resolved : Nat \cup {NoTime},
     born : BOOLEAN, severity : Severities]
Comments == [at : Nat, says : IncidentStatus]
Begun == [at : {"begun"}, stamp : Nat]
Updated == [at : {"updated"}, stamp : Nat, row : IncidentRow, says : IncidentStatus]

TimelineTypeOK ==
    /\ incident \in IncidentRow
    /\ comments \subseteq Comments /\ IsFiniteSet(comments)
    /\ move \in [Responders -> {NoMove} \cup Begun \cup Updated]
    /\ moment \in Nat
    /\ settledAt \in [time : Nat, inOrder : BOOLEAN]

\* Whatever has committed was stamped before the last commit, and that has passed.
StampsArePast ==
    /\ settledAt.time <= moment
    /\ \A c \in comments : c.at < settledAt.time
    /\ \A p \in Responders : move[p] # NoMove => move[p].stamp <= moment

\* The row belongs to one transaction at a time.
OneUpdater == \A p, q \in Responders : move[p].at = "updated" /\ move[q].at = "updated" => p = q

\* The times of a row that agree with its status and with the comments said.
RowIsSound(row, said) ==
    /\ row.born \/ (row.resolved # NoTime <=> row.status \in {"resolved", "closed"})
    /\ row.born \/ (row.status \in {"acknowledged", "investigating"} => row.acknowledged # NoTime)
    /\ row.resolved # NoTime => [at |-> row.resolved, says |-> "resolved"] \in said
    /\ row.acknowledged # NoTime => [at |-> row.acknowledged, says |-> "acknowledged"] \in said

\* What a transaction has written will be sound once its comment is there.
PendingIsSound ==
    \A p \in Responders : move[p].at = "updated" =>
        /\ move[p].row.status = move[p].says
        /\ RowIsSound(move[p].row, comments \cup {[at |-> move[p].stamp, says |-> move[p].says]})

\* After a commit in order, the comment of the status is younger than every other.
YoungestTells ==
    comments # {} /\ settledAt.inOrder =>
        \E c \in comments : c.says = incident.status /\ \A d \in comments \ {c} : d.at < c.at

TimelineInv == /\ TimelineTypeOK /\ StampsArePast /\ OneUpdater /\ PendingIsSound /\ YoungestTells
               /\ RowIsSound(incident, comments)

\* The youngest comment is the one the timeline lists last.
LEMMA YoungestIsListedLast ==
    ASSUME IsFiniteSet(comments), comments \subseteq Comments, NEW c \in comments,
           \A d \in comments \ {c} : d.at < c.at
    PROVE  LatestComment = c
<1> DEFINE Older(e) == {d \in comments : d.at < e.at}
           n == Cardinality(comments)
<1>1. n \in Nat /\ \A e \in comments : e.at \in Nat
  BY FS_CardinalityType DEF Comments
<1>2. Cardinality(comments \ {c}) = n - 1
  BY FS_RemoveElement
<1>3. Older(c) = comments \ {c}
  BY <1>1
<1>4. Cardinality(Older(c)) = n - 1
  BY <1>2, <1>3
<1>5. ASSUME NEW e \in comments, Cardinality(Older(e)) = n - 1
      PROVE  e = c
  <2> SUFFICES ASSUME e # c PROVE FALSE
    OBVIOUS
  <2>1. Older(e) \subseteq (comments \ {c}) \ {e}
    BY <1>1
  <2>2. IsFiniteSet(comments \ {c}) /\ e \in comments \ {c}
    BY FS_RemoveElement
  <2>3. IsFiniteSet((comments \ {c}) \ {e}) /\ Cardinality((comments \ {c}) \ {e}) = Cardinality(comments \ {c}) - 1
    BY <2>2, FS_RemoveElement
  <2>4. Cardinality(Older(e)) <= Cardinality((comments \ {c}) \ {e})
    BY <2>1, <2>3, FS_Subset
  <2>5. QED
    BY <1>1, <1>2, <1>5, <2>3, <2>4
<1>6. QED
  BY <1>4, <1>5 DEF LatestComment, ListIncidentComments

\* What the five statements make of a sound row they accept, once their comment is there.
LEMMA UpdatesAreSound ==
    ASSUME NEW row \in IncidentRow, NEW t \in Nat, NEW said, RowIsSound(row, said)
    PROVE  /\ row.status \in AcknowledgeFrom =>
                 /\ AcknowledgeRow(row, t) \in IncidentRow /\ AcknowledgeRow(row, t).status = "acknowledged"
                 /\ RowIsSound(AcknowledgeRow(row, t), said \cup {[at |-> t, says |-> "acknowledged"]})
           /\ row.status \in InvestigateFrom =>
                 /\ InvestigateRow(row) \in IncidentRow /\ InvestigateRow(row).status = "investigating"
                 /\ RowIsSound(InvestigateRow(row), said \cup {[at |-> t, says |-> "investigating"]})
           /\ row.status \in ResolveFrom =>
                 /\ ResolveRow(row, t) \in IncidentRow /\ ResolveRow(row, t).status = "resolved"
                 /\ RowIsSound(ResolveRow(row, t), said \cup {[at |-> t, says |-> "resolved"]})
           /\ row.status \in CloseFrom =>
                 /\ CloseRow(row) \in IncidentRow /\ CloseRow(row).status = "closed"
                 /\ RowIsSound(CloseRow(row), said \cup {[at |-> t, says |-> "closed"]})
           /\ row.status \in ReopenFrom =>
                 /\ ReopenRow(row) \in IncidentRow /\ ReopenRow(row).status = "open"
                 /\ RowIsSound(ReopenRow(row), said \cup {[at |-> t, says |-> "open"]})
<1>1. AcknowledgeRow(row, t) = [status |-> "acknowledged", acknowledged |-> t, resolved |-> row.resolved,
                                born |-> row.born, severity |-> row.severity]
  <2> DEFINE u == [row EXCEPT !.status = "acknowledged"]
  <2>1. AcknowledgeRow(row, t) = [u EXCEPT !.acknowledged = t]
    BY DEF AcknowledgeRow
  <2>2. u = [status |-> "acknowledged", acknowledged |-> row.acknowledged, resolved |-> row.resolved,
                  born |-> row.born, severity |-> row.severity]
    BY DEF IncidentRow
  <2> HIDE DEF u
  <2>3. QED
    BY <2>1, <2>2
<1>2. InvestigateRow(row) = [status |-> "investigating", acknowledged |-> row.acknowledged,
                             resolved |-> row.resolved, born |-> row.born, severity |-> row.severity]
  BY DEF InvestigateRow, IncidentRow
<1>3. ResolveRow(row, t) = [status |-> "resolved", acknowledged |-> row.acknowledged, resolved |-> t,
                            born |-> FALSE, severity |-> row.severity]
  <2> DEFINE u == [row EXCEPT !.status = "resolved"]
             v == [u EXCEPT !.resolved = t]
  <2>1. ResolveRow(row, t) = [v EXCEPT !.born = FALSE]
    BY DEF ResolveRow
  <2>2. u = [status |-> "resolved", acknowledged |-> row.acknowledged, resolved |-> row.resolved,
                  born |-> row.born, severity |-> row.severity]
    BY DEF IncidentRow
  <2>3. v = [status |-> "resolved", acknowledged |-> row.acknowledged, resolved |-> t,
                  born |-> row.born, severity |-> row.severity]
    <3>1. v = [u EXCEPT !.resolved = t]
      OBVIOUS
    <3> HIDE DEF u, v
    <3>2. QED
      BY <2>2, <3>1
  <2> HIDE DEF u, v
  <2>4. QED
    BY <2>1, <2>3
<1>4. CloseRow(row) = [status |-> "closed", acknowledged |-> row.acknowledged, resolved |-> row.resolved,
                       born |-> row.born, severity |-> row.severity]
  BY DEF CloseRow, IncidentRow
<1>5. ReopenRow(row) = [status |-> "open", acknowledged |-> row.acknowledged, resolved |-> NoTime,
                        born |-> FALSE, severity |-> row.severity]
  <2> DEFINE u == [row EXCEPT !.status = "open"]
             v == [u EXCEPT !.resolved = NoTime]
  <2>1. ReopenRow(row) = [v EXCEPT !.born = FALSE]
    BY DEF ReopenRow
  <2>2. u = [status |-> "open", acknowledged |-> row.acknowledged, resolved |-> row.resolved,
                  born |-> row.born, severity |-> row.severity]
    BY DEF IncidentRow
  <2>3. v = [status |-> "open", acknowledged |-> row.acknowledged, resolved |-> NoTime,
                  born |-> row.born, severity |-> row.severity]
    <3>1. v = [u EXCEPT !.resolved = NoTime]
      OBVIOUS
    <3> HIDE DEF u, v
    <3>2. QED
      BY <2>2, <3>1
  <2> HIDE DEF u, v
  <2>4. QED
    BY <2>1, <2>3
<1>6. /\ row.acknowledged \in Nat \cup {NoTime} /\ row.resolved \in Nat \cup {NoTime} /\ row.born \in BOOLEAN
      /\ row.severity \in Severities /\ t # NoTime
  BY TimelineAssumption DEF IncidentRow
<1>7. ASSUME row.status \in AcknowledgeFrom
      PROVE  /\ AcknowledgeRow(row, t) \in IncidentRow /\ AcknowledgeRow(row, t).status = "acknowledged"
             /\ RowIsSound(AcknowledgeRow(row, t), said \cup {[at |-> t, says |-> "acknowledged"]})
  <2>1. AcknowledgeRow(row, t) \in IncidentRow
    BY <1>1, <1>6 DEF IncidentRow, IncidentStatus
  <2>2. QED
    BY <1>1, <1>6, <1>7, <2>1 DEF RowIsSound, AcknowledgeFrom
<1>8. ASSUME row.status \in InvestigateFrom
      PROVE  /\ InvestigateRow(row) \in IncidentRow /\ InvestigateRow(row).status = "investigating"
             /\ RowIsSound(InvestigateRow(row), said \cup {[at |-> t, says |-> "investigating"]})
  <2>1. InvestigateRow(row) \in IncidentRow
    BY <1>2, <1>6 DEF IncidentRow, IncidentStatus
  <2>2. QED
    BY <1>2, <1>6, <1>8, <2>1 DEF RowIsSound, InvestigateFrom
<1>9. ASSUME row.status \in ResolveFrom
      PROVE  /\ ResolveRow(row, t) \in IncidentRow /\ ResolveRow(row, t).status = "resolved"
             /\ RowIsSound(ResolveRow(row, t), said \cup {[at |-> t, says |-> "resolved"]})
  <2>1. ResolveRow(row, t) \in IncidentRow
    BY <1>3, <1>6 DEF IncidentRow, IncidentStatus
  <2>2. QED
    BY <1>3, <1>6, <1>9, <2>1 DEF RowIsSound, ResolveFrom
<1>10. ASSUME row.status \in CloseFrom
       PROVE  /\ CloseRow(row) \in IncidentRow /\ CloseRow(row).status = "closed"
              /\ RowIsSound(CloseRow(row), said \cup {[at |-> t, says |-> "closed"]})
  <2>1. CloseRow(row) \in IncidentRow
    BY <1>4, <1>6 DEF IncidentRow, IncidentStatus
  <2>2. QED
    BY <1>4, <1>6, <1>10, <2>1 DEF RowIsSound, CloseFrom
<1>11. ASSUME row.status \in ReopenFrom
       PROVE  /\ ReopenRow(row) \in IncidentRow /\ ReopenRow(row).status = "open"
              /\ RowIsSound(ReopenRow(row), said \cup {[at |-> t, says |-> "open"]})
  <2>1. ReopenRow(row) \in IncidentRow
    BY <1>5, <1>6 DEF IncidentRow, IncidentStatus
  <2>2. QED
    BY <1>5, <1>6, <1>11, <2>1 DEF RowIsSound, ReopenFrom
<1>12. QED
  BY <1>7, <1>8, <1>9, <1>10, <1>11

\* A transaction that ends without a commit leaves everything as it was.
LEMMA DroppedKeeps ==
    ASSUME TimelineInv, NEW p \in Responders, move' = [move EXCEPT ![p] = NoMove],
           incident' = incident, comments' = comments, moment' = moment, settledAt' = settledAt
    PROVE  TimelineInv'
<1>1. /\ move' \in [Responders -> {NoMove} \cup Begun \cup Updated] /\ move'[p] = NoMove
      /\ \A q \in Responders \ {p} : move'[q] = move[q]
  BY DEF TimelineInv, TimelineTypeOK
<1>2. NoMove.at # "updated"
  BY DEF NoMove
<1>3. TimelineTypeOK'
  BY <1>1 DEF TimelineInv, TimelineTypeOK
<1>4. StampsArePast' /\ OneUpdater'
  BY <1>1, <1>2 DEF TimelineInv, StampsArePast, OneUpdater
<1>5. PendingIsSound'
  BY <1>1, <1>2 DEF TimelineInv, PendingIsSound, RowIsSound
<1>6. YoungestTells' /\ RowIsSound(incident, comments)'
  BY DEF TimelineInv, YoungestTells, RowIsSound
<1>7. QED
  BY <1>3, <1>4, <1>5, <1>6 DEF TimelineInv

\* An UPDATE that finds its row leaves a sound one pending; one that does not leaves nothing.
LEMMA UpdateKeeps ==
    ASSUME TimelineInv, NEW p \in Responders, NEW from, NEW row, NEW says \in IncidentStatus,
           Update(p, from, row, says),
           incident.status \in from =>
               /\ row \in IncidentRow /\ row.status = says
               /\ RowIsSound(row, comments \cup {[at |-> move[p].stamp, says |-> says]})
    PROVE  TimelineInv'
<1>1. /\ move[p].at = "begun" /\ \A q \in Responders : move[q].at # "updated"
      /\ incident' = incident /\ comments' = comments /\ moment' = moment /\ settledAt' = settledAt
  BY DEF Update, Locked
<1>2. TimelineTypeOK /\ move[p] \in Begun /\ move[p].stamp \in Nat /\ move[p].stamp <= moment /\ move[p] # NoMove
  BY <1>1 DEF TimelineInv, TimelineTypeOK, NoMove, Begun, Updated, StampsArePast
<1>3. CASE incident.status \in from
  <2> DEFINE m == [at |-> "updated", stamp |-> move[p].stamp, row |-> row, says |-> says]
  <2>1. move' = [move EXCEPT ![p] = m]
    BY <1>3 DEF Update
  <2>2. m \in Updated
    BY <1>2, <1>3 DEF Updated
  <2>3. /\ move' \in [Responders -> {NoMove} \cup Begun \cup Updated] /\ move'[p] = m
        /\ \A q \in Responders \ {p} : move'[q] = move[q]
    BY <1>2, <2>1, <2>2 DEF TimelineTypeOK
  <2>4. m.at = "updated" /\ m.stamp = move[p].stamp /\ m.row = row /\ m.says = says
    OBVIOUS
  <2> HIDE DEF m
  <2>5. TimelineTypeOK'
    BY <1>1, <1>2, <2>3 DEF TimelineTypeOK
  <2>6. StampsArePast'
    BY <1>1, <1>2, <2>3, <2>4 DEF TimelineInv, StampsArePast
  <2>7. OneUpdater' /\ PendingIsSound'
    <3>1. \A q \in Responders : move'[q].at = "updated" => q = p
      BY <1>1, <2>3
    <3>2. /\ move'[p].row.status = move'[p].says
          /\ RowIsSound(move'[p].row, comments \cup {[at |-> move'[p].stamp, says |-> move'[p].says]})
      BY <1>3, <2>3, <2>4
    <3>3. PendingIsSound'
      BY <1>1, <3>1, <3>2 DEF PendingIsSound, RowIsSound
    <3>4. QED
      BY <3>1, <3>3 DEF OneUpdater
  <2>8. YoungestTells' /\ RowIsSound(incident, comments)'
    BY <1>1 DEF TimelineInv, YoungestTells, RowIsSound
  <2>9. QED
    BY <2>5, <2>6, <2>7, <2>8 DEF TimelineInv
<1>4. CASE incident.status \notin from
  <2>1. move' = [move EXCEPT ![p] = NoMove]
    BY <1>4 DEF Update
  <2>2. QED
    BY <1>1, <2>1, DroppedKeeps
<1>5. QED
  BY <1>3, <1>4

\* A transaction that begins writes nothing.
LEMMA BeginKeeps ==
    ASSUME TimelineInv, NEW p \in Responders, Begin(p)
    PROVE  TimelineInv'
<1> DEFINE m == [at |-> "begun", stamp |-> moment']
<1>1. /\ move' = [move EXCEPT ![p] = m] /\ moment' = moment + 1 /\ moment \in Nat
      /\ incident' = incident /\ comments' = comments /\ settledAt' = settledAt
  BY DEF Begin, TimelineInv, TimelineTypeOK
<1>2. m \in Begun /\ m.at = "begun" /\ m.stamp = moment'
  BY <1>1 DEF Begun
<1> HIDE DEF m
<1>3. /\ move' \in [Responders -> {NoMove} \cup Begun \cup Updated] /\ move'[p] = m
      /\ \A q \in Responders \ {p} : move'[q] = move[q]
  BY <1>1, <1>2 DEF TimelineInv, TimelineTypeOK
<1>4. TimelineTypeOK'
  BY <1>1, <1>3 DEF TimelineInv, TimelineTypeOK
<1>5. StampsArePast'
  <2>1. settledAt.time \in Nat /\ settledAt'.time <= moment'
    BY <1>1 DEF TimelineInv, TimelineTypeOK, StampsArePast
  <2>2. \A q \in Responders : move[q] # NoMove => move[q].stamp \in Nat
    BY DEF TimelineInv, TimelineTypeOK, Begun, Updated
  <2>3. \A q \in Responders : move'[q] # NoMove => move'[q].stamp <= moment'
    BY <1>1, <1>2, <1>3, <2>2 DEF TimelineInv, StampsArePast
  <2>4. QED
    BY <1>1, <2>1, <2>3 DEF TimelineInv, StampsArePast
<1>6. OneUpdater' /\ PendingIsSound'
  BY <1>1, <1>2, <1>3 DEF TimelineInv, OneUpdater, PendingIsSound, RowIsSound
<1>7. YoungestTells' /\ RowIsSound(incident, comments)'
  BY <1>1 DEF TimelineInv, YoungestTells, RowIsSound
<1>8. QED
  BY <1>4, <1>5, <1>6, <1>7 DEF TimelineInv

\* The commit: the row and its comment become true together.
LEMMA CommitKeeps ==
    ASSUME TimelineInv, NEW p \in Responders, WriteComment(p)
    PROVE  TimelineInv'
<1> DEFINE c == [at |-> move[p].stamp, says |-> move[p].says]
<1>1. /\ move[p].at = "updated" /\ moment' = moment + 1 /\ incident' = move[p].row
      /\ comments' = comments \cup {c}
      /\ settledAt' = [time |-> moment', inOrder |-> move[p].stamp > settledAt.time]
      /\ move' = [move EXCEPT ![p] = NoMove]
  BY DEF WriteComment
<1>2. move[p] \in Updated /\ move[p] # NoMove
  BY <1>1 DEF TimelineInv, TimelineTypeOK, NoMove, Begun
<1>3. /\ move[p].stamp \in Nat /\ move[p].row \in IncidentRow /\ c \in Comments /\ moment \in Nat
      /\ c.at = move[p].stamp /\ c.says = move[p].says /\ move[p].stamp <= moment
  BY <1>2 DEF Updated, Comments, TimelineInv, TimelineTypeOK, StampsArePast
<1>4. move[p].row.status = move[p].says /\ RowIsSound(move[p].row, comments \cup {c})
  BY <1>1 DEF TimelineInv, PendingIsSound
<1> HIDE DEF c
<1>5. /\ move' \in [Responders -> {NoMove} \cup Begun \cup Updated] /\ move'[p] = NoMove
      /\ \A q \in Responders \ {p} : move'[q] = move[q]
  BY <1>1 DEF TimelineInv, TimelineTypeOK
<1>6. \A q \in Responders : move'[q].at # "updated"
  BY <1>1, <1>5 DEF TimelineInv, OneUpdater, NoMove
<1>7. settledAt'.time = moment + 1 /\ settledAt'.inOrder = (move[p].stamp > settledAt.time)
      /\ settledAt' \in [time : Nat, inOrder : BOOLEAN]
  BY <1>1, <1>3
<1>8. TimelineTypeOK'
  <2>1. IsFiniteSet(comments') /\ comments' \subseteq Comments
    BY <1>1, <1>3, FS_AddElement DEF TimelineInv, TimelineTypeOK
  <2>2. QED
    BY <1>1, <1>3, <1>5, <1>7, <2>1 DEF TimelineTypeOK
<1>9. \A d \in comments : d.at \in Nat /\ d.at < settledAt.time /\ d.at < moment + 1 /\ settledAt.time \in Nat
  BY <1>3 DEF TimelineInv, TimelineTypeOK, Comments, StampsArePast
<1>10. StampsArePast'
  <2>1. \A q \in Responders : move[q] # NoMove => move[q].stamp \in Nat /\ move[q].stamp <= moment
    BY DEF TimelineInv, TimelineTypeOK, Begun, Updated, StampsArePast
  <2>2. \A q \in Responders : move'[q] # NoMove => move'[q].stamp <= moment'
    BY <1>1, <1>3, <1>5, <2>1
  <2>3. QED
    BY <1>1, <1>3, <1>7, <1>9, <2>2 DEF StampsArePast
<1>11. OneUpdater' /\ PendingIsSound'
  BY <1>6 DEF OneUpdater, PendingIsSound
<1>12. YoungestTells'
  <2> SUFFICES ASSUME settledAt'.inOrder
               PROVE  c \in comments' /\ c.says = incident'.status /\ \A d \in comments' \ {c} : d.at < c.at
    BY DEF YoungestTells
  <2>1. move[p].stamp > settledAt.time
    BY <1>7
  <2>2. QED
    BY <1>1, <1>3, <1>4, <1>9, <2>1
<1>13. RowIsSound(incident, comments)'
  BY <1>1, <1>4 DEF RowIsSound
<1>14. QED
  BY <1>8, <1>10, <1>11, <1>12, <1>13 DEF TimelineInv

\* Every step keeps the invariant.
LEMMA TimelineStep ==
    ASSUME TimelineInv, [TimelineNext]_timelineVars
    PROVE  TimelineInv'
<1>0. /\ incident \in IncidentRow /\ RowIsSound(incident, comments)
      /\ \A p \in Responders : move[p].at = "begun" => move[p].stamp \in Nat
  BY DEF TimelineInv, TimelineTypeOK, NoMove, Begun, Updated
<1>1. ASSUME NEW p \in Responders, Begin(p) PROVE TimelineInv'
  BY <1>1, BeginKeeps
<1>2. ASSUME NEW p \in Responders, AcknowledgeIncident(p) PROVE TimelineInv'
  <2>1. Update(p, AcknowledgeFrom, AcknowledgeRow(incident, move[p].stamp), "acknowledged")
    BY <1>2 DEF AcknowledgeIncident
  <2>2. move[p].stamp \in Nat /\ "acknowledged" \in IncidentStatus
    BY <1>0, <2>1 DEF Update, IncidentStatus
  <2>3. QED
    BY <1>0, <2>1, <2>2, UpdatesAreSound, UpdateKeeps
<1>3. ASSUME NEW p \in Responders, StartInvestigatingIncident(p) PROVE TimelineInv'
  <2>1. Update(p, InvestigateFrom, InvestigateRow(incident), "investigating")
    BY <1>3 DEF StartInvestigatingIncident
  <2>2. move[p].stamp \in Nat /\ "investigating" \in IncidentStatus
    BY <1>0, <2>1 DEF Update, IncidentStatus
  <2>3. QED
    BY <1>0, <2>1, <2>2, UpdatesAreSound, UpdateKeeps
<1>4. ASSUME NEW p \in Responders, ResolveIncident(p) PROVE TimelineInv'
  <2>1. Update(p, ResolveFrom, ResolveRow(incident, move[p].stamp), "resolved")
    BY <1>4 DEF ResolveIncident
  <2>2. move[p].stamp \in Nat /\ "resolved" \in IncidentStatus
    BY <1>0, <2>1 DEF Update, IncidentStatus
  <2>3. QED
    BY <1>0, <2>1, <2>2, UpdatesAreSound, UpdateKeeps
<1>5. ASSUME NEW p \in Responders, CloseIncident(p) PROVE TimelineInv'
  <2>1. Update(p, CloseFrom, CloseRow(incident), "closed")
    BY <1>5 DEF CloseIncident
  <2>2. move[p].stamp \in Nat /\ "closed" \in IncidentStatus
    BY <1>0, <2>1 DEF Update, IncidentStatus
  <2>3. QED
    BY <1>0, <2>1, <2>2, UpdatesAreSound, UpdateKeeps
<1>6. ASSUME NEW p \in Responders, ReopenIncident(p) PROVE TimelineInv'
  <2>1. Update(p, ReopenFrom, ReopenRow(incident), "open")
    BY <1>6 DEF ReopenIncident
  <2>2. move[p].stamp \in Nat /\ "open" \in IncidentStatus
    BY <1>0, <2>1 DEF Update, IncidentStatus
  <2>3. QED
    BY <1>0, <2>1, <2>2, UpdatesAreSound, UpdateKeeps
<1>7. ASSUME NEW p \in Responders, WriteComment(p) PROVE TimelineInv'
  BY <1>7, CommitKeeps
<1>8. ASSUME NEW p \in Responders, RollBack(p) PROVE TimelineInv'
  BY <1>8, DroppedKeeps DEF RollBack
<1>9. ASSUME NEW severity \in Severities, UpdateIncident(severity) PROVE TimelineInv'
  <2>1. /\ incident' \in IncidentRow /\ incident'.status = incident.status
        /\ incident'.born = incident.born /\ incident'.resolved = incident.resolved
        /\ incident'.acknowledged = incident.acknowledged
    BY <1>0, <1>9 DEF UpdateIncident, IncidentRow
  <2>2. comments' = comments /\ move' = move /\ moment' = moment /\ settledAt' = settledAt
    BY <1>9 DEF UpdateIncident
  <2>3. TimelineTypeOK' /\ StampsArePast' /\ OneUpdater'
    BY <2>1, <2>2 DEF TimelineInv, TimelineTypeOK, StampsArePast, OneUpdater
  <2>4. PendingIsSound'
    BY <2>2 DEF TimelineInv, PendingIsSound, RowIsSound
  <2>5. YoungestTells' /\ RowIsSound(incident, comments)'
    BY <2>1, <2>2 DEF TimelineInv, YoungestTells, RowIsSound
  <2>6. QED
    BY <2>3, <2>4, <2>5 DEF TimelineInv
<1>10. CASE UNCHANGED timelineVars
  BY <1>10 DEF timelineVars, TimelineInv, TimelineTypeOK, StampsArePast, OneUpdater, PendingIsSound,
     YoungestTells, RowIsSound
<1>11. QED
  BY <1>1, <1>2, <1>3, <1>4, <1>5, <1>6, <1>7, <1>8, <1>9, <1>10 DEF TimelineNext

\* The invariant that the timeline's account rests on.
LEMMA TimelineInvariant == TimelineSpec => []TimelineInv
<1>1. TimelineInit => TimelineInv
  <2> SUFFICES ASSUME TimelineInit PROVE TimelineInv
    OBVIOUS
  <2>1. incident \in IncidentRow /\ incident.born /\ incident.resolved = NoTime /\ incident.acknowledged = NoTime
    BY DEF TimelineInit, IncidentRow
  <2>2. /\ comments = {} /\ IsFiniteSet(comments) /\ moment = 0
        /\ settledAt = [time |-> 0, inOrder |-> TRUE] /\ move = [p \in Responders |-> NoMove]
    BY FS_EmptySet DEF TimelineInit
  <2>3. TimelineTypeOK
    BY <2>1, <2>2 DEF TimelineTypeOK
  <2>4. StampsArePast /\ OneUpdater /\ PendingIsSound
    BY <2>2 DEF StampsArePast, OneUpdater, PendingIsSound, NoMove
  <2>5. YoungestTells /\ RowIsSound(incident, comments)
    BY <2>1, <2>2 DEF YoungestTells, RowIsSound
  <2>6. QED
    BY <2>3, <2>4, <2>5 DEF TimelineInv
<1>2. TimelineInv /\ [TimelineNext]_timelineVars => TimelineInv'
  BY TimelineStep
<1>3. QED
  BY <1>1, <1>2, PTL DEF TimelineSpec

\* The columns and the comments of an incident tell the same past, whichever responders overlap and whichever
\* of their transactions fail (monitoring/service.go).
THEOREM PastIsTold == TimelineSpec => []IncidentTellsItsPast
<1>1. TimelineInv => IncidentTellsItsPast
  <2> SUFFICES ASSUME TimelineInv PROVE IncidentTellsItsPast
    OBVIOUS
  <2>1. TimelineTellsTheStatus
    <3> SUFFICES ASSUME comments # {}, settledAt.inOrder PROVE LatestComment.says = incident.status
      BY DEF TimelineTellsTheStatus
    <3>1. PICK c \in comments : c.says = incident.status /\ \A d \in comments \ {c} : d.at < c.at
      BY DEF TimelineInv, YoungestTells
    <3>2. LatestComment = c
      BY <3>1, YoungestIsListedLast DEF TimelineInv, TimelineTypeOK
    <3>3. QED
      BY <3>1, <3>2
  <2>2. RowTellsItsPast
    BY DEF TimelineInv, RowIsSound, RowTellsItsPast
  <2>3. QED
    BY <2>1, <2>2 DEF IncidentTellsItsPast
<1>2. QED
  BY <1>1, TimelineInvariant, PTL
==============================================================================
