--------------------------- MODULE ExchangeProofs ----------------------------
(***************************************************************************)
(* Proofs about what the platform exchanges with others: webhooks out,     *)
(* metrics in, and devices that are discovered and become assets. The      *)
(* parts share no state: each theorem is about the specification of its    *)
(* own part.                                                               *)
(***************************************************************************)
EXTENDS WebhookBreaker, AdapterPuller, AssetRecords, FiniteSetTheorems, TLAPS

------------------------------------------------------------------------------
(***************************************************************************)
(* Safety of the webhook circuit breaker, for any number of subscriptions, *)
(* concurrent deliveries, attempts and errors, and for any threshold.      *)
(*                                                                         *)
(* TripNeedsThreshold is not inductive: the counter of a subscription says *)
(* nothing of the deliveries behind it.  Counted bounds the counter by the *)
(* deliveries that were lost, less those that have yet to be recorded, and *)
(* TripIsDue carries what was counted to the UPDATE that disables the row. *)
(* ParkedInTime says what DisabledHookHasParkedPayload does and, of the    *)
(* payload, that it is no older than the disabling: the sweep that takes   *)
(* it then comes after the retention.                                      *)
(***************************************************************************)

\* Deliveries to w that are lost and not yet recorded.
Pending(w) == DeliveringTo(w, {"failed"})

\* Every recorded failure is a lost delivery of its own.
Counted ==
    \A w \in Hooks : \/ lost[w] = Threshold
                     \/ hook[w].failures + Cardinality(Pending(w)) <= lost[w]

\* A delivery that is about to disable its subscription counted to Threshold.
TripIsDue == \A s \in Workers : At(s, "trip") => lost[Target(s)] = Threshold

\* A payload that was parked when w was disabled, or later.
Parked(w) ==
    \/ dlq[w] # Never /\ dlq[w] <= hook[w].disabled
    \/ hook[w].disabled >= DLQMonths
    \/ DeliveringTo(w, {"park"}) # {}

ParkedInTime ==
    \A w \in Hooks : Disabled(w) /\ hook[w].present /\ errors = 0 => Parked(w)

IInv == TypeOK /\ Counted /\ TripIsDue /\ TripNeedsThreshold /\ ParkedInTime

LEMMA BumpBounds ==
    ASSUME NEW n \in 0 .. Threshold
    PROVE  /\ Bump(n) \in 0 .. Threshold
           /\ n <= Bump(n)
           /\ Bump(n) <= n + 1
           /\ Bump(n) = Threshold \/ Bump(n) = n + 1
  BY WebhookAssumption DEF Bump

LEMMA NoDeliveryType == NoDelivery \in Delivery /\ NoDelivery.pc = "idle"
<1>1. (CHOOSE w \in Hooks : TRUE) \in Hooks
  BY WebhookAssumption
<1>2. QED
  BY <1>1, WebhookAssumption DEF NoDelivery, Delivery, Steps

LEMMA PendingFinite ==
    ASSUME NEW w
    PROVE  IsFiniteSet(Pending(w)) /\ Cardinality(Pending(w)) \in Nat
<1>1. Pending(w) \in SUBSET Workers
  BY DEF Pending, DeliveringTo
<1>2. IsFiniteSet(Pending(w))
  BY <1>1, FS_Subset, WebhookAssumption
<1>3. QED
  BY <1>2, FS_CardinalityType

LEMMA PendingFinitePrimed ==
    ASSUME NEW w
    PROVE  Cardinality(Pending(w))' \in Nat
<1>1. Pending(w)' \in SUBSET Workers
  BY DEF Pending, DeliveringTo
<1>2. IsFiniteSet(Pending(w)')
  BY <1>1, FS_Subset, WebhookAssumption
<1>3. QED
  BY <1>2, FS_CardinalityType

------------------------------------------------------------------------------
(* How a step of one delivery changes what is pending.                     *)

OnlyMoves(s) == \A x \in Workers : x # s => worker'[x] = worker[x]

LEMMA LeavesPending ==
    ASSUME NEW s \in Workers, OnlyMoves(s), worker'[s].pc # "failed", NEW w
    PROVE  /\ Cardinality(Pending(w))' <= Cardinality(Pending(w))
           /\ At(s, "failed") /\ Target(s) = w =>
                 Cardinality(Pending(w))' + 1 = Cardinality(Pending(w))
<1>1. Pending(w)' = Pending(w) \ {s}
  BY DEF Pending, DeliveringTo, OnlyMoves, Target
<1>2. s \in Pending(w) <=> At(s, "failed") /\ Target(s) = w
  BY DEF Pending, DeliveringTo, At
<1>3. Cardinality(Pending(w) \ {s}) =
         IF s \in Pending(w) THEN Cardinality(Pending(w)) - 1 ELSE Cardinality(Pending(w))
  BY PendingFinite, FS_RemoveElement
<1>4. QED
  BY <1>1, <1>2, <1>3, PendingFinite

LEMMA JoinsPending ==
    ASSUME NEW s \in Workers, OnlyMoves(s), worker'[s].hook = Target(s), NEW w
    PROVE  /\ Cardinality(Pending(w))' <= Cardinality(Pending(w)) + 1
           /\ w # Target(s) => Cardinality(Pending(w))' = Cardinality(Pending(w))
<1>1. CASE w # Target(s)
  <2>1. Pending(w)' = Pending(w)
    BY <1>1 DEF Pending, DeliveringTo, OnlyMoves, Target
  <2>2. QED
    BY <2>1, <1>1, PendingFinite
<1>2. CASE w = Target(s)
  <2>1. Pending(w)' \in SUBSET (Pending(w) \cup {s})
    BY DEF Pending, DeliveringTo, OnlyMoves, Target
  <2>2. /\ IsFiniteSet(Pending(w) \cup {s})
        /\ Cardinality(Pending(w) \cup {s}) <= Cardinality(Pending(w)) + 1
    <3>1. IsFiniteSet(Pending(w)) /\ Cardinality(Pending(w)) \in Nat
      BY PendingFinite
    <3>2. /\ IsFiniteSet(Pending(w) \cup {s})
          /\ Cardinality(Pending(w) \cup {s}) =
                IF s \in Pending(w) THEN Cardinality(Pending(w)) ELSE Cardinality(Pending(w)) + 1
      BY <3>1, FS_AddElement
    <3>3. QED
      BY <3>1, <3>2
  <2>3. /\ IsFiniteSet(Pending(w)')
        /\ Cardinality(Pending(w)') <= Cardinality(Pending(w) \cup {s})
    BY <2>1, <2>2, FS_Subset
  <2>4. Cardinality(Pending(w)') \in Nat /\ Cardinality(Pending(w) \cup {s}) \in Nat
    BY <2>2, <2>3, FS_CardinalityType
  <2>5. QED
    BY <1>2, <2>2, <2>3, <2>4, PendingFinite
<1>3. QED
  BY <1>1, <1>2

\* A step that loses no delivery and counts no failure.
LEMMA NothingCounted ==
    ASSUME IInv, TypeOK', NEW s \in Workers, OnlyMoves(s), worker'[s].pc # "failed",
           UNCHANGED lost,
           \A w \in Hooks : hook'[w].failures <= hook[w].failures
    PROVE  Counted'
<1> SUFFICES ASSUME NEW w \in Hooks
             PROVE  (\/ lost[w] = Threshold
                     \/ hook[w].failures + Cardinality(Pending(w)) <= lost[w])'
  BY DEF Counted
<1>1. Cardinality(Pending(w))' <= Cardinality(Pending(w))
  BY LeavesPending
<1>2. Cardinality(Pending(w)) \in Nat /\ Cardinality(Pending(w))' \in Nat
  BY PendingFinite, PendingFinitePrimed
<1>3. /\ hook[w].failures \in Nat /\ hook'[w].failures \in Nat
      /\ lost[w] \in Nat /\ lost'[w] = lost[w]
      /\ hook'[w].failures <= hook[w].failures
  BY WebhookAssumption DEF IInv, TypeOK, Row
<1>4. lost[w] = Threshold \/ hook[w].failures + Cardinality(Pending(w)) <= lost[w]
  BY DEF IInv, Counted
<1>5. QED
  BY <1>1, <1>2, <1>3, <1>4

\* A step that loses a delivery counts no failure yet.
LEMMA LostIsPending ==
    ASSUME IInv, TypeOK', NEW s \in Workers, OnlyMoves(s), worker'[s].hook = Target(s),
           Lose(Target(s)), UNCHANGED hook
    PROVE  Counted'
<1> SUFFICES ASSUME NEW w \in Hooks
             PROVE  (\/ lost[w] = Threshold
                     \/ hook[w].failures + Cardinality(Pending(w)) <= lost[w])'
  BY DEF Counted
<1>1. /\ Cardinality(Pending(w))' <= Cardinality(Pending(w)) + 1
      /\ w # Target(s) => Cardinality(Pending(w))' = Cardinality(Pending(w))
  BY JoinsPending
<1>2. Cardinality(Pending(w)) \in Nat /\ Cardinality(Pending(w))' \in Nat
  BY PendingFinite, PendingFinitePrimed
<1>3. /\ hook[w].failures \in Nat /\ hook'[w].failures = hook[w].failures
      /\ lost[w] \in 0 .. Threshold
      /\ lost'[w] = IF w = Target(s) THEN Bump(lost[w]) ELSE lost[w]
  BY WebhookAssumption DEF IInv, TypeOK, Row, Lose
<1>4. lost[w] = Threshold \/ hook[w].failures + Cardinality(Pending(w)) <= lost[w]
  BY DEF IInv, Counted
<1>5. Bump(lost[w]) = Threshold \/ Bump(lost[w]) = lost[w] + 1
  BY <1>3, BumpBounds
<1>6. Bump(Threshold) = Threshold
  BY WebhookAssumption DEF Bump
<1>7. CASE w = Target(s)
  BY <1>1, <1>2, <1>3, <1>4, <1>5, <1>6, <1>7
<1>8. CASE w # Target(s)
  BY <1>1, <1>2, <1>3, <1>4, <1>8
<1>9. QED
  BY <1>7, <1>8

\* What a step leaves to the rest of the invariant when it disables nothing.
LEMMA NothingDisabled ==
    ASSUME IInv, NEW s \in Workers, OnlyMoves(s), worker'[s].pc # "trip",
           \A w \in Hooks : /\ lost[w] = Threshold => lost'[w] = Threshold
                            /\ Disabled(w)' => Disabled(w),
           worker'[s].hook \in Hooks
    PROVE  TripIsDue' /\ TripNeedsThreshold'
<1>1. TripIsDue'
  <2> SUFFICES ASSUME NEW x \in Workers, worker'[x].pc = "trip"
               PROVE  lost'[worker'[x].hook] = Threshold
    BY DEF TripIsDue, At, Target
  <2>1. x # s /\ worker'[x] = worker[x]
    BY DEF OnlyMoves
  <2>2. lost[worker[x].hook] = Threshold /\ worker[x].hook \in Hooks
    BY <2>1 DEF IInv, TripIsDue, At, Target, TypeOK, Delivery
  <2>3. QED
    BY <2>1, <2>2
<1>2. TripNeedsThreshold'
  BY DEF IInv, TripNeedsThreshold, Disabled
<1>3. QED
  BY <1>1, <1>2

\* What is parked for x stays, and so does a delivery that is to park it.
LEMMA ParkedStays ==
    ASSUME NEW x \in Hooks, Parked(x), hook'[x].disabled = hook[x].disabled, dlq'[x] = dlq[x],
           \A y \in DeliveringTo(x, {"park"}) : worker'[y] = worker[y]
    PROVE  Parked(x)'
<1>1. CASE DeliveringTo(x, {"park"}) # {}
  <2>1. PICK y \in DeliveringTo(x, {"park"}) : worker'[y] = worker[y]
    BY <1>1
  <2>2. y \in DeliveringTo(x, {"park"})'
    BY <2>1 DEF DeliveringTo, Target
  <2>3. QED
    BY <2>2 DEF Parked
<1>2. CASE DeliveringTo(x, {"park"}) = {}
  BY <1>2 DEF Parked
<1>3. QED
  BY <1>1, <1>2

\* A step of a delivery that leaves the queue and what was disabled alone.
LEMMA ParkingKept ==
    ASSUME IInv, NEW s \in Workers, OnlyMoves(s), ~At(s, "park"), errors' = 0 => errors = 0,
           UNCHANGED dlq,
           \A w \in Hooks : /\ hook'[w].disabled = hook[w].disabled
                            /\ hook'[w].present = hook[w].present
    PROVE  ParkedInTime'
<1> SUFFICES ASSUME NEW w \in Hooks, Disabled(w)', hook'[w].present, errors' = 0
             PROVE  Parked(w)'
  BY DEF ParkedInTime
<1>1. Parked(w)
  BY DEF IInv, ParkedInTime, Disabled
<1>2. \A y \in DeliveringTo(w, {"park"}) : worker'[y] = worker[y]
  BY DEF DeliveringTo, OnlyMoves, At
<1>3. QED
  BY <1>1, <1>2, ParkedStays

------------------------------------------------------------------------------
(* Types of what the steps assign.                                         *)

LEMMA GotoType ==
    ASSUME TypeOK, NEW s \in Workers, NEW pc \in Steps, Goto(s, pc)
    PROVE  /\ worker' \in [Workers -> Delivery]
           /\ OnlyMoves(s)
           /\ worker'[s].pc = pc
           /\ worker'[s].hook = Target(s)
  BY DEF TypeOK, Goto, Delivery, OnlyMoves, Target

LEMMA EndType ==
    ASSUME TypeOK, NEW s \in Workers, End(s)
    PROVE  /\ worker' \in [Workers -> Delivery]
           /\ OnlyMoves(s)
           /\ worker'[s].pc = "idle"
           /\ worker'[s].hook \in Hooks
<1>1. NoDelivery \in Delivery /\ NoDelivery.pc = "idle" /\ NoDelivery.hook \in Hooks
  BY NoDeliveryType DEF Delivery
<1>2. QED
  BY <1>1 DEF TypeOK, End, OnlyMoves

LEMMA TargetType ==
    ASSUME TypeOK, NEW s \in Workers
    PROVE  /\ Target(s) \in Hooks
           /\ hook[Target(s)] \in Row
           /\ worker[s] \in Delivery
  BY DEF TypeOK, Target, Delivery

LEMMA LogType ==
    ASSUME TypeOK, NEW w \in Hooks, Log(w)
    PROVE  /\ logged' \in [Hooks -> Ages(LogMonths)]
           /\ errors' \in Nat
           /\ errors' = 0 => errors = 0
<1>1. hook[w].present \in BOOLEAN
  BY DEF TypeOK, Row
<1>2. QED
  BY <1>1, WebhookAssumption DEF TypeOK, Log, Ages

LEMMA LoseType ==
    ASSUME TypeOK, NEW w \in Hooks, Lose(w)
    PROVE  /\ lost' \in [Hooks -> 0 .. Threshold]
           /\ \A x \in Hooks : lost[x] = Threshold => lost'[x] = Threshold
<1>1. \A x \in Hooks : Bump(lost[x]) \in 0 .. Threshold
  BY BumpBounds DEF TypeOK
<1>2. Bump(Threshold) = Threshold
  BY WebhookAssumption DEF Bump
<1>3. QED
  BY <1>1, <1>2 DEF TypeOK, Lose

------------------------------------------------------------------------------
LEMMA InitIInv == Init => IInv
<1> SUFFICES ASSUME Init PROVE IInv
  OBVIOUS
<1> USE DEF Init
<1>1. TypeOK
  BY NoDeliveryType, WebhookAssumption DEF TypeOK, Row, Ages
<1>2. Counted
  <2> SUFFICES ASSUME NEW w \in Hooks
               PROVE  hook[w].failures + Cardinality(Pending(w)) <= lost[w]
    BY DEF Counted
  <2>1. Pending(w) = {}
    BY NoDeliveryType DEF Pending, DeliveringTo
  <2>2. Cardinality(Pending(w)) = 0
    BY <2>1, FS_EmptySet
  <2>3. hook[w].failures = 0 /\ lost[w] = 0
    OBVIOUS
  <2>4. QED
    BY <2>2, <2>3
<1>3. TripIsDue
  BY NoDeliveryType DEF TripIsDue, At
<1>4. TripNeedsThreshold /\ ParkedInTime
  BY DEF TripNeedsThreshold, ParkedInTime, Disabled
<1>5. QED
  BY <1>1, <1>2, <1>3, <1>4 DEF IInv

------------------------------------------------------------------------------
(* Steps, by what they do to the deliveries and to the subscription.       *)

\* A delivery moves on; what is parked is the business of the step.
LEMMA MovingStep ==
    ASSUME IInv, NEW s \in Workers, OnlyMoves(s), worker' \in [Workers -> Delivery],
           worker'[s].pc \notin {"failed", "trip"}, ParkedInTime',
           UNCHANGED <<hook, up, lost, sweep>>, logged' \in [Hooks -> Ages(LogMonths)],
           dlq' \in [Hooks -> Ages(DLQMonths)], errors' \in Nat
    PROVE  IInv'
<1>1. TypeOK'
  BY DEF IInv, TypeOK
<1>2. Counted'
  <2>1. \A w \in Hooks : hook'[w].failures <= hook[w].failures
    BY WebhookAssumption DEF IInv, TypeOK, Row
  <2>2. QED
    BY <1>1, <2>1, NothingCounted
<1>3. TripIsDue' /\ TripNeedsThreshold'
  <2>1. worker'[s].hook \in Hooks
    BY DEF Delivery
  <2>2. QED
    BY <2>1, NothingDisabled DEF Disabled
<1>4. QED
  BY <1>1, <1>2, <1>3 DEF IInv

\* A delivery moves on that had nothing to park.
LEMMA PlainStep ==
    ASSUME IInv, NEW s \in Workers, OnlyMoves(s), worker' \in [Workers -> Delivery],
           worker'[s].pc \notin {"failed", "trip"}, ~At(s, "park"),
           UNCHANGED <<hook, dlq, up, lost, sweep>>, logged' \in [Hooks -> Ages(LogMonths)],
           errors' \in Nat, errors' = 0 => errors = 0
    PROVE  IInv'
<1>1. ParkedInTime'
  BY ParkingKept
<1>2. dlq' \in [Hooks -> Ages(DLQMonths)]
  BY DEF IInv, TypeOK
<1>3. QED
  BY <1>1, <1>2, MovingStep

\* A step of the environment, an operator or the sweep.
LEMMA QuietStep ==
    ASSUME IInv, TypeOK', UNCHANGED <<lost, worker>>, ParkedInTime',
           \A w \in Hooks :
               /\ hook'[w].failures = hook[w].failures
               /\ Disabled(w)' => Disabled(w)
    PROVE  IInv'
<1>1. \A w : Pending(w)' = Pending(w)
  BY DEF Pending, DeliveringTo, Target
<1>2. Counted'
  BY <1>1 DEF IInv, Counted
<1>3. TripIsDue' /\ TripNeedsThreshold'
  BY DEF IInv, TripIsDue, TripNeedsThreshold, At, Target
<1>4. QED
  BY <1>2, <1>3 DEF IInv

\* A quiet step that leaves the queue of every subscription it keeps alone.
LEMMA QueueUntouched ==
    ASSUME IInv, TypeOK', UNCHANGED <<lost, worker, errors>>,
           \A w \in Hooks :
               /\ hook'[w].failures = hook[w].failures
               /\ hook'[w].disabled = hook[w].disabled
               /\ hook'[w].present => hook[w].present /\ dlq'[w] = dlq[w]
    PROVE  IInv'
<1>1. ParkedInTime'
  <2> SUFFICES ASSUME NEW w \in Hooks, Disabled(w)', hook'[w].present, errors' = 0
               PROVE  Parked(w)'
    BY DEF ParkedInTime
  <2>1. Parked(w)
    BY DEF IInv, ParkedInTime, Disabled
  <2>2. QED
    BY <2>1, ParkedStays
<1>2. \A w \in Hooks : Disabled(w)' => Disabled(w)
  BY DEF Disabled
<1>3. QED
  BY <1>1, <1>2, QuietStep

\* A delivery is lost.
LEMMA LosingStep ==
    ASSUME IInv, NEW s \in Workers, ~At(s, "park"), Goto(s, "failed"),
           Lose(Target(s)), Log(Target(s)), UNCHANGED <<hook, dlq, up, sweep>>
    PROVE  IInv'
<1>0. TypeOK
  BY DEF IInv
<1>1. Target(s) \in Hooks
  BY <1>0, TargetType
<1>2. /\ worker' \in [Workers -> Delivery]
      /\ OnlyMoves(s)
      /\ worker'[s].pc = "failed"
      /\ worker'[s].hook = Target(s)
  BY <1>0, GotoType DEF Steps
<1>3. /\ logged' \in [Hooks -> Ages(LogMonths)]
      /\ errors' \in Nat
      /\ errors' = 0 => errors = 0
  BY <1>0, <1>1, LogType
<1>4. /\ lost' \in [Hooks -> 0 .. Threshold]
      /\ \A x \in Hooks : lost[x] = Threshold => lost'[x] = Threshold
  BY <1>0, <1>1, LoseType
<1>5. TypeOK'
  BY <1>0, <1>2, <1>3, <1>4 DEF TypeOK
<1>6. Counted'
  BY <1>2, <1>5, LostIsPending
<1>7. TripIsDue' /\ TripNeedsThreshold'
  <2>1. \A w \in Hooks : /\ lost[w] = Threshold => lost'[w] = Threshold
                         /\ Disabled(w)' => Disabled(w)
    BY <1>4 DEF Disabled
  <2>2. worker'[s].pc # "trip" /\ worker'[s].hook \in Hooks
    BY <1>1, <1>2
  <2>3. QED
    BY <1>2, <2>1, <2>2, NothingDisabled
<1>8. ParkedInTime'
  BY <1>2, <1>3, ParkingKept
<1>9. QED
  BY <1>5, <1>6, <1>7, <1>8 DEF IInv

------------------------------------------------------------------------------
(* One lemma for each action that does more than move on.                  *)

LEMMA HandleEventStep ==
    ASSUME IInv, NEW s \in Workers, NEW w \in Hooks, HandleEvent(s, w)
    PROVE  IInv'
<1> DEFINE d == [NoDelivery EXCEPT !.pc = "listed", !.hook = w]
<1>1. d \in Delivery /\ d.pc = "listed"
  BY NoDeliveryType DEF Delivery, Steps
<1>2. worker' = [worker EXCEPT ![s] = d]
  BY DEF HandleEvent
<1> HIDE DEF d
<1>3. worker' \in [Workers -> Delivery] /\ OnlyMoves(s) /\ worker'[s].pc = "listed"
  BY <1>1, <1>2 DEF IInv, TypeOK, OnlyMoves
<1>4. ~At(s, "park") /\ UNCHANGED <<hook, logged, dlq, up, lost, sweep, errors>>
  BY DEF HandleEvent, At
<1>5. logged' \in [Hooks -> Ages(LogMonths)] /\ errors' \in Nat
  BY <1>4 DEF IInv, TypeOK
<1>6. QED
  BY <1>3, <1>4, <1>5, PlainStep

LEMMA PostRefusedStep ==
    ASSUME IInv, NEW s \in Workers, PostRefused(s)
    PROVE  IInv'
<1>0. TypeOK /\ Target(s) \in Hooks /\ worker[s] \in Delivery
  BY TargetType DEF IInv
<1>1. ~At(s, "park") /\ Log(Target(s)) /\ UNCHANGED <<hook, dlq, up, sweep>>
  BY DEF PostRefused, At
<1>2. CASE worker[s].attempt < MaxAttempts
  <2> DEFINE d == [worker[s] EXCEPT !.attempt = worker[s].attempt + 1]
  <2>1. d \in Delivery /\ d.pc = worker[s].pc
    BY <1>0, <1>2, WebhookAssumption DEF Delivery
  <2>2. worker' = [worker EXCEPT ![s] = d] /\ UNCHANGED lost /\ worker[s].pc = "post"
    BY <1>2 DEF PostRefused, At
  <2> HIDE DEF d
  <2>3. worker' \in [Workers -> Delivery] /\ OnlyMoves(s) /\ worker'[s].pc = "post"
    BY <1>0, <2>1, <2>2 DEF TypeOK, OnlyMoves
  <2>4. logged' \in [Hooks -> Ages(LogMonths)] /\ errors' \in Nat /\ (errors' = 0 => errors = 0)
    BY <1>0, <1>1, LogType
  <2>5. QED
    BY <1>1, <2>2, <2>3, <2>4, PlainStep
<1>3. CASE ~(worker[s].attempt < MaxAttempts)
  <2>1. Goto(s, "failed") /\ Lose(Target(s))
    BY <1>3 DEF PostRefused
  <2>2. QED
    BY <1>1, <2>1, LosingStep
<1>4. QED
  BY <1>2, <1>3

LEMMA RecordSuccessStep ==
    ASSUME IInv, NEW s \in Workers, RecordSuccess(s)
    PROVE  IInv'
<1> DEFINE w == Target(s)
<1>0. TypeOK /\ w \in Hooks /\ hook[w] \in Row
  BY TargetType DEF IInv
<1>1. /\ worker' \in [Workers -> Delivery]
      /\ OnlyMoves(s)
      /\ worker'[s].pc = "idle"
      /\ worker'[s].hook \in Hooks
  BY <1>0, EndType DEF RecordSuccess
<1>2. ~At(s, "park") /\ UNCHANGED <<logged, dlq, up, lost, sweep, errors>>
  BY DEF RecordSuccess, At
<1>3. /\ Cleared(hook[w]) \in Row
      /\ Cleared(hook[w]).present = hook[w].present
      /\ Cleared(hook[w]).disabled = hook[w].disabled
      /\ Cleared(hook[w]).failures <= hook[w].failures
  BY <1>0, WebhookAssumption DEF Cleared, Row
<1>4. hook' = [hook EXCEPT ![w] = Cleared(hook[w])]
  BY DEF RecordSuccess
<1> HIDE DEF w
<1>5. \A x \in Hooks : /\ hook'[x] \in Row
                       /\ hook'[x].present = hook[x].present
                       /\ hook'[x].disabled = hook[x].disabled
                       /\ hook'[x].failures <= hook[x].failures
  <2> TAKE x \in Hooks
  <2>1. hook'[x] = IF x = w THEN Cleared(hook[w]) ELSE hook[x]
    BY <1>0, <1>4 DEF TypeOK
  <2>2. hook[x] \in Row /\ hook[x].failures <= hook[x].failures
    BY <1>0, WebhookAssumption DEF TypeOK, Row
  <2>3. QED
    BY <1>3, <2>1, <2>2
<1>6. TypeOK'
  <2>1. hook' \in [Hooks -> Row]
    BY <1>0, <1>4, <1>3 DEF TypeOK
  <2>2. QED
    BY <1>0, <1>1, <1>2, <2>1 DEF TypeOK
<1>7. Counted'
  BY <1>1, <1>2, <1>5, <1>6, NothingCounted
<1>8. TripIsDue' /\ TripNeedsThreshold'
  BY <1>1, <1>2, <1>5, NothingDisabled DEF Disabled
<1>9. ParkedInTime'
  BY <1>1, <1>2, <1>5, ParkingKept
<1>10. QED
  BY <1>6, <1>7, <1>8, <1>9 DEF IInv

\* The heart of the argument: the failure that is counted was pending.
LEMMA RecordFailureStep ==
    ASSUME IInv, NEW s \in Workers, RecordFailure(s)
    PROVE  IInv'
<1>w. PICK w \in Hooks : w = Target(s)
  BY TargetType DEF IInv
<1>c. PICK count : count = Bump(hook[w].failures)
  OBVIOUS
<1>0. TypeOK /\ w \in Hooks /\ hook[w] \in Row
  BY DEF IInv, TypeOK
<1>1. At(s, "failed") /\ ~At(s, "park") /\ UNCHANGED <<logged, dlq, up, lost, sweep, errors>>
  BY DEF RecordFailure, At
<1>2. CASE ~hook[w].present
  <2>1. End(s) /\ UNCHANGED hook
    BY <1>w, <1>2 DEF RecordFailure
  <2>2. /\ worker' \in [Workers -> Delivery]
        /\ OnlyMoves(s)
        /\ worker'[s].pc = "idle"
    BY <1>0, <2>1, EndType
  <2>3. logged' \in [Hooks -> Ages(LogMonths)] /\ errors' \in Nat
    BY <1>0, <1>1 DEF TypeOK
  <2>4. QED
    BY <1>1, <2>1, <2>2, <2>3, PlainStep
<1>3. CASE hook[w].present
  <2>1. /\ hook' = [hook EXCEPT ![w].failures = count]
        /\ IF Trips(count) THEN Goto(s, "trip") ELSE End(s)
    BY <1>w, <1>c, <1>3 DEF RecordFailure
  <2>2. /\ worker' \in [Workers -> Delivery]
        /\ OnlyMoves(s)
        /\ worker'[s].pc \in {"trip", "idle"}
        /\ worker'[s].hook \in Hooks
        /\ worker'[s].pc = "trip" => Trips(count) /\ worker'[s].hook = w
    <3>1. CASE Trips(count)
      BY <1>0, <1>w, <2>1, <3>1, GotoType DEF Steps
    <3>2. CASE ~Trips(count)
      BY <1>0, <2>1, <3>2, EndType
    <3>3. QED
      BY <3>1, <3>2
  <2>3. hook[w].failures \in 0 .. Threshold /\ count \in 0 .. Threshold
        /\ count <= hook[w].failures + 1
    BY <1>0, <1>c, BumpBounds DEF Row
  <2>4. \A x \in Hooks : /\ hook'[x] \in Row
                         /\ hook'[x].present = hook[x].present
                         /\ hook'[x].disabled = hook[x].disabled
                         /\ hook'[x].failures = IF x = w THEN count ELSE hook[x].failures
    BY <1>0, <2>1, <2>3 DEF TypeOK, Row
  <2>5. TypeOK'
    <3>1. hook' \in [Hooks -> Row]
      BY <1>0, <2>1, <2>3 DEF TypeOK, Row
    <3>2. QED
      BY <1>0, <1>1, <2>2, <3>1 DEF TypeOK
  <2>6. worker'[s].pc # "failed"
    BY <2>2
  <2>7. lost[w] = Threshold \/ hook[w].failures + Cardinality(Pending(w)) <= lost[w]
    BY <1>0 DEF IInv, Counted
  <2>8. Counted'
    <3> SUFFICES ASSUME NEW x \in Hooks
                 PROVE  (\/ lost[x] = Threshold
                         \/ hook[x].failures + Cardinality(Pending(x)) <= lost[x])'
      BY DEF Counted
    <3>1. /\ lost[x] \in Nat
          /\ hook[x].failures \in Nat
          /\ lost'[x] = lost[x]
          /\ lost[x] = Threshold \/ hook[x].failures + Cardinality(Pending(x)) <= lost[x]
      BY <1>0, <1>1, WebhookAssumption DEF IInv, Counted, TypeOK, Row
    <3>p. /\ Cardinality(Pending(x)) \in Nat
          /\ Cardinality(Pending(x))' \in Nat
          /\ Cardinality(Pending(x))' <= Cardinality(Pending(x))
          /\ x = w => Cardinality(Pending(x))' + 1 = Cardinality(Pending(x))
      BY <1>w, <1>1, <2>2, <2>6, PendingFinite, PendingFinitePrimed, LeavesPending
    <3>2. CASE x = w
      <4>1. hook'[x].failures = count
        BY <2>4, <3>2
      <4>2. count <= hook[x].failures + 1 /\ count \in Nat
        BY <2>3, <3>2, WebhookAssumption
      <4>3. QED
        BY <3>p, <3>1, <3>2, <4>1, <4>2
    <3>3. CASE x # w
      <4>1. hook'[x].failures = hook[x].failures
        BY <2>4, <3>3
      <4>2. QED
        BY <3>p, <3>1, <4>1
    <3>4. QED
      BY <3>2, <3>3
  <2>9. Trips(count) => lost[w] = Threshold
    <3>1. Trips(count) => count = Threshold
      BY <2>3, WebhookAssumption DEF Trips
    <3>2. /\ Cardinality(Pending(w)) \in Nat
          /\ Cardinality(Pending(w))' \in Nat
          /\ Cardinality(Pending(w))' + 1 = Cardinality(Pending(w))
      BY <1>w, <1>1, <2>2, <2>6, PendingFinite, PendingFinitePrimed, LeavesPending
    <3>3. lost[w] \in 0 .. Threshold
      BY <1>0 DEF TypeOK
    <3>4. QED
      BY <2>3, <2>7, <3>1, <3>2, <3>3, WebhookAssumption
  <2>10. TripIsDue'
    <3> SUFFICES ASSUME NEW x \in Workers, worker'[x].pc = "trip"
                 PROVE  lost[worker'[x].hook] = Threshold
      BY <1>1 DEF TripIsDue, At, Target
    <3>1. CASE x = s
      BY <2>2, <2>9, <3>1
    <3>2. CASE x # s
      BY <2>2, <3>2 DEF IInv, TripIsDue, At, Target, OnlyMoves
    <3>3. QED
      BY <3>1, <3>2
  <2>11. TripNeedsThreshold'
    BY <1>1, <2>4 DEF IInv, TripNeedsThreshold, Disabled
  <2>12. ParkedInTime'
    BY <1>1, <2>2, <2>4, ParkingKept
  <2>13. QED
    BY <2>5, <2>8, <2>10, <2>11, <2>12 DEF IInv
<1>4. QED
  BY <1>2, <1>3

LEMMA DisableWebhookStep ==
    ASSUME IInv, NEW s \in Workers, DisableWebhook(s)
    PROVE  IInv'
<1>w. PICK w \in Hooks : w = Target(s)
  BY TargetType DEF IInv
<1>0. TypeOK /\ hook[w] \in Row
  BY DEF IInv, TypeOK
<1>1. /\ At(s, "trip") /\ ~At(s, "park")
      /\ hook' = [hook EXCEPT ![w].disabled = IF hook[w].present THEN 0 ELSE hook[w].disabled]
      /\ UNCHANGED <<logged, dlq, up, lost, sweep, errors>>
  BY <1>w DEF DisableWebhook, At
<1>2. /\ worker' \in [Workers -> Delivery]
      /\ OnlyMoves(s)
      /\ worker'[s].pc = "park"
      /\ worker'[s].hook = w
  BY <1>0, <1>w, GotoType DEF DisableWebhook, Steps
<1>3. lost[w] = Threshold
  BY <1>w, <1>1 DEF IInv, TripIsDue
<1>4. \A x \in Hooks : /\ hook'[x] \in Row
                       /\ hook'[x].failures = hook[x].failures
                       /\ hook'[x].present = hook[x].present
                       /\ x # w => hook'[x] = hook[x]
  BY <1>0, <1>1, WebhookAssumption DEF TypeOK, Row, Ages
<1>5. TypeOK'
  <2>1. hook' \in [Hooks -> Row]
    BY <1>0, <1>1, <1>4 DEF TypeOK
  <2>2. QED
    BY <1>0, <1>1, <1>2, <2>1 DEF TypeOK
<1>6. Counted'
  <2>1. \A x \in Hooks : hook'[x].failures <= hook[x].failures
    BY <1>0, <1>4, WebhookAssumption DEF TypeOK, Row
  <2>2. worker'[s].pc # "failed"
    BY <1>2
  <2>3. QED
    BY <1>1, <1>2, <1>5, <2>1, <2>2, NothingCounted
<1>7. TripIsDue'
  <2> SUFFICES ASSUME NEW x \in Workers, worker'[x].pc = "trip"
               PROVE  lost[worker'[x].hook] = Threshold
    BY <1>1 DEF TripIsDue, At, Target
  <2>1. x # s /\ worker'[x] = worker[x]
    BY <1>2 DEF OnlyMoves
  <2>2. QED
    BY <2>1 DEF IInv, TripIsDue, At, Target
<1>8. TripNeedsThreshold'
  BY <1>1, <1>3, <1>4 DEF IInv, TripNeedsThreshold, Disabled
<1>9. ParkedInTime'
  <2> SUFFICES ASSUME NEW x \in Hooks, Disabled(x)', hook'[x].present, errors' = 0
               PROVE  Parked(x)'
    BY DEF ParkedInTime
  <2>1. CASE x = w
    <3>1. s \in DeliveringTo(x, {"park"})'
      BY <1>2, <2>1 DEF DeliveringTo, Target
    <3>2. QED
      BY <3>1 DEF Parked
  <2>2. CASE x # w
    <3>1. Parked(x)
      BY <1>1, <1>4, <2>2 DEF IInv, ParkedInTime, Disabled
    <3>2. \A y \in DeliveringTo(x, {"park"}) : worker'[y] = worker[y]
      BY <1>1, <1>2 DEF DeliveringTo, OnlyMoves, At
    <3>3. hook'[x].disabled = hook[x].disabled /\ dlq'[x] = dlq[x]
      BY <1>1, <1>4, <2>2
    <3>4. QED
      BY <3>1, <3>2, <3>3, ParkedStays
  <2>3. QED
    BY <2>1, <2>2
<1>10. QED
  BY <1>5, <1>6, <1>7, <1>8, <1>9 DEF IInv

\* The payload is in the queue before the delivery leaves.
LEMMA CreateDLQEntryStep ==
    ASSUME IInv, NEW s \in Workers, CreateDLQEntry(s)
    PROVE  IInv'
<1> DEFINE d == [worker[s] EXCEPT !.pc = "notify", !.parked = TRUE]
<1>w. PICK w \in Hooks : w = Target(s)
  BY TargetType DEF IInv
<1>0. TypeOK /\ worker[s] \in Delivery
  BY DEF IInv, TypeOK
<1>1. d \in Delivery /\ d.pc = "notify"
  BY <1>0 DEF Delivery, Steps
<1>2. /\ worker' = [worker EXCEPT ![s] = d]
      /\ dlq' = [dlq EXCEPT ![w] = 0]
      /\ UNCHANGED <<hook, logged, up, lost, sweep, errors>>
  BY <1>w DEF CreateDLQEntry
<1> HIDE DEF d
<1>3. worker' \in [Workers -> Delivery] /\ OnlyMoves(s) /\ worker'[s].pc = "notify"
  BY <1>0, <1>1, <1>2 DEF TypeOK, OnlyMoves
<1>4. ParkedInTime'
  <2> SUFFICES ASSUME NEW x \in Hooks, Disabled(x), hook[x].present, errors = 0
               PROVE  Parked(x)'
    BY <1>2 DEF ParkedInTime, Disabled
  <2>1. CASE x = w
    <3>1. hook'[x].disabled \in 0 .. DLQMonths
      BY <1>0, <1>2 DEF TypeOK, Row, Ages, Disabled
    <3>2. dlq'[x] = 0
      BY <1>0, <1>2, <2>1 DEF TypeOK
    <3>3. QED
      BY <3>1, <3>2, WebhookAssumption DEF Parked, Never
  <2>2. CASE x # w
    <3>1. Parked(x)
      BY DEF IInv, ParkedInTime
    <3>2. \A y \in DeliveringTo(x, {"park"}) : worker'[y] = worker[y]
      BY <1>w, <1>3, <2>2 DEF DeliveringTo, OnlyMoves
    <3>3. dlq'[x] = dlq[x] /\ hook'[x].disabled = hook[x].disabled
      BY <1>0, <1>2, <2>2 DEF TypeOK
    <3>4. QED
      BY <3>1, <3>2, <3>3, ParkedStays
  <2>3. QED
    BY <2>1, <2>2
<1>5. /\ logged' \in [Hooks -> Ages(LogMonths)]
      /\ dlq' \in [Hooks -> Ages(DLQMonths)]
      /\ errors' \in Nat
  BY <1>0, <1>2, WebhookAssumption DEF TypeOK, Ages
<1>6. worker'[s].pc \notin {"failed", "trip"}
  BY <1>3
<1>7. QED
  BY <1>2, <1>3, <1>4, <1>5, <1>6, MovingStep

\* There is nothing to park for a subscription that is gone.
LEMMA CreateDLQEntryOfDeletedStep ==
    ASSUME IInv, NEW s \in Workers, CreateDLQEntryOfDeleted(s)
    PROVE  IInv'
<1>w. PICK w \in Hooks : w = Target(s)
  BY TargetType DEF IInv
<1>0. TypeOK
  BY DEF IInv
<1>1. ~hook[w].present /\ UNCHANGED <<hook, logged, dlq, up, lost, sweep, errors>>
  BY <1>w DEF CreateDLQEntryOfDeleted
<1>2. /\ worker' \in [Workers -> Delivery]
      /\ OnlyMoves(s)
      /\ worker'[s].pc \notin {"failed", "trip"}
  <2>1. Goto(s, "notify") /\ "notify" \in Steps
    BY DEF CreateDLQEntryOfDeleted, Steps
  <2>2. QED
    BY <1>0, <2>1, GotoType
<1>3. ParkedInTime'
  <2> SUFFICES ASSUME NEW x \in Hooks, Disabled(x), hook[x].present, errors = 0
               PROVE  Parked(x)'
    BY <1>1 DEF ParkedInTime, Disabled
  <2>1. Parked(x)
    BY DEF IInv, ParkedInTime
  <2>2. \A y \in DeliveringTo(x, {"park"}) : worker'[y] = worker[y]
    BY <1>w, <1>1, <1>2 DEF DeliveringTo, OnlyMoves
  <2>3. QED
    BY <1>1, <2>1, <2>2, ParkedStays
<1>4. logged' \in [Hooks -> Ages(LogMonths)] /\ dlq' \in [Hooks -> Ages(DLQMonths)] /\ errors' \in Nat
  BY <1>0, <1>1 DEF TypeOK
<1>5. QED
  BY <1>1, <1>2, <1>3, <1>4, MovingStep

LEMMA PublishDisabledStep ==
    ASSUME IInv, NEW s \in Workers, PublishDisabled(s)
    PROVE  IInv'
<1> DEFINE d == [worker[s] EXCEPT !.pc = "done", !.noticed = TRUE]
<1>0. TypeOK /\ worker[s] \in Delivery
  BY DEF IInv, TypeOK
<1>1. d \in Delivery /\ d.pc = "done"
  BY <1>0 DEF Delivery, Steps
<1>2. /\ worker' = [worker EXCEPT ![s] = d]
      /\ ~At(s, "park")
      /\ UNCHANGED <<hook, logged, dlq, up, lost, sweep, errors>>
  BY DEF PublishDisabled, At
<1> HIDE DEF d
<1>3. worker' \in [Workers -> Delivery] /\ OnlyMoves(s) /\ worker'[s].pc = "done"
  BY <1>0, <1>1, <1>2 DEF TypeOK, OnlyMoves
<1>4. logged' \in [Hooks -> Ages(LogMonths)] /\ errors' \in Nat
  BY <1>0, <1>2 DEF TypeOK
<1>5. QED
  BY <1>2, <1>3, <1>4, PlainStep

\* Once something failed, nothing is promised of what is parked.
LEMMA FailureStep ==
    ASSUME IInv, NEW s \in Workers, Failure(s)
    PROVE  IInv'
<1>0. TypeOK
  BY DEF IInv
<1>1. errors' = errors + 1 /\ UNCHANGED <<hook, logged, dlq, up, lost, sweep>>
  BY DEF Failure, Abandon, LogAndGoOn
<1>2. /\ worker' \in [Workers -> Delivery]
      /\ OnlyMoves(s)
      /\ worker'[s].pc \notin {"failed", "trip"}
  <2>1. CASE Abandon(s)
    <3>1. End(s)
      BY <2>1 DEF Abandon
    <3>2. QED
      BY <1>0, <3>1, EndType
  <2>2. CASE LogAndGoOn(s, "park", "notify")
    <3>1. Goto(s, "notify") /\ "notify" \in Steps
      BY <2>2 DEF LogAndGoOn, Steps
    <3>2. QED
      BY <1>0, <3>1, GotoType
  <2>3. CASE LogAndGoOn(s, "notify", "done")
    <3>1. Goto(s, "done") /\ "done" \in Steps
      BY <2>3 DEF LogAndGoOn, Steps
    <3>2. QED
      BY <1>0, <3>1, GotoType
  <2>4. QED
    BY <2>1, <2>2, <2>3 DEF Failure
<1>3. /\ logged' \in [Hooks -> Ages(LogMonths)]
      /\ dlq' \in [Hooks -> Ages(DLQMonths)]
      /\ errors' \in Nat
      /\ errors' # 0
  BY <1>0, <1>1 DEF TypeOK
<1>4. ParkedInTime'
  BY <1>3 DEF ParkedInTime
<1>5. QED
  BY <1>1, <1>2, <1>3, <1>4, MovingStep

LEMMA ProgressStep ==
    ASSUME IInv, NEW s \in Workers, Progress(s)
    PROVE  IInv'
<1>0. TypeOK /\ logged \in [Hooks -> Ages(LogMonths)] /\ errors \in Nat
  BY DEF IInv, TypeOK
<1>1. CASE Start(s)
  <2>1. Goto(s, "post") /\ "post" \in Steps /\ ~At(s, "park")
        /\ UNCHANGED <<hook, logged, dlq, up, lost, sweep, errors>>
    BY <1>1 DEF Start, Steps, At
  <2>2. QED
    BY <1>0, <2>1, GotoType, PlainStep
<1>2. CASE Skip(s)
  <2>1. End(s) /\ ~At(s, "park") /\ UNCHANGED <<hook, logged, dlq, up, lost, sweep, errors>>
    BY <1>2 DEF Skip, At
  <2>2. QED
    BY <1>0, <2>1, EndType, PlainStep
<1>3. CASE RejectURL(s)
  BY <1>3, LosingStep DEF RejectURL, At
<1>4. CASE PostAccepted(s)
  <2>1. Goto(s, "succeeded") /\ "succeeded" \in Steps /\ ~At(s, "park")
        /\ Log(Target(s)) /\ UNCHANGED <<hook, dlq, up, lost, sweep>>
    BY <1>4 DEF PostAccepted, Steps, At
  <2>2. Target(s) \in Hooks
    BY <1>0, TargetType
  <2>3. QED
    BY <1>0, <2>1, <2>2, GotoType, LogType, PlainStep
<1>5. CASE Return(s)
  <2>1. End(s) /\ ~At(s, "park") /\ UNCHANGED <<hook, logged, dlq, up, lost, sweep, errors>>
    BY <1>5 DEF Return, At
  <2>2. QED
    BY <1>0, <2>1, EndType, PlainStep
<1>6. QED
  BY <1>1, <1>2, <1>3, <1>4, <1>5, PostRefusedStep, RecordSuccessStep, RecordFailureStep,
     DisableWebhookStep, CreateDLQEntryStep, CreateDLQEntryOfDeletedStep, PublishDisabledStep
     DEF Progress

\* Receivers and operators.
LEMMA EnvironmentStep ==
    ASSUME IInv, NEW w \in Hooks,
           \/ Fluctuate(w)
           \/ \E enabled \in BOOLEAN : UpdateWebhook(w, enabled)
           \/ DeleteWebhook(w)
    PROVE  IInv'
<1>0. TypeOK
  BY DEF IInv
<1>1. CASE Fluctuate(w)
  <2>1. TypeOK'
    BY <1>0, <1>1 DEF TypeOK, Fluctuate
  <2>2. QED
    BY <1>1, <2>1, QueueUntouched DEF Fluctuate
<1>2. ASSUME NEW enabled \in BOOLEAN, UpdateWebhook(w, enabled)
      PROVE  IInv'
  <2>1. TypeOK'
    BY <1>0, <1>2 DEF TypeOK, UpdateWebhook, Row
  <2>2. \A x \in Hooks : /\ hook'[x].failures = hook[x].failures
                         /\ hook'[x].disabled = hook[x].disabled
                         /\ hook'[x].present => hook[x].present /\ dlq'[x] = dlq[x]
    BY <1>0, <1>2 DEF TypeOK, UpdateWebhook, Row
  <2>3. UNCHANGED <<lost, worker, errors>>
    BY <1>2 DEF UpdateWebhook
  <2>4. QED
    BY <2>1, <2>2, <2>3, QueueUntouched
<1>3. CASE DeleteWebhook(w)
  <2>1. TypeOK'
    <3>1. hook' \in [Hooks -> Row]
      BY <1>0, <1>3 DEF TypeOK, DeleteWebhook, Row
    <3>2. dlq' \in [Hooks -> Ages(DLQMonths)]
      BY <1>0, <1>3 DEF TypeOK, DeleteWebhook, Ages
    <3>3. QED
      BY <1>0, <1>3, <3>1, <3>2 DEF TypeOK, DeleteWebhook
  <2>2. \A x \in Hooks : /\ hook'[x].failures = hook[x].failures
                         /\ hook'[x].disabled = hook[x].disabled
                         /\ hook'[x].present => hook[x].present /\ dlq'[x] = dlq[x]
    BY <1>0, <1>3 DEF TypeOK, DeleteWebhook, Row
  <2>3. QED
    BY <1>3, <2>1, <2>2, QueueUntouched DEF DeleteWebhook
<1>4. QED
  BY <1>1, <1>2, <1>3

------------------------------------------------------------------------------
(* Time and the retention sweep.                                           *)

LEMMA OlderKeepsOrder ==
    ASSUME NEW months \in Nat \ {0}, NEW a \in Ages(months)
    PROVE  /\ Older(a, months) \in Ages(months)
           /\ Older(a, months) = Never <=> a = Never
           /\ a >= months => Older(a, months) >= months
           /\ \A b \in Ages(months) :
                 a # Never /\ a <= b /\ ~(b >= months) =>
                    Older(a, months) <= Older(b, months)
  BY DEF Older, Ages, Never

LEMMA SweptType ==
    ASSUME NEW months \in Nat, NEW a \in Ages(months)
    PROVE  Swept(a, months) \in Ages(months)
  BY DEF Swept, Ages

\* The queue and the time of the disabling age alike.
LEMMA MonthPassesStep ==
    ASSUME IInv, MonthPasses
    PROVE  IInv'
<1>0. TypeOK
  BY DEF IInv
<1>1. UNCHANGED <<up, lost, worker, sweep, errors>>
  BY DEF MonthPasses
<1>2. \A w \in Hooks : /\ hook[w] \in Row
                       /\ hook[w].disabled \in Ages(DLQMonths)
                       /\ logged[w] \in Ages(LogMonths)
                       /\ dlq[w] \in Ages(DLQMonths)
  BY <1>0 DEF TypeOK, Row
<1>3. \A w \in Hooks : /\ hook'[w] = [hook[w] EXCEPT !.disabled = Older(hook[w].disabled, DLQMonths)]
                       /\ logged'[w] = Older(logged[w], LogMonths)
                       /\ dlq'[w] = Older(dlq[w], DLQMonths)
  BY DEF MonthPasses
<1>4. \A w \in Hooks : /\ hook'[w] \in Row
                       /\ hook'[w].disabled = Older(hook[w].disabled, DLQMonths)
                       /\ hook'[w].present = hook[w].present
                       /\ hook'[w].failures = hook[w].failures
  <2> TAKE w \in Hooks
  <2>1. Older(hook[w].disabled, DLQMonths) \in Ages(DLQMonths)
    BY <1>2, OlderKeepsOrder, WebhookAssumption
  <2>2. QED
    BY <1>2, <1>3, <2>1 DEF Row
<1>5. TypeOK'
  <2>1. hook' \in [Hooks -> Row]
    BY <1>4 DEF MonthPasses
  <2>2. logged' \in [Hooks -> Ages(LogMonths)]
    BY <1>2, OlderKeepsOrder, WebhookAssumption DEF MonthPasses
  <2>3. dlq' \in [Hooks -> Ages(DLQMonths)]
    BY <1>2, OlderKeepsOrder, WebhookAssumption DEF MonthPasses
  <2>4. QED
    BY <1>0, <1>1, <2>1, <2>2, <2>3 DEF TypeOK
<1>6. \A w \in Hooks : Disabled(w)' => Disabled(w)
  BY <1>2, <1>4, OlderKeepsOrder, WebhookAssumption DEF Disabled
<1>7. ParkedInTime'
  <2> SUFFICES ASSUME NEW w \in Hooks, Disabled(w)', hook'[w].present, errors' = 0
               PROVE  Parked(w)'
    BY DEF ParkedInTime
  <2>1. Parked(w)
    BY <1>1, <1>4, <1>6 DEF IInv, ParkedInTime
  <2>2. DeliveringTo(w, {"park"}) = {}
    BY DEF MonthPasses, DeliveringTo, At
  <2>3. CASE hook[w].disabled >= DLQMonths
    <3>1. Older(hook[w].disabled, DLQMonths) >= DLQMonths
      BY <1>2, <2>3, OlderKeepsOrder, WebhookAssumption
    <3>2. hook'[w].disabled >= DLQMonths
      BY <1>4, <3>1
    <3>3. QED
      BY <3>2 DEF Parked
  <2>4. CASE ~(hook[w].disabled >= DLQMonths)
    <3>1. dlq[w] # Never /\ dlq[w] <= hook[w].disabled
      BY <2>1, <2>2, <2>4 DEF Parked
    <3>2. /\ dlq'[w] # Never
          /\ dlq'[w] <= hook'[w].disabled
      <4>1. Older(dlq[w], DLQMonths) # Never
        BY <1>2, <3>1, OlderKeepsOrder, WebhookAssumption
      <4>2. Older(dlq[w], DLQMonths) <= Older(hook[w].disabled, DLQMonths)
        BY <1>2, <2>4, <3>1, OlderKeepsOrder, WebhookAssumption
      <4>3. QED
        BY <1>3, <1>4, <4>1, <4>2
    <3>3. QED
      BY <3>2 DEF Parked
  <2>5. QED
    BY <2>3, <2>4
<1>8. QED
  BY <1>1, <1>4, <1>5, <1>6, <1>7, QuietStep

\* What the sweep of the queue takes is as old as the queue keeps it, and the
\* disabling is no younger.
LEMMA DeleteOldWebhookDLQStep ==
    ASSUME IInv, DeleteOldWebhookDLQ
    PROVE  IInv'
<1>0. TypeOK
  BY DEF IInv
<1>1. UNCHANGED <<hook, logged, up, lost, worker, errors>> /\ sweep' = "idle"
  BY DEF DeleteOldWebhookDLQ
<1>2. \A w \in Hooks : /\ hook[w].disabled \in Ages(DLQMonths)
                       /\ dlq[w] \in Ages(DLQMonths)
                       /\ dlq'[w] = Swept(dlq[w], DLQMonths)
  BY <1>0 DEF TypeOK, Row, DeleteOldWebhookDLQ
<1>3. TypeOK'
  <2>1. dlq' \in [Hooks -> Ages(DLQMonths)]
    BY <1>2, SweptType, WebhookAssumption DEF DeleteOldWebhookDLQ
  <2>2. QED
    BY <1>0, <1>1, <2>1 DEF TypeOK
<1>4. ParkedInTime'
  <2> SUFFICES ASSUME NEW w \in Hooks, Disabled(w), hook[w].present, errors = 0
               PROVE  Parked(w)'
    BY <1>1 DEF ParkedInTime, Disabled
  <2>1. Parked(w)
    BY DEF IInv, ParkedInTime
  <2>2. CASE dlq[w] >= DLQMonths /\ dlq[w] <= hook[w].disabled
    <3>1. hook'[w].disabled >= DLQMonths
      BY <1>1, <1>2, <2>2, WebhookAssumption DEF Ages, Never
    <3>2. QED
      BY <3>1 DEF Parked
  <2>3. CASE ~(dlq[w] >= DLQMonths)
    <3>1. dlq'[w] = dlq[w]
      BY <1>2, <2>3 DEF Swept
    <3>2. QED
      BY <1>1, <2>1, <3>1, ParkedStays
  <2>4. CASE ~(dlq[w] <= hook[w].disabled)
    <3>1. \/ hook'[w].disabled >= DLQMonths
          \/ DeliveringTo(w, {"park"})' # {}
      BY <1>1, <2>1, <2>4 DEF Parked, DeliveringTo, Target
    <3>2. QED
      BY <3>1 DEF Parked
  <2>5. QED
    BY <2>2, <2>3, <2>4
<1>5. QED
  BY <1>1, <1>3, <1>4, QuietStep DEF Disabled

\* The first DELETE and its failures leave the queue alone.
LEMMA SweepStep ==
    ASSUME IInv, RetentionSweep \/ SweepFails
    PROVE  IInv'
<1>0. TypeOK
  BY DEF IInv
<1>1. CASE RetentionSweep
  <2>1. logged' \in [Hooks -> Ages(LogMonths)]
    BY <1>0, <1>1, SweptType, WebhookAssumption DEF TypeOK, RetentionSweep
  <2>2. UNCHANGED <<hook, dlq, up, lost, worker, errors>> /\ sweep' = "dlq"
    BY <1>1 DEF RetentionSweep
  <2>3. TypeOK'
    BY <1>0, <2>1, <2>2 DEF TypeOK
  <2>4. QED
    BY <2>2, <2>3, QueueUntouched
<1>2. CASE SweepFails
  <2>1. /\ UNCHANGED <<hook, logged, dlq, up, lost, worker>>
        /\ sweep' \in {"idle", "dlq"}
        /\ errors' = errors + 1
    BY <1>2 DEF SweepFails
  <2>2. TypeOK' /\ errors' # 0
    BY <1>0, <2>1 DEF TypeOK
  <2>3. ParkedInTime'
    BY <2>2 DEF ParkedInTime
  <2>4. QED
    BY <2>1, <2>2, <2>3, QuietStep DEF Disabled
<1>3. QED
  BY <1>1, <1>2

LEMMA NextIInv == IInv /\ [Next]_vars => IInv'
<1> SUFFICES ASSUME IInv, [Next]_vars PROVE IInv'
  OBVIOUS
<1>1. ASSUME NEW s \in Workers, NEW w \in Hooks, HandleEvent(s, w) PROVE IInv'
  BY <1>1, HandleEventStep
<1>2. ASSUME NEW s \in Workers, Progress(s) PROVE IInv'
  BY <1>2, ProgressStep
<1>3. ASSUME NEW s \in Workers, Failure(s) PROVE IInv'
  BY <1>3, FailureStep
<1>4. ASSUME NEW w \in Hooks,
             \/ Fluctuate(w)
             \/ \E enabled \in BOOLEAN : UpdateWebhook(w, enabled)
             \/ DeleteWebhook(w)
      PROVE  IInv'
  BY <1>4, EnvironmentStep
<1>5. CASE UNCHANGED vars
  BY <1>5 DEF IInv, vars, TypeOK, Counted, Pending, TripIsDue, TripNeedsThreshold, Disabled,
              ParkedInTime, Parked, DeliveringTo, At, Target
<1>6. CASE MonthPasses \/ DeleteOldWebhookDLQ
  BY <1>6, MonthPassesStep, DeleteOldWebhookDLQStep
<1>7. CASE RetentionSweep \/ SweepFails
  BY <1>7, SweepStep
<1>8. QED
  BY <1>1, <1>2, <1>3, <1>4, <1>5, <1>6, <1>7 DEF Next

------------------------------------------------------------------------------
LEMMA Invariance == Safety => []IInv
<1>1. Init => IInv
  BY InitIInv
<1>2. IInv /\ [Next]_vars => IInv'
  BY NextIInv
<1>3. QED
  BY <1>1, <1>2, PTL DEF Safety

\* The rows, the deliveries and the counters of the dispatcher keep their types.
THEOREM TypeCorrect == Safety => []TypeOK
<1>1. IInv => TypeOK
  BY DEF IInv
<1>2. QED
  BY <1>1, Invariance, PTL

\* The breaker counts deliveries and not attempts (webhook_dispatcher.go:338-361):
\* no interleaving of deliveries, errors and operators disables a subscription
\* before Threshold deliveries to it ran out of attempts.
THEOREM BreakerCountsDeliveries == Safety => []TripNeedsThreshold
<1>1. IInv => TripNeedsThreshold
  BY DEF IInv
<1>2. QED
  BY <1>1, Invariance, PTL

\* Without errors, whoever finds a disabled subscription finds a payload to
\* replay, or the delivery that is about to park one (recordFailure), for as long
\* as the queue keeps its rows after disabled_at: the sweep (runWebhookRetention)
\* takes it no earlier.  After that it does, and disabled_at stays.
THEOREM DisabledHasPayload == Safety => []DisabledHookHasParkedPayload
<1>1. IInv => DisabledHookHasParkedPayload
  BY DEF IInv, ParkedInTime, Parked, DisabledHookHasParkedPayload
<1>2. QED
  BY <1>1, Invariance, PTL

------------------------------------------------------------------------------
(***************************************************************************)
(* The cut-off of metrics adapters, for any adapters, pullers and          *)
(* failures, and any threshold.                                            *)
(*                                                                         *)
(* The two parts of AdapterCutOffIsSound are close to inductive.           *)
(* PullerInv adds the types, and that a row that was never there counts    *)
(* nothing (FreshRowsCountNothing), for a created adapter starts from it.  *)
(* The work is in the pulls: the list of a tick only shrinks, and what a   *)
(* step does to the adapters it has left alone.                            *)
(***************************************************************************)

AdapterRow == [row : {"none", "kept", "gone"}, setup : Setups, enabled : BOOLEAN, failures : Nat, cooling : BOOLEAN]
Lists == UNION {[rest -> Setups] : rest \in SUBSET AdapterIds}
Pulling == [at : {"waiting", "looping", "fetched", "failed", "disabling", "auditing"}, todo : Lists, on : SUBSET AdapterIds]

PullerTypeOK ==
    /\ adapters \in [AdapterIds -> AdapterRow]
    /\ puller \in [Pullers -> Pulling]
    /\ interrupted \in [AdapterIds -> SUBSET {"disabling", "auditing"}]
    /\ cutOff \subseteq AdapterIds

\* A row that has never been there has nothing counted against it.
FreshRowsCountNothing == \A a \in AdapterIds : adapters[a].row = "none" => adapters[a].failures = 0

PullerInv == PullerTypeOK /\ FreshRowsCountNothing /\ AdapterCutOffIsSound

\* The list of a tick that finds nothing due.
LEMMA EmptyList == <<>> \in Lists
<1>1. <<>> \in [{} -> Setups]
  OBVIOUS
<1>2. QED
  BY <1>1 DEF Lists

\* A list without one of its adapters is a list.
LEMMA ListsShrink ==
    ASSUME NEW todo \in Lists, NEW a
    PROVE  [b \in DOMAIN todo \ {a} |-> todo[b]] \in Lists
<1>1. PICK rest \in SUBSET AdapterIds : todo \in [rest -> Setups]
  BY DEF Lists
<1>2. [b \in DOMAIN todo \ {a} |-> todo[b]] \in [rest \ {a} -> Setups]
  BY <1>1
<1>3. QED
  BY <1>2 DEF Lists

\* The adapters due are a list.
LEMMA DueIsAList == ASSUME PullerTypeOK PROVE [a \in ListDuePullAdapters |-> adapters[a].setup] \in Lists
<1>1. ListDuePullAdapters \in SUBSET AdapterIds
  BY DEF ListDuePullAdapters, Kept
<1>2. [a \in ListDuePullAdapters |-> adapters[a].setup] \in [ListDuePullAdapters -> Setups]
  BY <1>1 DEF PullerTypeOK, AdapterRow
<1>3. QED
  BY <1>1, <1>2 DEF Lists

\* A fetch has succeeded or failed.
LEMMA FetchOutcome == ASSUME NEW setup, NEW outcome \in Fetch(setup) PROVE outcome \in {"fetched", "failed"}
  BY DEF Fetch, GetAdapter, PlaceholderFetch, CustomRESTFetch, ZabbixFetch, PrometheusFetch, Tried

\* Every step keeps the types.
LEMMA PullerTypeStep ==
    ASSUME PullerTypeOK, [PullerNext]_pullerVars
    PROVE  PullerTypeOK'
<1>1. ASSUME NEW a \in AdapterIds, NEW s \in Setups, NEW enabled \in BOOLEAN, CreateAdapter(a, s, enabled)
      PROVE  PullerTypeOK'
  <2>1. adapters' \in [AdapterIds -> AdapterRow]
    <3>1. adapters[a] \in AdapterRow
      BY DEF PullerTypeOK
    <3>2. [[[adapters[a] EXCEPT !.row = "kept"] EXCEPT !.setup = s] EXCEPT !.enabled = enabled] \in AdapterRow
      BY <1>1, <3>1 DEF AdapterRow
    <3>3. QED
      BY <1>1, <3>2 DEF CreateAdapter, PullerTypeOK
  <2>2. puller' \in [Pullers -> Pulling]
    BY <1>1 DEF CreateAdapter, PullerTypeOK
  <2>3. interrupted' \in [AdapterIds -> SUBSET {"disabling", "auditing"}]
    BY <1>1 DEF CreateAdapter, PullerTypeOK
  <2>4. cutOff' \subseteq AdapterIds
    BY <1>1 DEF CreateAdapter, PullerTypeOK
  <2>5. QED
    BY <2>1, <2>2, <2>3, <2>4 DEF PullerTypeOK
<1>2. ASSUME NEW a \in AdapterIds, NEW s \in Setups, NEW enabled \in BOOLEAN, UpdateAdapter(a, s, enabled)
      PROVE  PullerTypeOK'
  <2>1. adapters' \in [AdapterIds -> AdapterRow]
    <3>1. adapters[a] \in AdapterRow
      BY DEF PullerTypeOK
    <3>2. [[adapters[a] EXCEPT !.setup = s] EXCEPT !.enabled = enabled] \in AdapterRow
      BY <3>1 DEF AdapterRow
    <3>3. QED
      BY <1>2, <3>2 DEF UpdateAdapter, Kept, PullerTypeOK
  <2>2. puller' \in [Pullers -> Pulling]
    BY <1>2 DEF UpdateAdapter, Kept, PullerTypeOK
  <2>3. interrupted' \in [AdapterIds -> SUBSET {"disabling", "auditing"}]
    BY <1>2 DEF UpdateAdapter, Kept, PullerTypeOK
  <2>4. cutOff' \subseteq AdapterIds
    BY <1>2 DEF UpdateAdapter, Kept, PullerTypeOK
  <2>5. QED
    BY <2>1, <2>2, <2>3, <2>4 DEF PullerTypeOK
<1>3. ASSUME NEW a \in AdapterIds, DeleteAdapter(a)
      PROVE  PullerTypeOK'
  <2>1. adapters' \in [AdapterIds -> AdapterRow]
    BY <1>3 DEF DeleteAdapter, Kept, PullerTypeOK, AdapterRow
  <2>2. puller' \in [Pullers -> Pulling]
    BY <1>3 DEF DeleteAdapter, Kept, PullerTypeOK
  <2>3. interrupted' \in [AdapterIds -> SUBSET {"disabling", "auditing"}]
    BY <1>3 DEF DeleteAdapter, Kept, PullerTypeOK
  <2>4. cutOff' \subseteq AdapterIds
    BY <1>3 DEF DeleteAdapter, Kept, PullerTypeOK
  <2>5. QED
    BY <2>1, <2>2, <2>3, <2>4 DEF PullerTypeOK
<1>4. ASSUME NEW a \in AdapterIds, BackoffEnds(a)
      PROVE  PullerTypeOK'
  <2>1. adapters' \in [AdapterIds -> AdapterRow]
    BY <1>4 DEF BackoffEnds, Kept, PullerTypeOK, AdapterRow
  <2>2. puller' \in [Pullers -> Pulling]
    BY <1>4 DEF BackoffEnds, Kept, PullerTypeOK
  <2>3. interrupted' \in [AdapterIds -> SUBSET {"disabling", "auditing"}]
    BY <1>4 DEF BackoffEnds, Kept, PullerTypeOK
  <2>4. cutOff' \subseteq AdapterIds
    BY <1>4 DEF BackoffEnds, Kept, PullerTypeOK
  <2>5. QED
    BY <2>1, <2>2, <2>3, <2>4 DEF PullerTypeOK
<1>5. ASSUME NEW p \in Pullers, ListDue(p)
      PROVE  PullerTypeOK'
  <2>1. adapters' \in [AdapterIds -> AdapterRow]
    BY <1>5 DEF ListDue, PullerTypeOK, AdapterRow
  <2>2. puller' \in [Pullers -> Pulling]
    <3>1. puller[p] \in Pulling
      BY DEF PullerTypeOK
    <3>2. [[puller[p] EXCEPT !.at = "looping"] EXCEPT !.todo = [a \in ListDuePullAdapters |-> adapters[a].setup]] \in Pulling
      BY <3>1, DueIsAList DEF Pulling
    <3>3. QED
      BY <1>5, <3>2 DEF ListDue, PullerTypeOK
  <2>3. interrupted' \in [AdapterIds -> SUBSET {"disabling", "auditing"}]
    BY <1>5 DEF ListDue, PullerTypeOK
  <2>4. cutOff' \subseteq AdapterIds
    BY <1>5 DEF ListDue, PullerTypeOK
  <2>5. QED
    BY <2>1, <2>2, <2>3, <2>4 DEF PullerTypeOK
<1>6. ASSUME NEW p \in Pullers, NEW a \in AdapterIds, PullFromAdapter(p, a)
      PROVE  PullerTypeOK'
  <2>1. adapters' \in [AdapterIds -> AdapterRow]
    BY <1>6 DEF PullFromAdapter, PullerTypeOK, AdapterRow
  <2>2. puller' \in [Pullers -> Pulling]
    <3>1. puller[p] \in Pulling
      BY DEF PullerTypeOK
    <3>2. Remaining(p, a) \in Lists
      BY <3>1, ListsShrink DEF Remaining, Pulling
    <3>3. Waits \in Pulling
      BY EmptyList DEF Waits, Pulling
    <3>4. \A at \in {"looping"} \cup Tried, on \in SUBSET AdapterIds : [at |-> at, todo |-> Remaining(p, a), on |-> on] \in Pulling
      BY <3>2 DEF Pulling, Tried
    <3>5. CASE PassedOver(puller[p].todo[a])
      BY <1>6, <3>3, <3>4, <3>5 DEF PullFromAdapter, PullerTypeOK
    <3>6. CASE ~PassedOver(puller[p].todo[a])
      <4>1. PICK outcome \in Fetch(puller[p].todo[a]) : puller' = [puller EXCEPT ![p] = [at |-> outcome, todo |-> Remaining(p, a), on |-> {a}]]
        BY <1>6, <3>6 DEF PullFromAdapter
      <4>2. outcome \in Tried
        BY FetchOutcome DEF Tried
      <4>3. QED
        BY <4>1, <4>2, <3>4 DEF PullerTypeOK
    <3>7. QED
      BY <3>5, <3>6
  <2>3. interrupted' \in [AdapterIds -> SUBSET {"disabling", "auditing"}]
    BY <1>6 DEF PullFromAdapter, PullerTypeOK
  <2>4. cutOff' \subseteq AdapterIds
    BY <1>6 DEF PullFromAdapter, PullerTypeOK
  <2>5. QED
    BY <2>1, <2>2, <2>3, <2>4 DEF PullerTypeOK
<1>7. ASSUME NEW p \in Pullers, NEW a \in AdapterIds, RecordAdapterSuccess(p, a)
      PROVE  PullerTypeOK'
  <2>1. adapters' \in [AdapterIds -> AdapterRow]
    <3>1. adapters[a] \in AdapterRow
      BY DEF PullerTypeOK
    <3>2. [[adapters[a] EXCEPT !.failures = 0] EXCEPT !.cooling = FALSE] \in AdapterRow
      BY <3>1 DEF AdapterRow
    <3>3. QED
      BY <1>7, <3>2 DEF RecordAdapterSuccess, PullerTypeOK
  <2>2. puller' \in [Pullers -> Pulling]
    BY <1>7, EmptyList DEF RecordAdapterSuccess, Onward, Waits, PullerTypeOK,
       Pulling, Tried
  <2>3. interrupted' \in [AdapterIds -> SUBSET {"disabling", "auditing"}]
    BY <1>7 DEF RecordAdapterSuccess, Onward, Waits, PullerTypeOK
  <2>4. cutOff' \subseteq AdapterIds
    BY <1>7 DEF RecordAdapterSuccess, Onward, Waits, PullerTypeOK
  <2>5. QED
    BY <2>1, <2>2, <2>3, <2>4 DEF PullerTypeOK
<1>8. ASSUME NEW p \in Pullers, NEW a \in AdapterIds, RecordAdapterFailure(p, a)
      PROVE  PullerTypeOK'
  <2>1. adapters' \in [AdapterIds -> AdapterRow]
    <3>1. adapters[a] \in AdapterRow /\ adapters[a].failures + 1 \in Nat
      BY DEF PullerTypeOK, AdapterRow
    <3>2. [[adapters[a] EXCEPT !.failures = adapters[a].failures + 1] EXCEPT !.cooling = TRUE] \in AdapterRow
      BY <3>1 DEF AdapterRow
    <3>3. adapters' = adapters \/ adapters' = [adapters EXCEPT ![a].failures = adapters[a].failures + 1, ![a].cooling = TRUE]
      BY <1>8 DEF RecordAdapterFailure
    <3>4. QED
      BY <3>2, <3>3 DEF PullerTypeOK
  <2>2. puller' \in [Pullers -> Pulling]
    BY <1>8, EmptyList DEF RecordAdapterFailure, Kept, Onward, Waits,
       ReachesThreshold, PullerTypeOK, Pulling, Tried
  <2>3. interrupted' \in [AdapterIds -> SUBSET {"disabling", "auditing"}]
    BY <1>8 DEF RecordAdapterFailure, Kept, Onward, Waits, ReachesThreshold,
       PullerTypeOK
  <2>4. cutOff' \subseteq AdapterIds
    BY <1>8 DEF RecordAdapterFailure, Kept, Onward, Waits, ReachesThreshold,
       PullerTypeOK
  <2>5. QED
    BY <2>1, <2>2, <2>3, <2>4 DEF PullerTypeOK
<1>9. ASSUME NEW p \in Pullers, NEW a \in AdapterIds, DisableAdapter(p, a)
      PROVE  PullerTypeOK'
  <2>1. adapters' \in [AdapterIds -> AdapterRow]
    <3>1. adapters[a] \in AdapterRow
      BY DEF PullerTypeOK
    <3>2. [adapters[a] EXCEPT !.enabled = FALSE] \in AdapterRow
      BY <3>1 DEF AdapterRow
    <3>3. QED
      BY <1>9, <3>2 DEF DisableAdapter, PullerTypeOK
  <2>2. puller' \in [Pullers -> Pulling]
    BY <1>9, EmptyList DEF DisableAdapter, Kept, PullerTypeOK, Pulling, Tried
  <2>3. interrupted' \in [AdapterIds -> SUBSET {"disabling", "auditing"}]
    BY <1>9 DEF DisableAdapter, Kept, PullerTypeOK
  <2>4. cutOff' \subseteq AdapterIds
    BY <1>9 DEF DisableAdapter, Kept, PullerTypeOK
  <2>5. QED
    BY <2>1, <2>2, <2>3, <2>4 DEF PullerTypeOK
<1>10. ASSUME NEW p \in Pullers, NEW a \in AdapterIds, EmitAdapterDisabledAudit(p, a)
       PROVE  PullerTypeOK'
  <2>1. adapters' \in [AdapterIds -> AdapterRow]
    BY <1>10 DEF EmitAdapterDisabledAudit, Onward, Waits, PullerTypeOK,
       AdapterRow
  <2>2. puller' \in [Pullers -> Pulling]
    BY <1>10, EmptyList DEF EmitAdapterDisabledAudit, Onward, Waits,
       PullerTypeOK, Pulling, Tried
  <2>3. interrupted' \in [AdapterIds -> SUBSET {"disabling", "auditing"}]
    BY <1>10 DEF EmitAdapterDisabledAudit, Onward, Waits, PullerTypeOK
  <2>4. cutOff' \subseteq AdapterIds
    BY <1>10 DEF EmitAdapterDisabledAudit, Onward, Waits, PullerTypeOK
  <2>5. QED
    BY <2>1, <2>2, <2>3, <2>4 DEF PullerTypeOK
<1>11. ASSUME NEW p \in Pullers, StatementFails(p)
       PROVE  PullerTypeOK'
  <2>1. adapters' \in [AdapterIds -> AdapterRow]
    BY <1>11 DEF StatementFails, CutShort, Onward, Waits, PullerTypeOK,
       AdapterRow
  <2>2. puller' \in [Pullers -> Pulling]
    BY <1>11, EmptyList DEF StatementFails, CutShort, Onward, Waits,
       PullerTypeOK, Pulling, Tried
  <2>3. interrupted' \in [AdapterIds -> SUBSET {"disabling", "auditing"}]
    BY <1>11 DEF StatementFails, CutShort, Onward, Waits, PullerTypeOK
  <2>4. cutOff' \subseteq AdapterIds
    BY <1>11 DEF StatementFails, CutShort, Onward, Waits, PullerTypeOK
  <2>5. QED
    BY <2>1, <2>2, <2>3, <2>4 DEF PullerTypeOK
<1>12. ASSUME NEW p \in Pullers, PullerRestarts(p)
       PROVE  PullerTypeOK'
  <2>1. adapters' \in [AdapterIds -> AdapterRow]
    BY <1>12 DEF PullerRestarts, CutShort, Waits, PullerTypeOK, AdapterRow
  <2>2. puller' \in [Pullers -> Pulling]
    BY <1>12, EmptyList DEF PullerRestarts, CutShort, Waits, PullerTypeOK,
       Pulling, Tried
  <2>3. interrupted' \in [AdapterIds -> SUBSET {"disabling", "auditing"}]
    BY <1>12 DEF PullerRestarts, CutShort, Waits, PullerTypeOK
  <2>4. cutOff' \subseteq AdapterIds
    BY <1>12 DEF PullerRestarts, CutShort, Waits, PullerTypeOK
  <2>5. QED
    BY <2>1, <2>2, <2>3, <2>4 DEF PullerTypeOK
<1>13. CASE UNCHANGED pullerVars
  BY <1>13 DEF pullerVars, PullerTypeOK
<1>14. QED
  BY <1>1, <1>2, <1>3, <1>4, <1>5, <1>6, <1>7, <1>8, <1>9, <1>10, <1>11, <1>12, <1>13 DEF
     PullerNext

\* Only failures of a kept row are counted.
LEMMA FreshStep ==
    ASSUME PullerTypeOK, FreshRowsCountNothing, [PullerNext]_pullerVars
    PROVE  FreshRowsCountNothing'
<1>1. ASSUME NEW a \in AdapterIds, NEW s \in Setups, NEW enabled \in BOOLEAN, CreateAdapter(a, s, enabled)
      PROVE  FreshRowsCountNothing'
  BY <1>1, PullerAssumption DEF CreateAdapter, PullerTypeOK, AdapterRow, FreshRowsCountNothing
<1>2. ASSUME NEW a \in AdapterIds, NEW s \in Setups, NEW enabled \in BOOLEAN, UpdateAdapter(a, s, enabled)
      PROVE  FreshRowsCountNothing'
  BY <1>2, PullerAssumption DEF UpdateAdapter, Kept, PullerTypeOK, AdapterRow,
     FreshRowsCountNothing
<1>3. ASSUME NEW a \in AdapterIds, DeleteAdapter(a)
      PROVE  FreshRowsCountNothing'
  BY <1>3, PullerAssumption DEF DeleteAdapter, Kept, PullerTypeOK, AdapterRow,
     FreshRowsCountNothing
<1>4. ASSUME NEW a \in AdapterIds, BackoffEnds(a)
      PROVE  FreshRowsCountNothing'
  BY <1>4, PullerAssumption DEF BackoffEnds, Kept, PullerTypeOK, AdapterRow,
     FreshRowsCountNothing
<1>5. ASSUME NEW p \in Pullers, ListDue(p)
      PROVE  FreshRowsCountNothing'
  BY <1>5, PullerAssumption DEF ListDue, PullerTypeOK, AdapterRow, FreshRowsCountNothing
<1>6. ASSUME NEW p \in Pullers, NEW a \in AdapterIds, PullFromAdapter(p, a)
      PROVE  FreshRowsCountNothing'
  BY <1>6, PullerAssumption DEF PullFromAdapter, PullerTypeOK, AdapterRow,
     FreshRowsCountNothing
<1>7. ASSUME NEW p \in Pullers, NEW a \in AdapterIds, RecordAdapterSuccess(p, a)
      PROVE  FreshRowsCountNothing'
  BY <1>7, PullerAssumption DEF RecordAdapterSuccess, Onward, Waits, PullerTypeOK, AdapterRow,
     FreshRowsCountNothing
<1>8. ASSUME NEW p \in Pullers, NEW a \in AdapterIds, RecordAdapterFailure(p, a)
      PROVE  FreshRowsCountNothing'
  <2>1. CASE a \in Kept
    <3>1. adapters'[a].row = "kept" /\ \A b \in AdapterIds \ {a} : adapters'[b] = adapters[b]
      BY <1>8, <2>1 DEF RecordAdapterFailure, Kept, PullerTypeOK, AdapterRow
    <3>2. QED
      BY <3>1 DEF FreshRowsCountNothing
  <2>2. CASE a \notin Kept
    BY <1>8, <2>2 DEF RecordAdapterFailure, FreshRowsCountNothing
  <2>3. QED
    BY <2>1, <2>2
<1>9. ASSUME NEW p \in Pullers, NEW a \in AdapterIds, DisableAdapter(p, a)
      PROVE  FreshRowsCountNothing'
  BY <1>9, PullerAssumption DEF DisableAdapter, Kept, PullerTypeOK, AdapterRow,
     FreshRowsCountNothing
<1>10. ASSUME NEW p \in Pullers, NEW a \in AdapterIds, EmitAdapterDisabledAudit(p, a)
       PROVE  FreshRowsCountNothing'
  BY <1>10, PullerAssumption DEF EmitAdapterDisabledAudit, Onward, Waits, PullerTypeOK,
     AdapterRow, FreshRowsCountNothing
<1>11. ASSUME NEW p \in Pullers, StatementFails(p)
       PROVE  FreshRowsCountNothing'
  BY <1>11, PullerAssumption DEF StatementFails, CutShort, Onward, Waits, PullerTypeOK,
     AdapterRow, FreshRowsCountNothing
<1>12. ASSUME NEW p \in Pullers, PullerRestarts(p)
       PROVE  FreshRowsCountNothing'
  BY <1>12, PullerAssumption DEF PullerRestarts, CutShort, Waits, PullerTypeOK, AdapterRow,
     FreshRowsCountNothing
<1>13. CASE UNCHANGED pullerVars
  BY <1>13 DEF pullerVars, PullerTypeOK, AdapterRow, FreshRowsCountNothing
<1>14. QED
  BY <1>1, <1>2, <1>3, <1>4, <1>5, <1>6, <1>7, <1>8, <1>9, <1>10, <1>11, <1>12, <1>13 DEF
     PullerNext

\* The step that counts to the threshold is the one that goes on to disable.
LEMMA CutOffStep ==
    ASSUME PullerTypeOK, FreshRowsCountNothing, FailingAdapterIsCutOff, [PullerNext]_pullerVars
    PROVE  FailingAdapterIsCutOff'
<1>1. ASSUME NEW a \in AdapterIds, NEW s \in Setups, NEW enabled \in BOOLEAN, CreateAdapter(a, s, enabled)
      PROVE  FailingAdapterIsCutOff'
  <2> SUFFICES ASSUME NEW b \in AdapterIds, adapters'[b].row = "kept", adapters'[b].enabled,
                      adapters'[b].failures >= adapterDisableThreshold
               PROVE  AtStep(b, "disabling")' \/ "disabling" \in interrupted'[b]
    BY DEF FailingAdapterIsCutOff, Kept
  <2>1. adapters[b].row = "kept" /\ adapters[b].enabled /\ adapters[b].failures >= adapterDisableThreshold
    BY <1>1, PullerAssumption DEF CreateAdapter, Kept, PullerTypeOK, AdapterRow, FreshRowsCountNothing
  <2>2. AtStep(b, "disabling") => AtStep(b, "disabling")'
    BY <1>1 DEF CreateAdapter, Kept, AtStep, PullerTypeOK, Pulling
  <2>3. "disabling" \in interrupted[b] => "disabling" \in interrupted'[b]
    BY <1>1 DEF CreateAdapter, PullerTypeOK
  <2>4. QED
    BY <2>1, <2>2, <2>3 DEF FailingAdapterIsCutOff, Kept
<1>2. ASSUME NEW a \in AdapterIds, NEW s \in Setups, NEW enabled \in BOOLEAN, UpdateAdapter(a, s, enabled)
      PROVE  FailingAdapterIsCutOff'
  <2> SUFFICES ASSUME NEW b \in AdapterIds, adapters'[b].row = "kept", adapters'[b].enabled,
                      adapters'[b].failures >= adapterDisableThreshold
               PROVE  AtStep(b, "disabling")' \/ "disabling" \in interrupted'[b]
    BY DEF FailingAdapterIsCutOff, Kept
  <2>1. CASE enabled /\ b = a
    BY <1>2, <2>1 DEF UpdateAdapter, PullerTypeOK
  <2>2. CASE ~(enabled /\ b = a)
    <3>1. adapters[b].row = "kept" /\ adapters[b].enabled /\ adapters[b].failures >= adapterDisableThreshold
      BY <1>2, <2>2 DEF UpdateAdapter, Kept, PullerTypeOK, AdapterRow
    <3>2. interrupted'[b] = interrupted[b]
      BY <1>2, <2>2 DEF UpdateAdapter, PullerTypeOK
    <3>3. AtStep(b, "disabling") => AtStep(b, "disabling")'
      BY <1>2 DEF UpdateAdapter, AtStep
    <3>4. QED
      BY <3>1, <3>2, <3>3 DEF FailingAdapterIsCutOff, Kept
  <2>3. QED
    BY <2>1, <2>2
<1>3. ASSUME NEW a \in AdapterIds, DeleteAdapter(a)
      PROVE  FailingAdapterIsCutOff'
  <2> SUFFICES ASSUME NEW b \in AdapterIds, adapters'[b].row = "kept", adapters'[b].enabled,
                      adapters'[b].failures >= adapterDisableThreshold
               PROVE  AtStep(b, "disabling")' \/ "disabling" \in interrupted'[b]
    BY DEF FailingAdapterIsCutOff, Kept
  <2>1. adapters[b].row = "kept" /\ adapters[b].enabled /\ adapters[b].failures >= adapterDisableThreshold
    BY <1>3, PullerAssumption DEF DeleteAdapter, Kept, Kept, PullerTypeOK, AdapterRow, FreshRowsCountNothing
  <2>2. AtStep(b, "disabling") => AtStep(b, "disabling")'
    BY <1>3 DEF DeleteAdapter, Kept, Kept, AtStep, PullerTypeOK, Pulling
  <2>3. "disabling" \in interrupted[b] => "disabling" \in interrupted'[b]
    BY <1>3 DEF DeleteAdapter, Kept, PullerTypeOK
  <2>4. QED
    BY <2>1, <2>2, <2>3 DEF FailingAdapterIsCutOff, Kept
<1>4. ASSUME NEW a \in AdapterIds, BackoffEnds(a)
      PROVE  FailingAdapterIsCutOff'
  <2> SUFFICES ASSUME NEW b \in AdapterIds, adapters'[b].row = "kept", adapters'[b].enabled,
                      adapters'[b].failures >= adapterDisableThreshold
               PROVE  AtStep(b, "disabling")' \/ "disabling" \in interrupted'[b]
    BY DEF FailingAdapterIsCutOff, Kept
  <2>1. adapters[b].row = "kept" /\ adapters[b].enabled /\ adapters[b].failures >= adapterDisableThreshold
    BY <1>4, PullerAssumption DEF BackoffEnds, Kept, Kept, PullerTypeOK, AdapterRow, FreshRowsCountNothing
  <2>2. AtStep(b, "disabling") => AtStep(b, "disabling")'
    BY <1>4 DEF BackoffEnds, Kept, Kept, AtStep, PullerTypeOK, Pulling
  <2>3. "disabling" \in interrupted[b] => "disabling" \in interrupted'[b]
    BY <1>4 DEF BackoffEnds, Kept, PullerTypeOK
  <2>4. QED
    BY <2>1, <2>2, <2>3 DEF FailingAdapterIsCutOff, Kept
<1>5. ASSUME NEW p \in Pullers, ListDue(p)
      PROVE  FailingAdapterIsCutOff'
  <2> SUFFICES ASSUME NEW b \in AdapterIds, adapters'[b].row = "kept", adapters'[b].enabled,
                      adapters'[b].failures >= adapterDisableThreshold
               PROVE  AtStep(b, "disabling")' \/ "disabling" \in interrupted'[b]
    BY DEF FailingAdapterIsCutOff, Kept
  <2>1. adapters[b].row = "kept" /\ adapters[b].enabled /\ adapters[b].failures >= adapterDisableThreshold
    BY <1>5, PullerAssumption DEF ListDue, Kept, PullerTypeOK, AdapterRow, FreshRowsCountNothing
  <2>2. AtStep(b, "disabling") => AtStep(b, "disabling")'
    BY <1>5 DEF ListDue, Kept, AtStep, PullerTypeOK, Pulling
  <2>3. "disabling" \in interrupted[b] => "disabling" \in interrupted'[b]
    BY <1>5 DEF ListDue, PullerTypeOK
  <2>4. QED
    BY <2>1, <2>2, <2>3 DEF FailingAdapterIsCutOff, Kept
<1>6. ASSUME NEW p \in Pullers, NEW a \in AdapterIds, PullFromAdapter(p, a)
      PROVE  FailingAdapterIsCutOff'
  <2> SUFFICES ASSUME NEW b \in AdapterIds, adapters'[b].row = "kept", adapters'[b].enabled,
                      adapters'[b].failures >= adapterDisableThreshold
               PROVE  AtStep(b, "disabling")' \/ "disabling" \in interrupted'[b]
    BY DEF FailingAdapterIsCutOff, Kept
  <2>1. adapters[b].row = "kept" /\ adapters[b].enabled /\ adapters[b].failures >= adapterDisableThreshold
    BY <1>6, PullerAssumption DEF PullFromAdapter, Kept, PullerTypeOK, AdapterRow, FreshRowsCountNothing
  <2>2. AtStep(b, "disabling") => AtStep(b, "disabling")'
    BY <1>6, FetchOutcome DEF PullFromAdapter, Kept, AtStep, PullerTypeOK, Pulling
  <2>3. "disabling" \in interrupted[b] => "disabling" \in interrupted'[b]
    BY <1>6 DEF PullFromAdapter, PullerTypeOK
  <2>4. QED
    BY <2>1, <2>2, <2>3 DEF FailingAdapterIsCutOff, Kept
<1>7. ASSUME NEW p \in Pullers, NEW a \in AdapterIds, RecordAdapterSuccess(p, a)
      PROVE  FailingAdapterIsCutOff'
  <2> SUFFICES ASSUME NEW b \in AdapterIds, adapters'[b].row = "kept", adapters'[b].enabled,
                      adapters'[b].failures >= adapterDisableThreshold
               PROVE  AtStep(b, "disabling")' \/ "disabling" \in interrupted'[b]
    BY DEF FailingAdapterIsCutOff, Kept
  <2>1. adapters[b].row = "kept" /\ adapters[b].enabled /\ adapters[b].failures >= adapterDisableThreshold
    BY <1>7, PullerAssumption DEF RecordAdapterSuccess, Onward, Waits, Kept, PullerTypeOK, AdapterRow, FreshRowsCountNothing
  <2>2. AtStep(b, "disabling") => AtStep(b, "disabling")'
    BY <1>7 DEF RecordAdapterSuccess, Onward, Waits, Kept, AtStep, PullerTypeOK, Pulling
  <2>3. "disabling" \in interrupted[b] => "disabling" \in interrupted'[b]
    BY <1>7 DEF RecordAdapterSuccess, Onward, Waits, PullerTypeOK
  <2>4. QED
    BY <2>1, <2>2, <2>3 DEF FailingAdapterIsCutOff, Kept
<1>8. ASSUME NEW p \in Pullers, NEW a \in AdapterIds, RecordAdapterFailure(p, a)
      PROVE  FailingAdapterIsCutOff'
  <2> SUFFICES ASSUME NEW b \in AdapterIds, adapters'[b].row = "kept", adapters'[b].enabled,
                      adapters'[b].failures >= adapterDisableThreshold
               PROVE  AtStep(b, "disabling")' \/ "disabling" \in interrupted'[b]
    BY DEF FailingAdapterIsCutOff, Kept
  <2>1. AtStep(b, "disabling") => AtStep(b, "disabling")'
    BY <1>8 DEF RecordAdapterFailure, Onward, Waits, AtStep, PullerTypeOK, Pulling
  <2>2. CASE a \in Kept /\ b = a
    <3>1. adapters[a].failures \in Nat /\ adapters'[a].failures = adapters[a].failures + 1
      BY <1>8, <2>2 DEF RecordAdapterFailure, PullerTypeOK, AdapterRow
    <3>2. ReachesThreshold(adapters[a].failures + 1)
      BY <3>1, <2>2, PullerAssumption DEF ReachesThreshold
    <3>3. puller'[p].at = "disabling" /\ puller'[p].on = {a}
      BY <1>8, <2>2, <3>2 DEF RecordAdapterFailure, PullerTypeOK, Pulling
    <3>4. QED
      BY <3>3, <2>2 DEF AtStep
  <2>3. CASE ~(a \in Kept /\ b = a)
    <3>1. adapters'[b] = adapters[b] /\ interrupted'[b] = interrupted[b]
      BY <1>8, <2>3 DEF RecordAdapterFailure, PullerTypeOK
    <3>2. QED
      BY <3>1, <2>1 DEF FailingAdapterIsCutOff, Kept
  <2>4. QED
    BY <2>2, <2>3
<1>9. ASSUME NEW p \in Pullers, NEW a \in AdapterIds, DisableAdapter(p, a)
      PROVE  FailingAdapterIsCutOff'
  <2> SUFFICES ASSUME NEW b \in AdapterIds, adapters'[b].row = "kept", adapters'[b].enabled,
                      adapters'[b].failures >= adapterDisableThreshold
               PROVE  AtStep(b, "disabling")' \/ "disabling" \in interrupted'[b]
    BY DEF FailingAdapterIsCutOff, Kept
  <2>1. b # a /\ adapters'[b] = adapters[b] /\ interrupted'[b] = interrupted[b]
    BY <1>9 DEF DisableAdapter, PullerTypeOK, AdapterRow
  <2>2. AtStep(b, "disabling") => AtStep(b, "disabling")'
    BY <1>9, <2>1 DEF DisableAdapter, AtStep, PullerTypeOK, Pulling
  <2>3. QED
    BY <2>1, <2>2 DEF FailingAdapterIsCutOff, Kept
<1>10. ASSUME NEW p \in Pullers, NEW a \in AdapterIds, EmitAdapterDisabledAudit(p, a)
       PROVE  FailingAdapterIsCutOff'
  <2> SUFFICES ASSUME NEW b \in AdapterIds, adapters'[b].row = "kept", adapters'[b].enabled,
                      adapters'[b].failures >= adapterDisableThreshold
               PROVE  AtStep(b, "disabling")' \/ "disabling" \in interrupted'[b]
    BY DEF FailingAdapterIsCutOff, Kept
  <2>1. adapters[b].row = "kept" /\ adapters[b].enabled /\ adapters[b].failures >= adapterDisableThreshold
    BY <1>10, PullerAssumption DEF EmitAdapterDisabledAudit, Onward, Waits, Kept, PullerTypeOK, AdapterRow, FreshRowsCountNothing
  <2>2. AtStep(b, "disabling") => AtStep(b, "disabling")'
    BY <1>10 DEF EmitAdapterDisabledAudit, Onward, Waits, Kept, AtStep, PullerTypeOK, Pulling
  <2>3. "disabling" \in interrupted[b] => "disabling" \in interrupted'[b]
    BY <1>10 DEF EmitAdapterDisabledAudit, Onward, Waits, PullerTypeOK
  <2>4. QED
    BY <2>1, <2>2, <2>3 DEF FailingAdapterIsCutOff, Kept
<1>11. ASSUME NEW p \in Pullers, StatementFails(p)
       PROVE  FailingAdapterIsCutOff'
  <2> SUFFICES ASSUME NEW b \in AdapterIds, adapters'[b].row = "kept", adapters'[b].enabled,
                      adapters'[b].failures >= adapterDisableThreshold
               PROVE  AtStep(b, "disabling")' \/ "disabling" \in interrupted'[b]
    BY DEF FailingAdapterIsCutOff, Kept
  <2>1. adapters'[b] = adapters[b]
    BY <1>11 DEF StatementFails
  <2>2. "disabling" \in interrupted[b] => "disabling" \in interrupted'[b]
    BY <1>11 DEF StatementFails, CutShort
  <2>3. ASSUME NEW q \in Pullers, puller[q].at = "disabling", puller[q].on = {b}
        PROVE  AtStep(b, "disabling")' \/ "disabling" \in interrupted'[b]
    <3>1. CASE q = p
      BY <1>11, <2>3, <3>1 DEF StatementFails, CutShort
    <3>2. CASE q # p
      BY <1>11, <2>3, <3>2 DEF StatementFails, Onward, Waits, AtStep, PullerTypeOK
    <3>3. QED
      BY <3>1, <3>2
  <2>4. QED
    BY <2>1, <2>2, <2>3 DEF FailingAdapterIsCutOff, Kept, AtStep
<1>12. ASSUME NEW p \in Pullers, PullerRestarts(p)
       PROVE  FailingAdapterIsCutOff'
  <2> SUFFICES ASSUME NEW b \in AdapterIds, adapters'[b].row = "kept", adapters'[b].enabled,
                      adapters'[b].failures >= adapterDisableThreshold
               PROVE  AtStep(b, "disabling")' \/ "disabling" \in interrupted'[b]
    BY DEF FailingAdapterIsCutOff, Kept
  <2>1. adapters'[b] = adapters[b]
    BY <1>12 DEF PullerRestarts
  <2>2. "disabling" \in interrupted[b] => "disabling" \in interrupted'[b]
    BY <1>12 DEF PullerRestarts, CutShort
  <2>3. ASSUME NEW q \in Pullers, puller[q].at = "disabling", puller[q].on = {b}
        PROVE  AtStep(b, "disabling")' \/ "disabling" \in interrupted'[b]
    <3>1. CASE q = p
      BY <1>12, <2>3, <3>1 DEF PullerRestarts, CutShort
    <3>2. CASE q # p
      BY <1>12, <2>3, <3>2 DEF PullerRestarts, Onward, Waits, AtStep, PullerTypeOK
    <3>3. QED
      BY <3>1, <3>2
  <2>4. QED
    BY <2>1, <2>2, <2>3 DEF FailingAdapterIsCutOff, Kept, AtStep
<1>13. CASE UNCHANGED pullerVars
  BY <1>13 DEF pullerVars, PullerTypeOK, AdapterRow, Pulling, AtStep, Kept,
     FreshRowsCountNothing, FailingAdapterIsCutOff
<1>14. QED
  BY <1>1, <1>2, <1>3, <1>4, <1>5, <1>6, <1>7, <1>8, <1>9, <1>10, <1>11, <1>12, <1>13 DEF
     PullerNext

\* And the one that disables goes on to report.
LEMMA ReportStep ==
    ASSUME PullerTypeOK, CutOffIsReported, [PullerNext]_pullerVars
    PROVE  CutOffIsReported'
<1>1. ASSUME NEW a \in AdapterIds, NEW s \in Setups, NEW enabled \in BOOLEAN, CreateAdapter(a, s, enabled)
      PROVE  CutOffIsReported'
  BY <1>1, PullerAssumption, FetchOutcome DEF CreateAdapter, PullerTypeOK, AdapterRow, Pulling,
     AtStep, Kept, CutOffIsReported
<1>2. ASSUME NEW a \in AdapterIds, NEW s \in Setups, NEW enabled \in BOOLEAN, UpdateAdapter(a, s, enabled)
      PROVE  CutOffIsReported'
  BY <1>2, PullerAssumption, FetchOutcome DEF UpdateAdapter, Kept, PullerTypeOK, AdapterRow,
     Pulling, AtStep, CutOffIsReported
<1>3. ASSUME NEW a \in AdapterIds, DeleteAdapter(a)
      PROVE  CutOffIsReported'
  BY <1>3, PullerAssumption, FetchOutcome DEF DeleteAdapter, Kept, PullerTypeOK, AdapterRow,
     Pulling, AtStep, CutOffIsReported
<1>4. ASSUME NEW a \in AdapterIds, BackoffEnds(a)
      PROVE  CutOffIsReported'
  BY <1>4, PullerAssumption, FetchOutcome DEF BackoffEnds, Kept, PullerTypeOK, AdapterRow,
     Pulling, AtStep, CutOffIsReported
<1>5. ASSUME NEW p \in Pullers, ListDue(p)
      PROVE  CutOffIsReported'
  BY <1>5, PullerAssumption, FetchOutcome DEF ListDue, PullerTypeOK, AdapterRow, Pulling,
     AtStep, Kept, CutOffIsReported
<1>6. ASSUME NEW p \in Pullers, NEW a \in AdapterIds, PullFromAdapter(p, a)
      PROVE  CutOffIsReported'
  BY <1>6, PullerAssumption, FetchOutcome DEF PullFromAdapter, PullerTypeOK, AdapterRow,
     Pulling, AtStep, Kept, CutOffIsReported
<1>7. ASSUME NEW p \in Pullers, NEW a \in AdapterIds, RecordAdapterSuccess(p, a)
      PROVE  CutOffIsReported'
  BY <1>7, PullerAssumption, FetchOutcome DEF RecordAdapterSuccess, Onward, Waits,
     PullerTypeOK, AdapterRow, Pulling, AtStep, Kept, CutOffIsReported
<1>8. ASSUME NEW p \in Pullers, NEW a \in AdapterIds, RecordAdapterFailure(p, a)
      PROVE  CutOffIsReported'
  <2>1. \A b \in AdapterIds : AtStep(b, "auditing") => AtStep(b, "auditing")'
    BY <1>8 DEF RecordAdapterFailure, Onward, Waits, AtStep, PullerTypeOK, Pulling
  <2>2. \A b \in AdapterIds : "auditing" \in interrupted[b] => "auditing" \in interrupted'[b]
    BY <1>8 DEF RecordAdapterFailure, PullerTypeOK
  <2>3. cutOff' = cutOff /\ reported' = reported
    BY <1>8 DEF RecordAdapterFailure
  <2>4. QED
    BY <2>1, <2>2, <2>3 DEF CutOffIsReported, PullerTypeOK
<1>9. ASSUME NEW p \in Pullers, NEW a \in AdapterIds, DisableAdapter(p, a)
      PROVE  CutOffIsReported'
  <2>1. \A b \in AdapterIds : AtStep(b, "auditing") => AtStep(b, "auditing")'
    BY <1>9 DEF DisableAdapter, AtStep, PullerTypeOK, Pulling
  <2>2. AtStep(a, "auditing")'
    BY <1>9 DEF DisableAdapter, AtStep, PullerTypeOK, Pulling
  <2>3. /\ cutOff' \subseteq cutOff \cup {a}
        /\ reported' = reported
        /\ interrupted' = interrupted
    BY <1>9 DEF DisableAdapter
  <2>4. QED
    BY <2>1, <2>2, <2>3 DEF CutOffIsReported, PullerTypeOK
<1>10. ASSUME NEW p \in Pullers, NEW a \in AdapterIds, EmitAdapterDisabledAudit(p, a)
       PROVE  CutOffIsReported'
  BY <1>10, PullerAssumption, FetchOutcome DEF EmitAdapterDisabledAudit, Onward, Waits,
     PullerTypeOK, AdapterRow, Pulling, AtStep, Kept, CutOffIsReported
<1>11. ASSUME NEW p \in Pullers, StatementFails(p)
       PROVE  CutOffIsReported'
  BY <1>11, PullerAssumption, FetchOutcome DEF StatementFails, CutShort, Onward, Waits,
     PullerTypeOK, AdapterRow, Pulling, AtStep, Kept, CutOffIsReported
<1>12. ASSUME NEW p \in Pullers, PullerRestarts(p)
       PROVE  CutOffIsReported'
  BY <1>12, PullerAssumption, FetchOutcome DEF PullerRestarts, CutShort, Waits, PullerTypeOK,
     AdapterRow, Pulling, AtStep, Kept, CutOffIsReported
<1>13. CASE UNCHANGED pullerVars
  BY <1>13 DEF pullerVars, PullerTypeOK, AdapterRow, Pulling, AtStep, Kept, CutOffIsReported
<1>14. QED
  BY <1>1, <1>2, <1>3, <1>4, <1>5, <1>6, <1>7, <1>8, <1>9, <1>10, <1>11, <1>12, <1>13 DEF
     PullerNext

\* The invariant that the cut-off rests on.
LEMMA PullerInvariant == PullerSpec => []PullerInv
<1>1. PullerInit => PullerInv
  <2> SUFFICES ASSUME PullerInit PROVE PullerInv
    OBVIOUS
  <2>1. (CHOOSE s \in Setups : TRUE) \in Setups
    BY PullerAssumption
  <2>2. PullerTypeOK
    BY <2>1, EmptyList DEF PullerInit, PullerTypeOK, AdapterRow, Pulling, Waits
  <2>3. FreshRowsCountNothing /\ AdapterCutOffIsSound
    BY <2>2 DEF PullerInit, PullerTypeOK, FreshRowsCountNothing, AdapterCutOffIsSound, FailingAdapterIsCutOff, CutOffIsReported, Kept
  <2>4. QED
    BY <2>2, <2>3 DEF PullerInv
<1>2. PullerInv /\ [PullerNext]_pullerVars => PullerInv'
  BY PullerTypeStep, FreshStep, CutOffStep, ReportStep DEF PullerInv, AdapterCutOffIsSound
<1>3. QED
  BY <1>1, <1>2, PTL DEF PullerSpec

\* An adapter that has failed as often as the threshold allows is disabled or about to be, and one that the puller
\* disables is reported (workflows/metrics.go).
THEOREM CutOffIsSound == PullerSpec => []AdapterCutOffIsSound
<1>1. PullerInv => AdapterCutOffIsSound
  BY DEF PullerInv
<1>2. QED
  BY <1>1, PullerInvariant, PTL

------------------------------------------------------------------------------
(***************************************************************************)
(* The records of assets: the review of discovered devices, and the        *)
(* inventory's tasks, for any rows, assets, requests, sheets and           *)
(* failures.                                                               *)
(*                                                                         *)
(* RecordsInv has two halves. For the reviews: what an approval has        *)
(* inserted and not committed carries the row's tag, which no asset and    *)
(* no other request has meanwhile (MadeOK, MadeApart), a review has a row  *)
(* (ReviewsSeen), and the asset a row is linked to is there and has the    *)
(* row's tag (LinkOK). For the tasks: an import has looked up no more      *)
(* lines than its sheet has, and nothing of that sheet is in the table     *)
(* (ImportOK), and no two imports have one sheet (SheetsApart), so that    *)
(* the commit puts in a whole sheet that was not there.                    *)
(*                                                                         *)
(* One lemma for each step says what it changes of the request that takes  *)
(* it and of the tables; from these the halves are carried over every      *)
(* step separately.                                                        *)
(***************************************************************************)

Work == [op : {"idle", "ingest", "approve", "ignore", "import", "scan", "update", "delete"},
         at : {"start", "read", "created", "reviewed", "audited", "inserted", "found", "aborted", "written"},
         disc : Discovered \cup {NoRow}, match : AssetIds \cup {NoAsset}, made : AssetIds \cup {NoAsset},
         row : AssetRow, task : Tasks \cup {NoRow}, item : Nat, sheet : Sheets \cup {NoRow},
         lines : Seq(AssetIds \cup {NoAsset})]

\* How far each kind of request may be.
Stages == {<<"idle", "start">>, <<"ingest", "read">>,
           <<"approve", "read">>, <<"approve", "created">>, <<"approve", "reviewed">>, <<"approve", "audited">>,
           <<"ignore", "reviewed">>, <<"ignore", "audited">>,
           <<"import", "inserted">>, <<"import", "found">>, <<"import", "aborted">>,
           <<"scan", "written">>, <<"update", "read">>, <<"delete", "read">>}

\* What a request holds follows from how far it is.
WorkOK(w) ==
    /\ w \in Work /\ <<w.op, w.at>> \in Stages
    /\ w.op \in {"ingest", "approve", "ignore"} => w.disc \in Discovered
    /\ w.op \in {"import", "scan", "update", "delete"} => w.task \in Tasks
    /\ w.op = "import" <=> w.sheet # NoRow
    /\ w.made # NoAsset <=> w.op = "approve" /\ w.at \in {"created", "reviewed", "audited"}
    /\ w.op # "import" => w.lines = <<>>

RecordsTypeOK ==
    /\ asset \in [AssetIds -> Asset]
    /\ \A r \in Requests : WorkOK(work[r])
    /\ work \in [Requests -> Work]
    /\ disc \in [Discovered -> Disc]
    /\ answered \subseteq Discovered \X AssetIds
    /\ task \in [Tasks -> Task]
    /\ item \in Seq(Item)

\* An asset that an approval has made and not committed carries the row's tag, which no
\* asset has meanwhile.
MadeOK(q) ==
    LET w == work[q] IN
    w.made # NoAsset =>
        /\ w.row = [tag |-> synthAssetTag[w.disc], ip |-> w.disc, origin |-> w.disc]
        /\ asset[w.made].life = "unused"
        /\ ~TagTaken(synthAssetTag[w.disc])

\* No two requests make the same asset, or one of the same tag.
MadeApart ==
    \A q, x \in Requests :
        work[q].made # NoAsset /\ work[x].made # NoAsset /\ q # x
            => work[q].made # work[x].made /\ work[q].row.tag # work[x].row.tag

\* A review has a row to review.
ReviewsSeen == \A q \in Requests : work[q].op \in {"approve", "ignore"} => Seen(work[q].disc)

\* The asset a row is linked to is there, with the row's tag.
LinkOK(d) ==
    /\ disc[d].link # NoAsset => Exists(disc[d].link) /\ asset[disc[d].link].row.tag = synthAssetTag[d]
    /\ ~Seen(d) => disc[d].link = NoAsset

ReviewInv ==
    /\ \A q \in Requests : MadeOK(q)
    /\ MadeApart
    /\ ReviewsSeen
    /\ \A d \in Discovered : LinkOK(d)
    /\ ReviewIsSound

\* An import has put in the lines it has come to, and nothing of its sheet is in the table.
ImportOK(q) ==
    LET w == work[q] IN
    w.op = "import" =>
        /\ Known(w.task) /\ Rows(w.sheet) = {}
        /\ Len(w.lines) <= Len(Lines[w.sheet])
        /\ w.at = "found" => Len(w.lines) < Len(Lines[w.sheet])
        /\ \A k \in DOMAIN w.lines : w.lines[k] # NoAsset => Exists(w.lines[k])
SheetsApart == \A q, x \in Requests : work[q].sheet # NoRow /\ q # x => work[q].sheet # work[x].sheet

InventoryInv ==
    /\ \A q \in Requests : ImportOK(q)
    /\ SheetsApart
    /\ \A i \in DOMAIN item : Known(item[i].task)
    /\ ImportIsAllOrNothing

RecordsInv == RecordsTypeOK /\ ReviewInv /\ InventoryInv

\* One request moves and the others stand.
LEMMA OneMoves ==
    ASSUME RecordsTypeOK, NEW r \in Requests, NEW w, WorkOK(w), Does(r, w)
    PROVE  /\ work' \in [Requests -> Work] /\ \A q \in Requests : WorkOK(work'[q])
           /\ work'[r] = w /\ \A q \in Requests \ {r} : work'[q] = work[q]
<1>1. w \in Work /\ work \in [Requests -> Work] /\ \A q \in Requests : WorkOK(work[q])
  BY DEF WorkOK, RecordsTypeOK
<1>2. QED
  BY <1>1 DEF Does

\* A request at rest holds nothing.
LEMMA IdleOK ==
    /\ WorkOK(Idle) /\ Idle \in Work /\ Idle.op = "idle" /\ Idle.made = NoAsset /\ Idle.sheet = NoRow
    /\ Idle.lines = <<>>
<1>1. Unused \in AssetRow
  BY DEF Unused, AssetRow
<1>2. Idle \in Work
  BY <1>1 DEF Idle, Work
<1>3. QED
  BY <1>2 DEF Idle, WorkOK, Stages

\* A request that starts, but for what it works on.
Begun(op, at) == [Idle EXCEPT !.op = op, !.at = at]
Importing(t, s) == [Idle EXCEPT !.op = "import", !.at = "inserted", !.task = t, !.sheet = s]
Scanning(i, t) == [Idle EXCEPT !.op = "scan", !.at = "written", !.item = i, !.task = t]
TaskRead(op, t) == [Idle EXCEPT !.op = op, !.at = "read", !.task = t]
Reviewing(op, at, d) == [Idle EXCEPT !.op = op, !.at = at, !.disc = d]

\* A request that starts: what it holds but what it starts with is as at rest.
LEMMA Starts ==
    ASSUME NEW op \in {"ingest", "approve", "ignore", "import", "scan", "update", "delete"},
           NEW at \in {"read", "reviewed", "inserted", "written"},
           NEW v, v = Begun(op, at)
    PROVE  /\ v \in Work /\ v.op = op /\ v.at = at
           /\ v.made = NoAsset /\ v.sheet = NoRow /\ v.lines = <<>>
<1> DEFINE u == [Idle EXCEPT !.op = op]
<1>1. /\ Idle \in Work /\ Idle.made = NoAsset /\ Idle.sheet = NoRow /\ Idle.lines = <<>>
  BY IdleOK
<1>2. u \in Work /\ u.op = op /\ u.made = NoAsset /\ u.sheet = NoRow /\ u.lines = <<>>
  BY <1>1 DEF Work
<1>3. v = [u EXCEPT !.at = at]
  BY DEF Begun
<1> HIDE DEF u
<1>4. QED
  BY <1>2, <1>3 DEF Work

\* A review, or an ingestion, that starts.
LEMMA StartsReview ==
    ASSUME NEW op \in {"ingest", "approve", "ignore"}, NEW at \in {"read", "reviewed"},
           op = "ignore" <=> at = "reviewed",
           NEW d \in Discovered, NEW a \in AssetIds \cup {NoAsset}, NEW v,
           v = Reviewing(op, at, d) \/ v = [Reviewing(op, at, d) EXCEPT !.match = a]
    PROVE  /\ WorkOK(v) /\ v.op = op /\ v.at = at /\ v.disc = d
           /\ v.made = NoAsset /\ v.sheet = NoRow /\ v.lines = <<>>
<1> DEFINE u == Begun(op, at)
           x == [u EXCEPT !.disc = d]
<1>1. u \in Work /\ u.op = op /\ u.at = at /\ u.made = NoAsset /\ u.sheet = NoRow /\ u.lines = <<>>
  BY Starts
<1>2. v = x \/ v = [x EXCEPT !.match = a]
  BY DEF Begun, Reviewing
<1> HIDE DEF u
<1>3. x \in Work /\ x.op = op /\ x.at = at /\ x.disc = d /\ x.made = NoAsset /\ x.sheet = NoRow /\ x.lines = <<>>
  <2>1. u \in Work /\ u.op = op /\ u.at = at /\ u.made = NoAsset /\ u.sheet = NoRow /\ u.lines = <<>>
    BY <1>1
  <2>2. QED
    BY <2>1 DEF Work
<1> HIDE DEF x
<1>4. v \in Work /\ v.op = op /\ v.at = at /\ v.disc = d /\ v.made = NoAsset /\ v.sheet = NoRow /\ v.lines = <<>>
  BY <1>2, <1>3 DEF Work
<1>5. QED
  BY <1>4 DEF WorkOK, Stages

\* A request to a task that starts.
LEMMA StartsTask ==
    ASSUME NEW op \in {"update", "delete"}, NEW t \in Tasks, NEW v, v = TaskRead(op, t)
    PROVE  WorkOK(v) /\ v.op = op /\ v.made = NoAsset /\ v.sheet = NoRow
<1> DEFINE u == Begun(op, "read")
<1>1. u \in Work /\ u.op = op /\ u.at = "read" /\ u.made = NoAsset /\ u.sheet = NoRow /\ u.lines = <<>>
  BY Starts
<1>2. v = [u EXCEPT !.task = t]
  BY DEF Begun, TaskRead
<1> HIDE DEF u
<1>3. v \in Work /\ v.op = op /\ v.at = "read" /\ v.task = t /\ v.made = NoAsset /\ v.sheet = NoRow /\ v.lines = <<>>
  BY <1>1, <1>2 DEF Work
<1>4. QED
  BY <1>3 DEF WorkOK, Stages

\* An import that starts.
LEMMA StartsImport ==
    ASSUME NEW t \in Tasks, NEW s \in Sheets, NEW v,
           v = Importing(t, s)
    PROVE  /\ WorkOK(v) /\ v.op = "import" /\ v.at = "inserted" /\ v.task = t /\ v.sheet = s
           /\ v.made = NoAsset /\ v.lines = <<>>
<1> DEFINE b == Begun("import", "inserted")
           u == [b EXCEPT !.task = t]
<1>1. /\ u \in Work /\ u.op = "import" /\ u.at = "inserted" /\ u.task = t
      /\ u.made = NoAsset /\ u.lines = <<>>
  <2>1. b \in Work /\ b.op = "import" /\ b.at = "inserted" /\ b.made = NoAsset /\ b.lines = <<>>
    BY Starts
  <2> HIDE DEF b
  <2>2. QED
    BY <2>1 DEF Work
<1>2. v = [u EXCEPT !.sheet = s]
  BY DEF Begun, Importing
<1> HIDE DEF u, b
<1>3. u \in Work /\ u.op = "import" /\ u.at = "inserted" /\ u.task = t /\ u.made = NoAsset /\ u.lines = <<>>
  BY <1>1
<1>4. v \in Work /\ v.op = "import" /\ v.at = "inserted" /\ v.task = t /\ v.sheet = s /\ v.made = NoAsset /\ v.lines = <<>>
  BY <1>2, <1>3 DEF Work
<1>5. s # NoRow
  BY InventoryAssumption
<1>6. QED
  BY <1>4, <1>5 DEF WorkOK, Stages

\* A scan of an item that has written it.
LEMMA StartsScan ==
    ASSUME NEW t \in Tasks, NEW i \in Nat, NEW v,
           v = Scanning(i, t)
    PROVE  WorkOK(v) /\ v.op = "scan" /\ v.made = NoAsset /\ v.sheet = NoRow
<1> DEFINE u == Begun("scan", "written")
           x == [u EXCEPT !.item = i]
<1>1. /\ u \in Work /\ u.op = "scan" /\ u.at = "written" /\ u.made = NoAsset
      /\ u.sheet = NoRow /\ u.lines = <<>>
  BY Starts
<1>2. v = [x EXCEPT !.task = t]
  BY DEF Begun, Scanning
<1> HIDE DEF u
<1>3. u \in Work /\ u.op = "scan" /\ u.at = "written" /\ u.made = NoAsset /\ u.sheet = NoRow /\ u.lines = <<>>
  BY <1>1
<1>4. x \in Work /\ x.op = "scan" /\ x.at = "written" /\ x.made = NoAsset /\ x.sheet = NoRow /\ x.lines = <<>>
  BY <1>3 DEF Work
<1> HIDE DEF x
<1>5. v \in Work /\ v.op = "scan" /\ v.at = "written" /\ v.task = t /\ v.made = NoAsset /\ v.sheet = NoRow /\ v.lines = <<>>
  BY <1>2, <1>4 DEF Work
<1>6. QED
  BY <1>5 DEF WorkOK, Stages

\* Only the request r has moved, to a place it may be in.
Moved(r) ==
    /\ work' \in [Requests -> Work] /\ \A q \in Requests : WorkOK(work'[q])
    /\ \A q \in Requests \ {r} : work'[q] = work[q]

\* What r holds for a review stays, and the import it is on, if any.
KeepsReview(r) == work'[r].op = work[r].op /\ work'[r].disc = work[r].disc
                  /\ work'[r].made = work[r].made /\ work'[r].row = work[r].row
KeepsImport(r) == work'[r].op = "import" /\ work[r].op = "import" /\ work'[r].made = NoAsset
                  /\ work'[r].task = work[r].task /\ work'[r].sheet = work[r].sheet

\* What each action does to its request.
LEMMA EndsMoves ==
    ASSUME RecordsTypeOK, NEW r \in Requests, Ends(r)
    PROVE  Moved(r) /\ work'[r] = Idle
  BY OneMoves, IdleOK DEF Ends, Moved

\* An ingestion looks for the asset.
LEMMA IngestMoves ==
    ASSUME RecordsTypeOK, NEW r \in Requests, NEW d \in Discovered, NEW a \in AssetIds \cup {NoAsset},
           MatchDiscovered(r, d, a)
    PROVE  Moved(r) /\ work'[r].op = "ingest" /\ work'[r].made = NoAsset /\ work'[r].sheet = NoRow
<1>1. PICK w : w = [Reviewing("ingest", "read", d) EXCEPT !.match = a]
  OBVIOUS
<1>2. Does(r, w)
  BY <1>1 DEF MatchDiscovered, Reviewing
<1>3. WorkOK(w) /\ w.op = "ingest" /\ w.made = NoAsset /\ w.sheet = NoRow
  BY <1>1, StartsReview
<1>4. QED
  BY <1>2, <1>3, OneMoves DEF Moved

\* An approval that finds no link goes on.
LEMMA ReadMoves ==
    ASSUME RecordsTypeOK, NEW r \in Requests, NEW d \in Discovered, ReadDiscovered(r, d), work' # work
    PROVE  /\ Moved(r) /\ work'[r].op = "approve" /\ work'[r].made = NoAsset /\ work'[r].disc = d
           /\ work'[r].sheet = NoRow /\ answered' = answered
<1>1. PICK w : w = Reviewing("approve", "read", d)
  OBVIOUS
<1>2. Does(r, w) /\ answered' = answered
  BY <1>1 DEF ReadDiscovered, Reviewing
<1>3. WorkOK(w) /\ w.op = "approve" /\ w.made = NoAsset /\ w.disc = d /\ w.sheet = NoRow
  BY <1>1, StartsReview
<1>4. QED
  BY <1>2, <1>3, OneMoves DEF Moved

\* A row is ignored.
LEMMA IgnoreMoves ==
    ASSUME RecordsTypeOK, NEW r \in Requests, NEW d \in Discovered, IgnoreDiscovered(r, d)
    PROVE  Moved(r) /\ work'[r].op = "ignore" /\ work'[r].made = NoAsset /\ work'[r].disc = d /\ work'[r].sheet = NoRow
<1>1. PICK w : w = Reviewing("ignore", "reviewed", d)
  OBVIOUS
<1>2. Does(r, w)
  BY <1>1 DEF IgnoreDiscovered, Reviewing
<1>3. WorkOK(w) /\ w.op = "ignore" /\ w.made = NoAsset /\ w.disc = d /\ w.sheet = NoRow
  BY <1>1, StartsReview
<1>4. QED
  BY <1>2, <1>3, OneMoves DEF Moved

\* The row an approval inserts.
Promoted(d) == [tag |-> synthAssetTag[d], ip |-> d, origin |-> d]

\* The insert of an approval, which may find the tag taken.
LEMMA PromoteMoves ==
    ASSUME RecordsTypeOK, NEW r \in Requests, NEW a \in AssetIds \cup {NoAsset}, Promote(r, a)
    PROVE  LET d == work[r].disc IN
           /\ Moved(r) /\ work[r].op = "approve" /\ d \in Discovered
           /\ \/ work'[r] = Idle
              \/ /\ work'[r].op = "approve" /\ work'[r].disc = d /\ work'[r].made = a /\ work'[r].row = Promoted(d)
                 /\ a \in AssetIds /\ FreshId(a) /\ ~TagTaken(synthAssetTag[d]) /\ ~TagHeld(r, synthAssetTag[d])
<1> DEFINE d == work[r].disc
<1>1. /\ work[r].op = "approve" /\ WorkOK(work[r]) /\ work[r] \in Work /\ d \in Discovered
      /\ synthAssetTag[d] \in Tags
  BY DiscoveryAssumption DEF Promote, RecordsTypeOK, WorkOK
<1>2. CASE Ends(r)
  BY <1>1, <1>2, EndsMoves
<1>3. CASE ~Ends(r)
  <2> DEFINE u == [work[r] EXCEPT !.at = "created"]
             v == [u EXCEPT !.made = a]
             w == [v EXCEPT !.row = Promoted(d)]
  <2>1. /\ a # NoAsset /\ FreshId(a) /\ ~TagTaken(synthAssetTag[d]) /\ ~TagHeld(r, synthAssetTag[d])
        /\ Does(r, w)
    BY <1>3 DEF Promote, Promoted
  <2>2. Promoted(d) \in AssetRow
    BY <1>1 DEF Promoted, AssetRow
  <2>3. /\ u \in Work /\ u.at = "created" /\ u.op = "approve" /\ u.disc = d
        /\ u.sheet = work[r].sheet /\ u.lines = work[r].lines
    BY <1>1 DEF Work
  <2> HIDE DEF u
  <2>4. /\ v \in Work /\ v.at = "created" /\ v.op = "approve" /\ v.disc = d /\ v.made = a
        /\ v.sheet = work[r].sheet /\ v.lines = work[r].lines
    BY <2>3 DEF Work
  <2> HIDE DEF v
  <2>5. /\ w \in Work /\ w.at = "created" /\ w.op = "approve" /\ w.disc = d /\ w.made = a
        /\ w.row = Promoted(d) /\ w.sheet = work[r].sheet /\ w.lines = work[r].lines
    BY <2>2, <2>4 DEF Work
  <2> HIDE DEF w
  <2>6. WorkOK(w)
    BY <1>1, <2>1, <2>5 DEF WorkOK, Stages
  <2>7. QED
    BY <1>1, <2>1, <2>5, <2>6, OneMoves DEF Moved
<1>4. QED
  BY <1>2, <1>3

\* The later statements of a review.
LEMMA ReviewMoves ==
    ASSUME RecordsTypeOK, NEW r \in Requests, LinkDiscovered(r) \/ AuditReview(r)
    PROVE  Moved(r) /\ KeepsReview(r) /\ work[r].op \in {"approve", "ignore"}
<1>1. WorkOK(work[r]) /\ work[r] \in Work
  BY DEF RecordsTypeOK, WorkOK
<1>2. PICK at \in {"reviewed", "audited"} :
         /\ Does(r, [work[r] EXCEPT !.at = at])
         /\ \/ at = "reviewed" /\ work[r].at = "created"
            \/ at = "audited" /\ work[r].at = "reviewed"
  BY DEF LinkDiscovered, AuditReview
<1> DEFINE w == [work[r] EXCEPT !.at = at]
<1>3. /\ w \in Work /\ w.at = at /\ w.op = work[r].op /\ w.disc = work[r].disc /\ w.made = work[r].made
      /\ w.row = work[r].row /\ w.task = work[r].task /\ w.sheet = work[r].sheet /\ w.lines = work[r].lines
  BY <1>1 DEF Work
<1> HIDE DEF w
<1>4. WorkOK(w) /\ w.op \in {"approve", "ignore"}
  BY <1>1, <1>2, <1>3 DEF WorkOK, Stages
<1>5. Does(r, w)
  BY <1>2 DEF w
<1>6. QED
  BY <1>3, <1>4, <1>5, OneMoves DEF Moved, KeepsReview

\* An import begins.
LEMMA ImportBegins ==
    ASSUME RecordsTypeOK, NEW r \in Requests, NEW t \in Tasks, NEW s \in Sheets, BeginImport(r, t, s)
    PROVE  /\ Moved(r) /\ work'[r].op = "import" /\ work'[r].at = "inserted" /\ work'[r].made = NoAsset
           /\ work'[r].task = t /\ work'[r].sheet = s /\ work'[r].lines = <<>>
<1>1. PICK w : w = Importing(t, s)
  OBVIOUS
<1>2. Does(r, w)
  BY <1>1 DEF BeginImport, Importing
<1>3. /\ WorkOK(w) /\ w.op = "import" /\ w.at = "inserted" /\ w.task = t /\ w.sheet = s
      /\ w.made = NoAsset /\ w.lines = <<>>
  BY <1>1, StartsImport
<1>4. QED
  BY <1>2, <1>3, OneMoves DEF Moved

\* It looks up a line.
LEMMA FindMoves ==
    ASSUME RecordsTypeOK, NEW r \in Requests, NEW a \in AssetIds \cup {NoAsset}, FindLine(r, a)
    PROVE  Moved(r) /\ KeepsImport(r) /\ work'[r].at = "found" /\ work'[r].lines = work[r].lines
<1> DEFINE u == [work[r] EXCEPT !.at = "found"]
           w == [u EXCEPT !.match = a]
<1>1. WorkOK(work[r]) /\ work[r] \in Work /\ work[r].op = "import" /\ Does(r, w)
  BY DEF FindLine, RecordsTypeOK, WorkOK
<1>2. /\ u \in Work /\ u.at = "found" /\ u.op = "import" /\ u.made = work[r].made
      /\ u.task = work[r].task /\ u.sheet = work[r].sheet /\ u.lines = work[r].lines
  BY <1>1 DEF Work
<1> HIDE DEF u
<1>3. /\ w \in Work /\ w.at = "found" /\ w.op = "import" /\ w.made = work[r].made
      /\ w.task = work[r].task /\ w.sheet = work[r].sheet /\ w.lines = work[r].lines
  BY <1>2 DEF Work
<1> HIDE DEF w
<1>4. WorkOK(w) /\ w.made = NoAsset
  BY <1>1, <1>3 DEF WorkOK, Stages
<1>5. QED
  BY <1>1, <1>3, <1>4, OneMoves DEF Moved, KeepsImport

\* It inserts the line's item, or is aborted.
LEMMA InsertMoves ==
    ASSUME RecordsTypeOK, NEW r \in Requests, InsertLine(r)
    PROVE  /\ Moved(r) /\ KeepsImport(r) /\ work[r].at = "found" /\ work'[r].at # "found"
           /\ work[r].match \in AssetIds \cup {NoAsset} /\ work[r].lines \in Seq(AssetIds \cup {NoAsset})
           /\ \/ work'[r].lines = work[r].lines
              \/ /\ work'[r].lines = Append(work[r].lines, work[r].match)
                 /\ work[r].match # NoAsset => Exists(work[r].match)
<1> DEFINE more == Append(work[r].lines, work[r].match)
           u == [work[r] EXCEPT !.at = "inserted"]
           v == [u EXCEPT !.lines = more]
           w == [v EXCEPT !.match = NoAsset]
           x == [work[r] EXCEPT !.at = "aborted"]
<1>1. /\ WorkOK(work[r]) /\ work[r] \in Work /\ work[r].at = "found"
      /\ \/ Does(r, w) /\ (work[r].match # NoAsset => Exists(work[r].match))
         \/ Does(r, x)
  BY DEF InsertLine, RecordsTypeOK, WorkOK
<1>2. work[r].op = "import" /\ work[r].made = NoAsset
  BY <1>1 DEF WorkOK, Stages
<1>3. work[r].match \in AssetIds \cup {NoAsset} /\ work[r].lines \in Seq(AssetIds \cup {NoAsset})
  BY <1>1 DEF Work
<1>4. more \in Seq(AssetIds \cup {NoAsset})
  BY <1>3
<1>5. /\ u \in Work /\ u.at = "inserted" /\ u.op = "import" /\ u.made = NoAsset
      /\ u.task = work[r].task /\ u.sheet = work[r].sheet
  BY <1>1, <1>2 DEF Work
<1>6. /\ x \in Work /\ x.at = "aborted" /\ x.op = "import" /\ x.made = NoAsset
      /\ x.task = work[r].task /\ x.sheet = work[r].sheet /\ x.lines = work[r].lines
  BY <1>1, <1>2 DEF Work
<1> HIDE DEF u, x
<1>7. /\ v \in Work /\ v.at = "inserted" /\ v.op = "import" /\ v.made = NoAsset
      /\ v.task = work[r].task /\ v.sheet = work[r].sheet /\ v.lines = more
  <2> HIDE DEF more
  <2>1. QED
    BY <1>4, <1>5 DEF Work
<1> HIDE DEF v
<1>8. /\ w \in Work /\ w.at = "inserted" /\ w.op = "import" /\ w.made = NoAsset
      /\ w.task = work[r].task /\ w.sheet = work[r].sheet /\ w.lines = more
  <2> HIDE DEF more
  <2>1. QED
    BY <1>7 DEF Work
<1> HIDE DEF w
<1>9. WorkOK(w) /\ WorkOK(x)
  BY <1>1, <1>2, <1>6, <1>8 DEF WorkOK, Stages
<1>10. CASE Does(r, w) /\ (work[r].match # NoAsset => Exists(work[r].match))
  BY <1>1, <1>2, <1>3, <1>8, <1>9, <1>10, OneMoves DEF Moved, KeepsImport
<1>11. CASE Does(r, x)
  BY <1>1, <1>2, <1>3, <1>6, <1>9, <1>11, OneMoves DEF Moved, KeepsImport
<1>12. QED
  BY <1>1, <1>10, <1>11

\* A scan writes an item.
LEMMA ScanMoves ==
    ASSUME RecordsTypeOK, NEW r \in Requests, NEW i \in DOMAIN item, NEW status, WriteItem(r, i, status)
    PROVE  Moved(r) /\ work'[r].op = "scan" /\ work'[r].made = NoAsset /\ work'[r].sheet = NoRow
<1>1. PICK w : w = Scanning(i, item[i].task)
  OBVIOUS
<1>2. Does(r, w)
  BY <1>1 DEF WriteItem, Scanning
<1>3. i \in Nat /\ item[i].task \in Tasks
  <2>1. item \in Seq(Item)
    BY DEF RecordsTypeOK
  <2>2. i \in 1..Len(item) /\ item[i] \in Item
    BY <2>1
  <2>3. QED
    BY <2>2 DEF Item
<1>4. WorkOK(w) /\ w.op = "scan" /\ w.made = NoAsset /\ w.sheet = NoRow
  BY <1>1, <1>3, StartsScan
<1>5. QED
  BY <1>2, <1>4, OneMoves DEF Moved

\* A request reads its task.
LEMMA TaskMoves ==
    ASSUME RecordsTypeOK, NEW r \in Requests, NEW t \in Tasks, NEW op \in {"update", "delete"},
           GetInventoryTask(r, t, op)
    PROVE  Moved(r) /\ work'[r].op = op /\ work'[r].made = NoAsset /\ work'[r].sheet = NoRow
<1>1. PICK w : w = TaskRead(op, t)
  OBVIOUS
<1>2. Does(r, w)
  BY <1>1 DEF GetInventoryTask, TaskRead
<1>3. WorkOK(w) /\ w.op = op /\ w.made = NoAsset /\ w.sheet = NoRow
  BY <1>1, StartsTask
<1>4. QED
  BY <1>2, <1>3, OneMoves DEF Moved

\* The tasks go on: none is forgotten or planned anew, and a completed one is settled.
TasksGoOn ==
    \A t \in Tasks :
        /\ task[t].status # "none" => task'[t].status # "none"
        /\ task'[t].status = "planned" => task[t].status \in {"none", "planned"}
        /\ task[t].status = "completed" => task'[t] = task[t]

\* A task that is started stays a task, and is not planned afterwards.
LEMMA StartGoesOn ==
    ASSUME RecordsTypeOK, NEW t \in Tasks, task' = Started(t)
    PROVE  task' \in [Tasks -> Task] /\ TasksGoOn /\ task'[t].status # "planned"
<1>1. task \in [Tasks -> Task] /\ task[t] \in Task
  BY DEF RecordsTypeOK
<1>2. CASE task[t].status = "planned"
  <2> DEFINE x == [task[t] EXCEPT !.status = "in_progress"]
  <2>1. x \in Task /\ x.status = "in_progress"
    BY <1>1 DEF Task
  <2>2. task' = [task EXCEPT ![t] = x]
    BY <1>2 DEF Started
  <2> HIDE DEF x
  <2>3. QED
    BY <1>1, <1>2, <2>1, <2>2 DEF TasksGoOn
<1>3. CASE task[t].status # "planned"
  BY <1>1, <1>3 DEF Started, TasksGoOn
<1>4. QED
  BY <1>2, <1>3

\* What a request to a task leaves of the table of tasks.
LEMMA TaskStep ==
    ASSUME RecordsTypeOK, NEW t \in Tasks, CreateInventoryTask(t) \/ CompleteInventoryTask(t)
    PROVE  task' \in [Tasks -> Task] /\ TasksGoOn
<1>1. task \in [Tasks -> Task] /\ \A u \in Tasks : task[u] \in Task
  BY DEF RecordsTypeOK
<1>2. CASE CreateInventoryTask(t)
  <2> DEFINE x == [NoTask EXCEPT !.status = "planned"]
  <2>1. x \in Task /\ x.status = "planned"
    BY DEF NoTask, Task
  <2>2. task' = [task EXCEPT ![t] = x] /\ task[t].status = "none"
    BY <1>2 DEF CreateInventoryTask, Known
  <2> HIDE DEF x
  <2>3. QED
    BY <1>1, <2>1, <2>2 DEF TasksGoOn
<1>3. CASE CompleteInventoryTask(t)
  <2> DEFINE x == [task[t] EXCEPT !.status = "completed"]
  <2>1. x \in Task /\ x.status = "completed" /\ (task[t].status = "completed" => x = task[t])
    BY <1>1 DEF Task
  <2>2. task' = [task EXCEPT ![t] = x]
    BY <1>3 DEF CompleteInventoryTask
  <2> HIDE DEF x
  <2>3. QED
    BY <1>1, <2>1, <2>2 DEF TasksGoOn
<1>4. QED
  BY <1>2, <1>3

\* And a write by a request that read the task before.
LEMMA TaskWrite ==
    ASSUME RecordsTypeOK, NEW r \in Requests,
           ActivateTask(r) \/ UpdateInventoryTask(r) \/ SoftDeleteInventoryTask(r)
    PROVE  task' \in [Tasks -> Task] /\ TasksGoOn
<1>1. task \in [Tasks -> Task] /\ \A u \in Tasks : task[u] \in Task
  BY DEF RecordsTypeOK
<1> DEFINE u == work[r].task
<1>2. work[r].op \in {"scan", "update", "delete"} => u \in Tasks
  BY DEF RecordsTypeOK, WorkOK
<1>5. CASE ActivateTask(r)
  <2>1. u \in Tasks /\ (task' = Started(u) \/ task' = task)
    BY <1>2, <1>5 DEF ActivateTask
  <2>2. CASE task' = Started(u)
    BY <2>1, <2>2, StartGoesOn
  <2>3. CASE task' = task
    BY <1>1, <2>3 DEF TasksGoOn
  <2>4. QED
    BY <2>1, <2>2, <2>3
<1>6. CASE UpdateInventoryTask(r)
  <2> DEFINE x == [task[u] EXCEPT !.edited = TRUE]
  <2>1. /\ u \in Tasks
        /\ \/ task' = task
           \/ task' = [task EXCEPT ![u] = x] /\ task[u].status # "completed"
    BY <1>2, <1>6 DEF UpdateInventoryTask
  <2>2. x \in Task /\ x.status = task[u].status
    BY <1>1, <2>1 DEF Task
  <2> HIDE DEF x
  <2>3. QED
    BY <1>1, <2>1, <2>2 DEF TasksGoOn
<1>7. CASE SoftDeleteInventoryTask(r)
  <2> DEFINE x == [task[u] EXCEPT !.deleted = TRUE]
  <2>1. /\ u \in Tasks
        /\ \/ task' = task
           \/ task' = [task EXCEPT ![u] = x] /\ task[u].status = "planned"
    BY <1>2, <1>7 DEF SoftDeleteInventoryTask
  <2>2. x \in Task /\ x.status = task[u].status
    BY <1>1, <2>1 DEF Task
  <2> HIDE DEF x
  <2>3. QED
    BY <1>1, <2>1, <2>2 DEF TasksGoOn
<1>8. QED
  BY <1>5, <1>6, <1>7

\* The items an import adds, and a scan's.
LEMMA LinesAreItems ==
    ASSUME RecordsTypeOK, NEW r \in Requests, work[r].op = "import"
    PROVE  /\ Inserted(work[r]) \in Seq(Item)
           /\ Len(Inserted(work[r])) = Len(work[r].lines)
           /\ \A k \in 1..Len(work[r].lines) :
                 /\ Inserted(work[r])[k].sheet = work[r].sheet
                 /\ Inserted(work[r])[k].task = work[r].task
                 /\ Inserted(work[r])[k].asset = work[r].lines[k]
<1> DEFINE w == work[r]
           n == Len(w.lines)
<1>1. w \in Work /\ WorkOK(w) /\ w.task \in Tasks /\ w.sheet \in Sheets /\ w.lines \in Seq(AssetIds \cup {NoAsset})
  BY DEF RecordsTypeOK, WorkOK, Work
<1>2. DOMAIN w.lines = 1..n /\ n \in Nat /\ \A k \in 1..n : w.lines[k] \in AssetIds \cup {NoAsset}
  BY <1>1
<1> DEFINE f(k) == [status |-> IF w.lines[k] = NoAsset THEN "missing" ELSE "pending",
                    task |-> w.task, asset |-> w.lines[k], sheet |-> w.sheet]
<1>3. \A k \in 1..n : f(k) \in Item
  BY <1>1, <1>2 DEF Item
<1>4. Inserted(w) = [k \in 1..n |-> f(k)]
  BY <1>2 DEF Inserted
<1>5. Inserted(w) \in Seq(Item) /\ Len(Inserted(w)) = n
  <2> HIDE DEF f, n
  <2>1. QED
    BY <1>2, <1>3, <1>4
<1>6. QED
  BY <1>4, <1>5

\* A scan changes the status of its item alone.
LEMMA ScanKeeps ==
    ASSUME RecordsTypeOK, NEW i \in DOMAIN item, NEW status \in {"scanned", "discrepancy"},
           item' = [item EXCEPT ![i].status = status]
    PROVE  /\ item' \in Seq(Item) /\ DOMAIN item' = DOMAIN item
           /\ \A k \in DOMAIN item : item'[k].sheet = item[k].sheet /\ item'[k].task = item[k].task
                                     /\ item'[k].asset = item[k].asset
<1> DEFINE x == [item[i] EXCEPT !.status = status]
<1>1. item \in Seq(Item) /\ i \in 1..Len(item) /\ item[i] \in Item
  BY DEF RecordsTypeOK
<1>2. x \in Item /\ x.sheet = item[i].sheet /\ x.task = item[i].task /\ x.asset = item[i].asset
  BY <1>1 DEF Item
<1>3. item' = [item EXCEPT ![i] = x]
  OBVIOUS
<1> HIDE DEF x
<1>4. QED
  BY <1>1, <1>2, <1>3

\* One request goes on by a step of its own, or starts.
LEMMA EveryMove ==
    ASSUME RecordsTypeOK, NEW r \in Requests,
           \/ Step(r) \/ Rollback(r)
           \/ ReviewStart(r) \/ InventoryStart(r)
    PROVE  Moved(r) \/ work' = work
<1>1. CASE ReviewStep(r)
  <2>1. CASE IngestDiscovered(r) \/ CommitReview(r)
    BY <2>1, EndsMoves DEF IngestDiscovered, CommitReview
  <2>2. CASE \E a \in AssetIds \cup {NoAsset} : Promote(r, a)
    BY <2>2, PromoteMoves
  <2>3. CASE LinkDiscovered(r) \/ AuditReview(r)
    BY <2>3, ReviewMoves
  <2>4. QED
    BY <1>1, <2>1, <2>2, <2>3 DEF ReviewStep
<1>2. CASE InventoryStep(r)
  <2>1. CASE \E a \in AssetIds \cup {NoAsset} : FindLine(r, a)
    BY <2>1, FindMoves
  <2>2. CASE InsertLine(r)
    BY <2>2, InsertMoves
  <2>3. CASE CommitImport(r) \/ ActivateTask(r) \/ UpdateInventoryTask(r) \/ SoftDeleteInventoryTask(r)
    BY <2>3, EndsMoves DEF CommitImport, ActivateTask, UpdateInventoryTask, SoftDeleteInventoryTask
  <2>4. QED
    BY <1>2, <2>1, <2>2, <2>3 DEF InventoryStep
<1>3. CASE Rollback(r)
  BY <1>3, EndsMoves DEF Rollback
<1>4. CASE ReviewStart(r)
  BY <1>4, IngestMoves, ReadMoves, IgnoreMoves DEF ReviewStart
<1>5. CASE InventoryStart(r)
  BY <1>5, ImportBegins, ScanMoves, TaskMoves DEF InventoryStart
<1>6. QED
  BY <1>1, <1>2, <1>3, <1>4, <1>5 DEF Step

\* What a step of a review writes to the three tables it may write.
LEMMA ReviewTypes ==
    ASSUME RecordsTypeOK, NEW r \in Requests, ReviewStep(r) \/ ReviewStart(r)
    PROVE  /\ asset' \in [AssetIds -> Asset] /\ disc' \in [Discovered -> Disc]
           /\ answered' \subseteq Discovered \X AssetIds
<1>1. /\ asset \in [AssetIds -> Asset] /\ disc \in [Discovered -> Disc] /\ WorkOK(work[r]) /\ work[r] \in Work
      /\ answered \subseteq Discovered \X AssetIds
  BY DEF RecordsTypeOK, WorkOK
<1>2. \A e \in Discovered : disc[e] \in Disc
  BY <1>1
<1>3. CASE IngestDiscovered(r)
  <2> DEFINE e == work[r].disc
             n == [NotSeen EXCEPT !.match = work[r].match]
             x == [n EXCEPT !.status = IF work[r].match = NoAsset THEN "pending" ELSE "conflict"]
  <2>1. e \in Discovered /\ work[r].match \in AssetIds \cup {NoAsset}
    BY <1>1, <1>3 DEF IngestDiscovered, WorkOK, Work
  <2>2. x \in Disc
    BY <2>1 DEF NotSeen, Disc, Status
  <2>3. disc' = disc \/ disc' = [disc EXCEPT ![e] = x]
    BY <1>3 DEF IngestDiscovered
  <2> HIDE DEF x
  <2>4. QED
    BY <1>1, <1>3, <2>1, <2>2, <2>3 DEF IngestDiscovered
<1>5. CASE CommitReview(r)
  <2> DEFINE w == work[r]
             e == w.disc
             y == [life |-> "row", row |-> w.row]
             l == IF w.made = NoAsset THEN disc[e].link ELSE w.made
             s == [disc[e] EXCEPT !.status = Outcome(r)]
             x == [s EXCEPT !.link = l]
  <2>1. e \in Discovered /\ w.made \in AssetIds \cup {NoAsset} /\ w.row \in AssetRow
    BY <1>1, <1>5 DEF CommitReview, WorkOK, Work, Stages
  <2>2. /\ asset' = asset \/ (w.made # NoAsset /\ asset' = [asset EXCEPT ![w.made] = y])
        /\ disc' = [disc EXCEPT ![e] = x]
        /\ answered' = answered \/ (w.made # NoAsset /\ answered' = answered \cup {<<e, w.made>>})
    BY <1>5 DEF CommitReview
  <2>3. y \in Asset
    BY <2>1 DEF Asset
  <2>4. x \in Disc
    <3>1. Outcome(r) \in Status /\ disc[e] \in Disc
      BY <1>2, <2>1 DEF Outcome, Status
    <3>2. s \in Disc /\ l \in AssetIds \cup {NoAsset}
      BY <2>1, <3>1 DEF Disc
    <3> HIDE DEF s, l
    <3>3. QED
      BY <3>2 DEF Disc
  <2> HIDE DEF x, y
  <2>5. QED
    BY <1>1, <2>1, <2>2, <2>3, <2>4
<1>6. CASE \E e \in Discovered : ReadDiscovered(r, e)
  <2>1. PICK e \in Discovered : ReadDiscovered(r, e)
    BY <1>6
  <2>2. asset' = asset /\ disc' = disc
    BY <2>1 DEF ReadDiscovered
  <2>3. answered' = answered \/ (Exists(disc[e].link) /\ answered' = answered \cup {<<e, disc[e].link>>})
    BY <2>1 DEF ReadDiscovered
  <2>4. Exists(disc[e].link) => disc[e].link \in AssetIds
    BY <1>2 DEF Disc, Exists
  <2>5. QED
    BY <1>1, <2>2, <2>3, <2>4
<1>7. CASE UNCHANGED <<asset, discVars>>
  BY <1>1, <1>7 DEF discVars
<1>8. QED
  BY <1>3, <1>5, <1>6, <1>7
     DEF ReviewStep, ReviewStart, Promote, LinkDiscovered, AuditReview, MatchDiscovered, IgnoreDiscovered

\* What a step of an inventory writes to the table of items.
LEMMA InventoryTypes ==
    ASSUME RecordsTypeOK, NEW r \in Requests, InventoryStep(r) \/ InventoryStart(r)
    PROVE  asset' = asset /\ task' \in [Tasks -> Task] /\ item' \in Seq(Item) /\ TasksGoOn
<1>1. /\ task \in [Tasks -> Task] /\ item \in Seq(Item) /\ WorkOK(work[r]) /\ work[r] \in Work
  BY DEF RecordsTypeOK, WorkOK
<1>2. UNCHANGED invVars => task' \in [Tasks -> Task] /\ item' \in Seq(Item) /\ TasksGoOn
  BY <1>1 DEF invVars, TasksGoOn
<1>3. CASE CommitImport(r)
  <2>1. work[r].op = "import" /\ asset' = asset
    BY <1>3 DEF CommitImport
  <2>2. CASE UNCHANGED invVars
    BY <1>2, <2>1, <2>2
  <2>3. CASE item' = item \o Inserted(work[r]) /\ task' = Started(work[r].task)
    <3>1. Inserted(work[r]) \in Seq(Item)
      BY <2>1, LinesAreItems
    <3>2. work[r].task \in Tasks
      BY <1>1, <2>1 DEF WorkOK
    <3>3. task' \in [Tasks -> Task] /\ TasksGoOn
      BY <2>3, <3>2, StartGoesOn
    <3>4. QED
      BY <1>1, <2>1, <2>3, <3>1, <3>3
  <2>4. QED
    BY <1>3, <2>2, <2>3 DEF CommitImport
<1>4. CASE \E i \in DOMAIN item, status \in {"scanned", "discrepancy"} : WriteItem(r, i, status)
  <2>1. PICK i \in DOMAIN item, status \in {"scanned", "discrepancy"} : WriteItem(r, i, status)
    BY <1>4
  <2>2. asset' = asset /\ task' = task /\ item' = [item EXCEPT ![i].status = status]
    BY <2>1 DEF WriteItem
  <2>3. item' \in Seq(Item)
    BY <2>2, ScanKeeps
  <2>4. QED
    BY <1>1, <2>2, <2>3 DEF TasksGoOn
<1>5. CASE ActivateTask(r) \/ UpdateInventoryTask(r) \/ SoftDeleteInventoryTask(r)
  <2>1. asset' = asset /\ item' = item
    BY <1>5 DEF ActivateTask, UpdateInventoryTask, SoftDeleteInventoryTask
  <2>2. QED
    BY <1>1, <1>5, <2>1, TaskWrite
<1>6. CASE asset' = asset /\ UNCHANGED invVars
  BY <1>2, <1>6
<1>7. QED
  BY <1>3, <1>4, <1>5, <1>6
     DEF InventoryStep, InventoryStart, FindLine, InsertLine, BeginImport, GetInventoryTask

\* Every step keeps the types, and lets the tasks go on.
LEMMA RecordsType ==
    ASSUME RecordsTypeOK, [RecordsNext]_recordVars
    PROVE  RecordsTypeOK' /\ TasksGoOn
<1>1. /\ asset \in [AssetIds -> Asset] /\ disc \in [Discovered -> Disc] /\ answered \subseteq Discovered \X AssetIds
      /\ task \in [Tasks -> Task] /\ item \in Seq(Item)
      /\ work \in [Requests -> Work] /\ \A q \in Requests : WorkOK(work[q])
  BY DEF RecordsTypeOK
<1>2. UNCHANGED invVars => task' \in [Tasks -> Task] /\ item' \in Seq(Item) /\ TasksGoOn
  BY <1>1 DEF invVars, TasksGoOn
<1>3. UNCHANGED discVars => disc' \in [Discovered -> Disc] /\ answered' \subseteq Discovered \X AssetIds
  BY <1>1 DEF discVars
<1>4. work' = work \/ (\E r \in Requests : Moved(r)) =>
         work' \in [Requests -> Work] /\ \A q \in Requests : WorkOK(work'[q])
  BY <1>1 DEF Moved
<1>5. ASSUME NEW r \in Requests, Step(r) \/ Rollback(r) \/ (ReviewStart(r) /\ UNCHANGED invVars)
                                 \/ (InventoryStart(r) /\ UNCHANGED discVars)
      PROVE  RecordsTypeOK' /\ TasksGoOn
  <2>1. work' \in [Requests -> Work] /\ \A q \in Requests : WorkOK(work'[q])
    BY <1>4, <1>5, EveryMove
  <2>2. CASE (ReviewStep(r) \/ ReviewStart(r)) /\ UNCHANGED invVars
    <3>1. /\ asset' \in [AssetIds -> Asset] /\ disc' \in [Discovered -> Disc]
          /\ answered' \subseteq Discovered \X AssetIds
      BY <2>2, ReviewTypes
    <3>2. QED
      BY <1>2, <2>1, <2>2, <3>1 DEF RecordsTypeOK
  <2>3. CASE (InventoryStep(r) \/ InventoryStart(r)) /\ UNCHANGED discVars
    <3>1. asset' = asset /\ task' \in [Tasks -> Task] /\ item' \in Seq(Item) /\ TasksGoOn
      BY <2>3, InventoryTypes
    <3>2. QED
      BY <1>1, <1>3, <2>1, <2>3, <3>1 DEF RecordsTypeOK
  <2>4. CASE Rollback(r)
    BY <1>1, <1>2, <1>3, <2>1, <2>4 DEF Rollback, RecordsTypeOK
  <2>5. QED
    BY <1>5, <2>2, <2>3, <2>4 DEF Step
<1>6. ASSUME NEW d \in Discovered, NewDevice(d), UNCHANGED invVars
      PROVE  RecordsTypeOK' /\ TasksGoOn
  <2> DEFINE x == [NotSeen EXCEPT !.status = "pending"]
  <2>1. x \in Disc
    BY DEF NotSeen, Disc, Status
  <2>2. disc' = [disc EXCEPT ![d] = x] /\ work' = work /\ asset' = asset /\ answered' = answered
    BY <1>6 DEF NewDevice
  <2> HIDE DEF x
  <2>3. disc' \in [Discovered -> Disc]
    BY <1>1, <2>1, <2>2
  <2>4. QED
    BY <1>1, <1>2, <1>6, <2>2, <2>3 DEF RecordsTypeOK
<1>7. ASSUME NEW a \in AssetIds, UNCHANGED <<discVars, invVars>>,
             NEW row \in AssetRow, CreateAsset(a, row) \/ DeleteAsset(a, ReferencedByDiscovery(a) \/ ReferencedByInventory(a))
      PROVE  RecordsTypeOK' /\ TasksGoOn
  <2>1. work' = work
    BY <1>7 DEF CreateAsset, DeleteAsset
  <2>2. [life |-> "row", row |-> row] \in Asset /\ [life |-> "deleted", row |-> Unused] \in Asset
    BY <1>7 DEF Asset, Unused, AssetRow
  <2>3. asset' \in [AssetIds -> Asset]
    BY <1>1, <1>7, <2>2 DEF CreateAsset, DeleteAsset
  <2>4. QED
    BY <1>1, <1>2, <1>3, <1>7, <2>1, <2>3 DEF RecordsTypeOK
<1>8. ASSUME NEW t \in Tasks, CreateInventoryTask(t) \/ CompleteInventoryTask(t), UNCHANGED discVars
      PROVE  RecordsTypeOK' /\ TasksGoOn
  <2>1. work' = work /\ asset' = asset /\ item' = item
    BY <1>8 DEF CreateInventoryTask, CompleteInventoryTask
  <2>2. task' \in [Tasks -> Task] /\ TasksGoOn
    BY <1>8, TaskStep
  <2>3. QED
    BY <1>1, <1>3, <1>8, <2>1, <2>2 DEF RecordsTypeOK
<1>9. CASE UNCHANGED recordVars
  BY <1>1, <1>9 DEF recordVars, RecordsTypeOK, TasksGoOn
<1>10. ASSUME NEW a \in AssetIds, NEW t \in Tags, NEW ip \in Discovered \cup {NoRow}
       PROVE  [tag |-> t, ip |-> ip, origin |-> NoRow] \in AssetRow
  BY <1>10 DEF AssetRow
<1>11. CASE \E r \in Requests : Step(r) \/ Rollback(r) \/ (ReviewStart(r) /\ UNCHANGED invVars)
                                 \/ (InventoryStart(r) /\ UNCHANGED discVars)
  BY <1>5, <1>11
<1>12. CASE \E d \in Discovered : NewDevice(d) /\ UNCHANGED invVars
  BY <1>6, <1>12
<1>13. CASE \E a \in AssetIds : \E t \in Tags, ip \in Discovered \cup {NoRow} :
              CreateAsset(a, [tag |-> t, ip |-> ip, origin |-> NoRow]) /\ UNCHANGED <<discVars, invVars>>
  BY <1>7, <1>10, <1>13
<1>14. CASE \E a \in AssetIds : DeleteAsset(a, ReferencedByDiscovery(a) \/ ReferencedByInventory(a))
              /\ UNCHANGED <<discVars, invVars>>
  <2>1. Unused \in AssetRow
    BY DEF AssetRow, Unused
  <2>2. QED
    BY <1>7, <1>14, <2>1
<1>15. CASE \E t \in Tasks : (CreateInventoryTask(t) \/ CompleteInventoryTask(t)) /\ UNCHANGED discVars
  BY <1>8, <1>15
<1>16. QED
  BY <1>9, <1>11, <1>12, <1>13, <1>14, <1>15 DEF RecordsNext

\* What every request holds for a review stays, or is let go of, or is taken up of a row that is there.
ReviewsKept ==
    \A q \in Requests :
        \/ KeepsReview(q)
        \/ /\ work'[q].made = NoAsset
           /\ work'[q].op \in {"approve", "ignore"} => Seen(work'[q].disc)

\* No review is decided: rows may come in, and answers repeat what is so.
NothingDecided ==
    /\ asset' = asset /\ audit' = audit
    /\ \A d \in Discovered :
          /\ disc'[d].link = disc[d].link
          /\ disc'[d] = disc[d] \/ (~Seen(d) /\ disc'[d].status \in {"pending", "conflict"})
    /\ \A p \in answered' : disc[p[1]].link = p[2] /\ Exists(p[2])

\* If one request moves so, all do.
LEMMA MovedKeeps ==
    ASSUME RecordsTypeOK, NEW r \in Requests, Moved(r),
           \/ KeepsReview(r)
           \/ /\ work'[r].made = NoAsset
              /\ work'[r].op \in {"approve", "ignore"} => Seen(work'[r].disc)
    PROVE  ReviewsKept
  BY DEF Moved, KeepsReview, ReviewsKept

\* While no review is decided what is known of reviews stands.
LEMMA ReviewStands ==
    ASSUME RecordsTypeOK, RecordsTypeOK', ReviewInv, NothingDecided, ReviewsKept
    PROVE  ReviewInv'
<1>1. \A a \in AssetIds : asset'[a] = asset[a]
  BY DEF NothingDecided
<1>2. \A a : Exists(a)' <=> Exists(a)
  BY DEF NothingDecided, Exists
<1>3. \A t : TagTaken(t)' <=> TagTaken(t)
  BY <1>1, <1>2 DEF TagTaken
<1>4. \A d \in Discovered : Seen(d) => Seen(d)'
  BY DEF NothingDecided, Seen
<1>5. \A q \in Requests : MadeOK(q)'
  <2>1. SUFFICES ASSUME NEW q \in Requests, KeepsReview(q)
                 PROVE  MadeOK(q)'
    BY DEF ReviewsKept, MadeOK
  <2>2. MadeOK(q)
    BY DEF ReviewInv
  <2>3. QED
    BY <1>3, <2>1, <2>2 DEF MadeOK, KeepsReview, NothingDecided
<1>6. MadeApart'
  BY DEF ReviewInv, MadeApart, ReviewsKept, KeepsReview
<1>7. ReviewsSeen'
  <2>1. SUFFICES ASSUME NEW q \in Requests, work'[q].op \in {"approve", "ignore"}
                 PROVE  Seen(work[q].disc)'
    BY DEF ReviewsSeen
  <2>2. work'[q].disc \in Discovered /\ Seen(work'[q].disc)
    BY <2>1 DEF ReviewInv, ReviewsSeen, ReviewsKept, KeepsReview, RecordsTypeOK, WorkOK
  <2>3. QED
    BY <1>4, <2>2 DEF Seen
<1>8. \A d \in Discovered : LinkOK(d)'
  <2>1. SUFFICES ASSUME NEW d \in Discovered
                 PROVE  LinkOK(d)'
    OBVIOUS
  <2>2. LinkOK(d) /\ disc'[d].link = disc[d].link
    BY DEF ReviewInv, NothingDecided
  <2>3. ~Seen(d)' => ~Seen(d)
    BY <1>4
  <2>4. QED
    BY <1>2, <2>2, <2>3 DEF LinkOK, NothingDecided
<1>9. ApprovedAnswerStands'
  <2>1. SUFFICES ASSUME NEW p \in answered'
                 PROVE  disc'[p[1]].link = p[2] /\ Exists(p[2])'
    BY DEF ApprovedAnswerStands
  <2>2. p[1] \in Discovered
    BY DEF RecordsTypeOK
  <2>3. QED
    BY <1>2, <2>2 DEF NothingDecided
<1>10. OneAssetPerDiscovery'
  <2>1. SUFFICES ASSUME NEW a \in AssetIds, Exists(a)', asset'[a].row.origin # NoRow
                 PROVE  disc'[asset'[a].row.origin].link = a
    BY DEF OneAssetPerDiscovery
  <2>2. asset[a].row.origin \in Discovered /\ disc[asset[a].row.origin].link = a
    BY <1>1, <1>2, <2>1 DEF ReviewInv, ReviewIsSound, OneAssetPerDiscovery, RecordsTypeOK, Asset, AssetRow
  <2>3. QED
    BY <1>1, <2>2 DEF NothingDecided
<1>11. ReviewIsAudited'
  BY DEF ReviewInv, ReviewIsSound, ReviewIsAudited, NothingDecided
<1>12. QED
  BY <1>5, <1>6, <1>7, <1>8, <1>9, <1>10, <1>11 DEF ReviewInv, ReviewIsSound

\* The insert of an approval: the asset is apart from what others make, its tag is free.
LEMMA PromoteStep ==
    ASSUME RecordsTypeOK, RecordsTypeOK', ReviewInv,
           NEW r \in Requests, NEW a \in AssetIds \cup {NoAsset}, Promote(r, a)
    PROVE  ReviewInv'
<1> DEFINE d == work[r].disc
<1>1. UNCHANGED <<asset, disc, audit, answered>> /\ work[r].op = "approve"
  BY DEF Promote, discVars
<1>2. /\ Moved(r) /\ d \in Discovered
      /\ \/ work'[r] = Idle
         \/ /\ work'[r].op = "approve" /\ work'[r].disc = d /\ work'[r].made = a /\ work'[r].row = Promoted(d)
            /\ a \in AssetIds /\ FreshId(a) /\ ~TagTaken(synthAssetTag[d]) /\ ~TagHeld(r, synthAssetTag[d])
  BY PromoteMoves
<1>3. NothingDecided
  BY <1>1 DEF NothingDecided, ReviewInv, ReviewIsSound, ApprovedAnswerStands
<1>4. CASE work'[r] = Idle
  <2>1. ReviewsKept
    BY <1>2, <1>4, MovedKeeps, IdleOK
  <2>2. QED
    BY <1>3, <2>1, ReviewStands
<1>5. CASE /\ work'[r].op = "approve" /\ work'[r].disc = d /\ work'[r].made = a /\ work'[r].row = Promoted(d)
           /\ a \in AssetIds /\ FreshId(a) /\ ~TagTaken(synthAssetTag[d]) /\ ~TagHeld(r, synthAssetTag[d])
  <2>1. \A q \in Requests \ {r} : work'[q] = work[q]
    BY <1>2 DEF Moved
  <2>2. \A t : TagTaken(t)' <=> TagTaken(t)
    BY <1>1 DEF TagTaken, Exists
  <2>3. MadeOK(r)'
    BY <1>1, <1>5, <2>2 DEF MadeOK, Promoted, FreshId
  <2>4. \A q \in Requests \ {r} : MadeOK(q)'
    BY <1>1, <2>1, <2>2 DEF MadeOK, ReviewInv
  <2>5. \A q \in Requests \ {r} : work[q].made # NoAsset => work[q].made # a /\ work[q].row.tag # Promoted(d).tag
    BY <1>5 DEF FreshId, TagHeld, HoldsTag, Promoted
  <2>6. MadeApart'
    BY <1>5, <2>1, <2>5 DEF MadeApart, ReviewInv
  <2>7. ReviewsSeen'
    BY <1>1, <1>5, <2>1 DEF ReviewsSeen, ReviewInv, Seen
  <2>8. \A e \in Discovered : LinkOK(e)'
    BY <1>1 DEF LinkOK, ReviewInv, Seen, Exists
  <2>9. ReviewIsSound'
    BY <1>1 DEF ReviewInv, ReviewIsSound, ApprovedAnswerStands, OneAssetPerDiscovery, ReviewIsAudited, Exists
  <2>10. QED
    BY <2>3, <2>4, <2>6, <2>7, <2>8, <2>9 DEF ReviewInv
<1>6. QED
  BY <1>2, <1>4, <1>5

\* The commit of a review: the row it links had no link, for the tag was free.
LEMMA CommitStep ==
    ASSUME RecordsTypeOK, RecordsTypeOK', ReviewInv, NEW r \in Requests, CommitReview(r),
           NEW d, d = work[r].disc, NEW m, m = work[r].made
    PROVE  ReviewInv'
<1> DEFINE w == work[r]
<1>1. /\ w.op \in {"approve", "ignore"} /\ d \in Discovered /\ Seen(d)
      /\ m \in AssetIds \cup {NoAsset}
      /\ w.op = "approve" <=> m # NoAsset
  <2>1. w.at = "audited" /\ WorkOK(w) /\ w \in Work
    BY DEF CommitReview, RecordsTypeOK, WorkOK
  <2>2. w.op \in {"approve", "ignore"}
    BY <2>1 DEF WorkOK, Stages
  <2>3. QED
    BY <2>1, <2>2 DEF WorkOK, Work, ReviewInv, ReviewsSeen
<1>2. /\ Moved(r) /\ work'[r] = Idle /\ Idle.made = NoAsset /\ Idle.op = "idle"
      /\ \A q \in Requests \ {r} : work'[q] = work[q]
  BY EndsMoves, IdleOK DEF CommitReview, Moved
<1>3. /\ asset \in [AssetIds -> Asset] /\ disc \in [Discovered -> Disc]
      /\ audit' = audit \cup {<<Outcome(r), d>>}
  BY DEF RecordsTypeOK, CommitReview
<1> DEFINE link == IF m = NoAsset THEN disc[d].link ELSE m
           s == [disc[d] EXCEPT !.status = Outcome(r)]
           x == [s EXCEPT !.link = link]
<1>4. /\ disc' = [disc EXCEPT ![d] = x] /\ x.status = Outcome(r) /\ x.link = link
  <2>1. disc' = [disc EXCEPT ![d] = x]
    BY DEF CommitReview
  <2>2. disc[d] \in Disc /\ Outcome(r) \in Status /\ link \in AssetIds \cup {NoAsset}
    BY <1>1, <1>3 DEF Disc, Outcome, Status
  <2>3. s \in Disc /\ s.status = Outcome(r)
    BY <2>2 DEF Disc
  <2> HIDE DEF s, link
  <2>4. QED
    BY <2>1, <2>2, <2>3 DEF Disc
<1> HIDE DEF x
<1>5. /\ \A e \in Discovered \ {d} : disc'[e] = disc[e]
      /\ disc'[d].status = Outcome(r) /\ disc'[d].link = link
      /\ \A e \in Discovered : Seen(e) => Seen(e)'
  BY <1>1, <1>3, <1>4 DEF Seen, Outcome
<1>6. ReviewsSeen'
  BY <1>2, <1>5 DEF ReviewsSeen, ReviewInv, RecordsTypeOK, WorkOK
<1>7. MadeApart'
  BY <1>2 DEF MadeApart, ReviewInv
<1>8. ReviewIsAudited'
  BY <1>3, <1>5 DEF ReviewIsAudited, ReviewInv, ReviewIsSound
<1>9. CASE m = NoAsset
  <2>1. asset' = asset /\ answered' = answered /\ link = disc[d].link
    BY <1>9 DEF CommitReview
  <2>2. \A e \in Discovered : disc'[e].link = disc[e].link
    BY <1>5, <2>1
  <2>3. \A q \in Requests : MadeOK(q)'
    BY <1>2, <2>1 DEF MadeOK, ReviewInv, TagTaken, Exists
  <2>4. \A e \in Discovered : LinkOK(e)'
    BY <1>5, <2>1, <2>2 DEF LinkOK, ReviewInv, Exists
  <2>5. ApprovedAnswerStands'
    BY <2>1, <2>2 DEF ApprovedAnswerStands, ReviewInv, ReviewIsSound, RecordsTypeOK, Exists
  <2>6. OneAssetPerDiscovery'
    <3>1. \A a \in AssetIds : asset[a].row.origin \in Discovered \cup {NoRow}
      BY <1>3 DEF Asset, AssetRow
    <3>2. QED
      BY <2>1, <2>2, <3>1 DEF OneAssetPerDiscovery, ReviewInv, ReviewIsSound, Exists
  <2>7. QED
    BY <1>6, <1>7, <1>8, <2>3, <2>4, <2>5, <2>6 DEF ReviewInv, ReviewIsSound
<1>10. CASE m # NoAsset
  <2> DEFINE y == [life |-> "row", row |-> w.row]
  <2>1. /\ m \in AssetIds /\ w.row = Promoted(d) /\ asset[m].life = "unused" /\ ~TagTaken(synthAssetTag[d])
    BY <1>1, <1>10 DEF ReviewInv, MadeOK, Promoted
  <2>2. /\ asset' = [asset EXCEPT ![m] = y] /\ link = m
        /\ answered' \subseteq answered \cup {<<d, m>>}
    BY <1>10 DEF CommitReview
  <2>3. /\ asset'[m] = y /\ y.life = "row" /\ y.row.tag = synthAssetTag[d] /\ y.row.origin = d
        /\ \A a \in AssetIds \ {m} : asset'[a] = asset[a]
    BY <1>3, <2>1, <2>2 DEF Promoted
  <2> HIDE DEF y
  <2>4. /\ Exists(m)' /\ ~Exists(m)
        /\ \A a \in AssetIds \ {m} : Exists(a)' <=> Exists(a)
    BY <1>10, <2>1, <2>3 DEF Exists
  <2>5. disc[d].link = NoAsset
    <3>1. disc[d].link # NoAsset => disc[d].link \in AssetIds /\ Exists(disc[d].link)
                                    /\ asset[disc[d].link].row.tag = synthAssetTag[d]
      BY <1>1, <1>3 DEF ReviewInv, LinkOK, Disc
    <3>2. QED
      BY <2>1, <3>1 DEF TagTaken
  <2>6. \A q \in Requests : MadeOK(q)'
    <3>1. SUFFICES ASSUME NEW q \in Requests \ {r}, work[q].made # NoAsset
                   PROVE  MadeOK(q)'
      BY <1>2 DEF MadeOK
    <3>2. /\ MadeOK(q) /\ work'[q] = work[q] /\ work[q].made # m /\ work[q].row.tag # synthAssetTag[d]
          /\ work[q].made \in AssetIds
      <4>1. work[q].made \in AssetIds \cup {NoAsset}
        BY DEF RecordsTypeOK, WorkOK, Work
      <4>2. QED
        BY <1>2, <1>10, <2>1, <3>1, <4>1 DEF ReviewInv, MadeApart, Promoted
    <3>3. ~TagTaken(synthAssetTag[work[q].disc])'
      BY <2>3, <2>4, <3>1, <3>2 DEF TagTaken, MadeOK
    <3>4. QED
      BY <2>3, <3>2, <3>3 DEF MadeOK
  <2>7. \A e \in Discovered : LinkOK(e)'
    <3>1. SUFFICES ASSUME NEW e \in Discovered \ {d}
                   PROVE  LinkOK(e)'
      BY <1>5, <2>2, <2>3, <2>4 DEF LinkOK, Seen, Outcome
    <3>2. disc'[e] = disc[e] /\ LinkOK(e) /\ disc[e].link \in AssetIds \cup {NoAsset}
      BY <1>3, <1>5 DEF ReviewInv, Disc
    <3>3. disc[e].link # NoAsset => disc[e].link # m /\ disc[e].link \in AssetIds
      BY <2>4, <3>2 DEF LinkOK
    <3>4. QED
      BY <2>3, <2>4, <3>2, <3>3 DEF LinkOK, Seen
  <2>8. ApprovedAnswerStands'
    <3>1. SUFFICES ASSUME NEW p \in answered'
                   PROVE  disc'[p[1]].link = p[2] /\ Exists(p[2])'
      BY DEF ApprovedAnswerStands
    <3>2. CASE p = <<d, m>>
      BY <1>5, <2>2, <2>4, <3>2
    <3>3. CASE p \in answered
      <4>1. p[1] \in Discovered /\ p[2] \in AssetIds /\ disc[p[1]].link = p[2] /\ Exists(p[2])
        BY <3>3 DEF ReviewInv, ReviewIsSound, ApprovedAnswerStands, RecordsTypeOK
      <4>2. p[1] # d /\ p[2] # m
        BY <2>4, <2>5, <4>1 DEF Exists
      <4>3. QED
        BY <1>5, <2>4, <4>1, <4>2
    <3>4. QED
      BY <2>2, <3>2, <3>3
  <2>9. OneAssetPerDiscovery'
    <3>1. SUFFICES ASSUME NEW a \in AssetIds, Exists(a)', asset'[a].row.origin # NoRow
                   PROVE  disc'[asset'[a].row.origin].link = a
      BY DEF OneAssetPerDiscovery
    <3>2. CASE a = m
      BY <1>5, <2>2, <2>3, <3>2
    <3>3. CASE a # m
      <4>1. /\ asset'[a] = asset[a] /\ Exists(a) /\ asset[a].row.origin \in Discovered
            /\ disc[asset[a].row.origin].link = a
        BY <1>3, <2>3, <2>4, <3>1, <3>3 DEF ReviewInv, ReviewIsSound, OneAssetPerDiscovery, Asset, AssetRow
      <4>2. asset[a].row.origin # d
        BY <2>5, <4>1 DEF Exists
      <4>3. QED
        BY <1>5, <4>1, <4>2
    <3>4. QED
      BY <3>2, <3>3
  <2>10. QED
    BY <1>6, <1>7, <1>8, <2>6, <2>7, <2>8, <2>9 DEF ReviewInv, ReviewIsSound
<1>11. QED
  BY <1>9, <1>10

\* An asset made outside a review has a tag no review holds; a deleted one nothing refers to.
LEMMA CreateStep ==
    ASSUME RecordsTypeOK, ReviewInv, UNCHANGED discVars,
           NEW a \in AssetIds, NEW row \in AssetRow, row.origin = NoRow, CreateAsset(a, row)
    PROVE  ReviewInv'
<1> DEFINE y == [life |-> "row", row |-> row]
<1>1. /\ FreshId(a) /\ \A q \in Requests : work[q].made # NoAsset => work[q].row.tag # row.tag
      /\ asset' = [asset EXCEPT ![a] = y] /\ work' = work
      /\ disc' = disc /\ audit' = audit /\ answered' = answered
  BY DEF CreateAsset, discVars
<1>2. /\ asset \in [AssetIds -> Asset] /\ answered \subseteq Discovered \X AssetIds /\ a # NoAsset
      /\ \A d \in Discovered : disc[d].link \in AssetIds \cup {NoAsset}
  BY AssetsAssumption DEF RecordsTypeOK, Disc
<1>3. /\ asset'[a] = y /\ y.life = "row" /\ y.row.tag = row.tag /\ y.row.origin = NoRow
      /\ \A b \in AssetIds \ {a} : asset'[b] = asset[b]
  BY <1>1, <1>2
<1> HIDE DEF y
<1>4. ~Exists(a) /\ Exists(a)' /\ \A b \in AssetIds \ {a} : Exists(b)' <=> Exists(b)
  BY <1>1, <1>2, <1>3 DEF Exists, FreshId
<1>5. \A q \in Requests : MadeOK(q)'
  <2>1. SUFFICES ASSUME NEW q \in Requests, work[q].made # NoAsset
                 PROVE  MadeOK(q)'
    BY <1>1 DEF MadeOK
  <2>2. /\ MadeOK(q) /\ work[q].made \in AssetIds /\ work[q].made # a /\ row.tag # work[q].row.tag
    BY <1>1, <2>1 DEF ReviewInv, RecordsTypeOK, Work, FreshId
  <2>3. ~TagTaken(synthAssetTag[work[q].disc])'
    BY <1>1, <1>3, <1>4, <2>1, <2>2 DEF TagTaken, MadeOK
  <2>4. QED
    BY <1>1, <1>3, <2>1, <2>2, <2>3 DEF MadeOK
<1>6. \A d \in Discovered : LinkOK(d)'
  <2>1. SUFFICES ASSUME NEW d \in Discovered
                 PROVE  LinkOK(d)'
    OBVIOUS
  <2>2. LinkOK(d) /\ disc[d].link \in AssetIds \cup {NoAsset} /\ disc[d].link # a
    BY <1>2, <1>4 DEF ReviewInv, LinkOK
  <2>3. QED
    BY <1>1, <1>3, <1>4, <2>2 DEF LinkOK, Seen
<1>7. MadeApart' /\ ReviewsSeen' /\ ReviewIsAudited'
  BY <1>1 DEF ReviewInv, ReviewIsSound, MadeApart, ReviewsSeen, ReviewIsAudited, Seen
<1>8. ApprovedAnswerStands'
  BY <1>1, <1>2, <1>4 DEF ReviewInv, ReviewIsSound, ApprovedAnswerStands
<1>9. OneAssetPerDiscovery'
  BY <1>1, <1>3, <1>4 DEF ReviewInv, ReviewIsSound, OneAssetPerDiscovery
<1>10. QED
  BY <1>5, <1>6, <1>7, <1>8, <1>9 DEF ReviewInv, ReviewIsSound

\* A deleted asset is one that nothing refers to.
LEMMA DeleteStep ==
    ASSUME RecordsTypeOK, ReviewInv, UNCHANGED discVars,
           NEW a \in AssetIds, DeleteAsset(a, ReferencedByDiscovery(a) \/ ReferencedByInventory(a))
    PROVE  ReviewInv'
<1> DEFINE y == [life |-> "deleted", row |-> Unused]
<1>1. /\ Exists(a) /\ ~ReferencedByDiscovery(a)
      /\ asset' = [asset EXCEPT ![a] = y] /\ work' = work
      /\ disc' = disc /\ audit' = audit /\ answered' = answered
  BY DEF DeleteAsset, discVars
<1>2. /\ asset \in [AssetIds -> Asset] /\ answered \subseteq Discovered \X AssetIds
      /\ \A d \in Discovered : disc[d].link \in AssetIds \cup {NoAsset} /\ disc[d].link # a
  BY <1>1 DEF RecordsTypeOK, Disc, ReferencedByDiscovery
<1>3. asset'[a].life = "deleted" /\ \A b \in AssetIds \ {a} : asset'[b] = asset[b]
  BY <1>1, <1>2
<1>4. ~Exists(a)' /\ \A b \in AssetIds \ {a} : Exists(b)' <=> Exists(b)
  BY <1>3 DEF Exists
<1>5. \A t : TagTaken(t)' => TagTaken(t)
  BY <1>3, <1>4 DEF TagTaken
<1>6. \A q \in Requests : MadeOK(q)'
  <2>1. SUFFICES ASSUME NEW q \in Requests, work[q].made # NoAsset
                 PROVE  MadeOK(q)'
    BY <1>1 DEF MadeOK
  <2>2. MadeOK(q) /\ work[q].made \in AssetIds /\ work[q].made # a
    BY <1>1, <2>1 DEF ReviewInv, RecordsTypeOK, Work, MadeOK, Exists
  <2>3. QED
    BY <1>1, <1>3, <1>5, <2>1, <2>2 DEF MadeOK
<1>7. \A d \in Discovered : LinkOK(d)'
  BY <1>1, <1>2, <1>3, <1>4 DEF ReviewInv, LinkOK, Seen
<1>8. MadeApart' /\ ReviewsSeen' /\ ReviewIsAudited'
  BY <1>1 DEF ReviewInv, ReviewIsSound, MadeApart, ReviewsSeen, ReviewIsAudited, Seen
<1>9. ApprovedAnswerStands'
  BY <1>1, <1>2, <1>4 DEF ReviewInv, ReviewIsSound, ApprovedAnswerStands
<1>10. OneAssetPerDiscovery'
  BY <1>1, <1>3, <1>4 DEF ReviewInv, ReviewIsSound, OneAssetPerDiscovery
<1>11. QED
  BY <1>6, <1>7, <1>8, <1>9, <1>10 DEF ReviewInv, ReviewIsSound

\* A row that comes in is waiting, and has no link.
LEMMA ArrivalStep ==
    ASSUME RecordsTypeOK, RecordsTypeOK', ReviewInv, ReviewsKept, UNCHANGED <<asset, audit, answered>>,
           NEW d \in Discovered, disc'[d].link = NoAsset, disc'[d].status \in {"pending", "conflict"},
           ~Seen(d), \A e \in Discovered \ {d} : disc'[e] = disc[e]
    PROVE  ReviewInv'
<1>1. \A e \in Discovered : disc'[e].link = disc[e].link
  BY DEF ReviewInv, LinkOK
<1>2. NothingDecided
  BY <1>1 DEF NothingDecided, ReviewInv, ReviewIsSound, ApprovedAnswerStands
<1>3. QED
  BY <1>2, ReviewStands

\* An ingestion ends: the row comes in, or was there.
LEMMA IngestStep ==
    ASSUME RecordsTypeOK, RecordsTypeOK', ReviewInv, NEW r \in Requests, IngestDiscovered(r)
    PROVE  ReviewInv'
<1>1. PICK d, a : d = work[r].disc /\ a = work[r].match
  OBVIOUS
<1> DEFINE n == [NotSeen EXCEPT !.match = a]
           x == [n EXCEPT !.status = IF a = NoAsset THEN "pending" ELSE "conflict"]
<1>2. /\ d \in Discovered /\ disc \in [Discovered -> Disc] /\ UNCHANGED <<asset, audit, answered>> /\ Ends(r)
      /\ disc' = disc \/ (~Seen(d) /\ disc' = [disc EXCEPT ![d] = x])
  BY <1>1 DEF IngestDiscovered, RecordsTypeOK, WorkOK
<1>3. ReviewsKept
  BY <1>2, EndsMoves, IdleOK, MovedKeeps
<1>4. CASE disc' = disc
  <2>1. NothingDecided
    BY <1>2, <1>4 DEF NothingDecided, ReviewInv, ReviewIsSound, ApprovedAnswerStands
  <2>2. QED
    BY <1>3, <2>1, ReviewStands
<1>5. CASE ~Seen(d) /\ disc' = [disc EXCEPT ![d] = x]
  <2>1. x.link = NoAsset /\ x.status \in {"pending", "conflict"}
    BY DEF NotSeen
  <2> HIDE DEF x
  <2>2. disc'[d] = x /\ \A e \in Discovered \ {d} : disc'[e] = disc[e]
    BY <1>2, <1>5
  <2>3. QED
    BY <1>2, <1>3, <1>5, <2>1, <2>2, ArrivalStep
<1>6. QED
  BY <1>2, <1>4, <1>5

\* The relocation detector's row comes in.
LEMMA NewDeviceStep ==
    ASSUME RecordsTypeOK, RecordsTypeOK', ReviewInv, NEW d \in Discovered, NewDevice(d)
    PROVE  ReviewInv'
<1> DEFINE x == [NotSeen EXCEPT !.status = "pending"]
<1>1. /\ disc \in [Discovered -> Disc] /\ ~Seen(d) /\ disc' = [disc EXCEPT ![d] = x]
      /\ UNCHANGED <<asset, audit, answered>> /\ work' = work
  BY DEF NewDevice, RecordsTypeOK
<1>2. x.link = NoAsset /\ x.status = "pending"
  BY DEF NotSeen
<1> HIDE DEF x
<1>3. disc'[d] = x /\ \A e \in Discovered \ {d} : disc'[e] = disc[e]
  BY <1>1
<1>4. ReviewsKept
  BY <1>1 DEF ReviewsKept, KeepsReview
<1>5. QED
  BY <1>1, <1>2, <1>3, <1>4, ArrivalStep

\* A step that decides no review.
LEMMA QuietReview ==
    ASSUME RecordsTypeOK, RecordsTypeOK', ReviewInv, ReviewsKept, UNCHANGED <<asset, discVars>>
    PROVE  ReviewInv'
<1>1. NothingDecided
  BY DEF discVars, NothingDecided, ReviewInv, ReviewIsSound, ApprovedAnswerStands
<1>2. QED
  BY <1>1, ReviewStands

\* Every step of a review keeps what is known of reviews.
LEMMA ReviewRequests ==
    ASSUME RecordsTypeOK, RecordsTypeOK', ReviewInv, NEW r \in Requests, ReviewStep(r) \/ ReviewStart(r)
    PROVE  ReviewInv'
<1>1. CASE IngestDiscovered(r)
  BY <1>1, IngestStep
<1>2. CASE \E a \in AssetIds \cup {NoAsset} : Promote(r, a)
  BY <1>2, PromoteStep
<1>3. CASE LinkDiscovered(r) \/ AuditReview(r)
  <2>1. ReviewsKept /\ UNCHANGED <<asset, discVars>>
    BY <1>3, ReviewMoves, MovedKeeps DEF LinkDiscovered, AuditReview
  <2>2. QED
    BY <2>1, QuietReview
<1>4. CASE CommitReview(r)
  BY <1>4, CommitStep
<1>5. CASE \E d \in Discovered : \E a \in AssetIds \cup {NoAsset} : MatchDiscovered(r, d, a)
  <2>1. ReviewsKept /\ UNCHANGED <<asset, discVars>>
    BY <1>5, IngestMoves, MovedKeeps DEF MatchDiscovered
  <2>2. QED
    BY <2>1, QuietReview
<1>6. CASE \E d \in Discovered : ReadDiscovered(r, d)
  <2>1. PICK d \in Discovered : ReadDiscovered(r, d)
    BY <1>6
  <2>2. Seen(d) /\ UNCHANGED <<asset, disc, audit>>
    BY <2>1 DEF ReadDiscovered
  <2>3. CASE work' # work
    <3>1. Moved(r) /\ work'[r].made = NoAsset /\ work'[r].disc = d /\ answered' = answered
      BY <2>1, <2>3, ReadMoves
    <3>2. ReviewsKept
      BY <2>2, <3>1, MovedKeeps
    <3>3. QED
      BY <2>2, <3>1, <3>2, QuietReview DEF discVars
  <2>4. CASE work' = work
    <3>1. ReviewsKept
      BY <2>4 DEF ReviewsKept, KeepsReview
    <3>2. answered' = answered \/ (Exists(disc[d].link) /\ answered' = answered \cup {<<d, disc[d].link>>})
      BY <2>1 DEF ReadDiscovered
    <3>3. NothingDecided
      BY <2>2, <3>2 DEF NothingDecided, ReviewInv, ReviewIsSound, ApprovedAnswerStands
    <3>4. QED
      BY <3>1, <3>3, ReviewStands
  <2>5. QED
    BY <2>3, <2>4
<1>7. CASE \E d \in Discovered : IgnoreDiscovered(r, d)
  <2>1. PICK d \in Discovered : IgnoreDiscovered(r, d)
    BY <1>7
  <2>2. Seen(d) /\ UNCHANGED <<asset, discVars>>
    BY <2>1 DEF IgnoreDiscovered
  <2>3. Moved(r) /\ work'[r].made = NoAsset /\ work'[r].disc = d
    BY <2>1, IgnoreMoves
  <2>4. ReviewsKept
    BY <2>2, <2>3, MovedKeeps
  <2>5. QED
    BY <2>2, <2>4, QuietReview
<1>8. QED
  BY <1>1, <1>2, <1>3, <1>4, <1>5, <1>6, <1>7 DEF ReviewStep, ReviewStart

\* The request of an inventory, or a roll-back, holds nothing for a review.
LEMMA InventoryKeepsReview ==
    ASSUME RecordsTypeOK, NEW r \in Requests, InventoryStep(r) \/ InventoryStart(r) \/ Rollback(r)
    PROVE  ReviewsKept /\ UNCHANGED asset
<1>1. CASE CommitImport(r) \/ ActivateTask(r) \/ UpdateInventoryTask(r) \/ SoftDeleteInventoryTask(r) \/ Rollback(r)
  <2>1. Ends(r) /\ UNCHANGED asset
    BY <1>1 DEF CommitImport, ActivateTask, UpdateInventoryTask, SoftDeleteInventoryTask, Rollback
  <2>2. QED
    BY <2>1, EndsMoves, IdleOK, MovedKeeps
<1>2. CASE \E a \in AssetIds \cup {NoAsset} : FindLine(r, a)
  BY <1>2, FindMoves, MovedKeeps DEF KeepsImport, FindLine
<1>3. CASE InsertLine(r)
  BY <1>3, InsertMoves, MovedKeeps DEF KeepsImport, InsertLine
<1>4. CASE \E t \in Tasks, s \in Sheets : BeginImport(r, t, s)
  BY <1>4, ImportBegins, MovedKeeps DEF BeginImport
<1>5. CASE \E i \in DOMAIN item, status \in {"scanned", "discrepancy"} : WriteItem(r, i, status)
  BY <1>5, ScanMoves, MovedKeeps DEF WriteItem
<1>6. CASE \E t \in Tasks, op \in {"update", "delete"} : GetInventoryTask(r, t, op)
  <2>1. PICK t \in Tasks, op \in {"update", "delete"} : GetInventoryTask(r, t, op)
    BY <1>6
  <2>2. Moved(r) /\ work'[r].made = NoAsset /\ work'[r].op \in {"update", "delete"} /\ UNCHANGED asset
    BY <2>1, TaskMoves DEF GetInventoryTask
  <2>3. QED
    BY <2>2, MovedKeeps
<1>7. QED
  BY <1>1, <1>2, <1>3, <1>4, <1>5, <1>6 DEF InventoryStep, InventoryStart

\* And so does every step.
LEMMA ReviewHolds ==
    ASSUME RecordsTypeOK, ReviewInv, [RecordsNext]_recordVars
    PROVE  ReviewInv'
<1>1. RecordsTypeOK'
  BY RecordsType
<1>2. CASE \E r \in Requests : ReviewStep(r) \/ ReviewStart(r)
  BY <1>1, <1>2, ReviewRequests
<1>3. CASE \E r \in Requests : ((InventoryStep(r) \/ InventoryStart(r)) /\ UNCHANGED discVars) \/ Rollback(r)
  <2>1. ReviewsKept /\ UNCHANGED <<asset, discVars>>
    BY <1>3, InventoryKeepsReview DEF Rollback
  <2>2. QED
    BY <1>1, <2>1, QuietReview
<1>4. CASE \E d \in Discovered : NewDevice(d)
  BY <1>1, <1>4, NewDeviceStep
<1>5. CASE \E a \in AssetIds : \E t \in Tags, ip \in Discovered \cup {NoRow} :
              CreateAsset(a, [tag |-> t, ip |-> ip, origin |-> NoRow]) /\ UNCHANGED <<discVars, invVars>>
  <2>1. PICK a \in AssetIds, t \in Tags, ip \in Discovered \cup {NoRow} :
              CreateAsset(a, [tag |-> t, ip |-> ip, origin |-> NoRow]) /\ UNCHANGED <<discVars, invVars>>
    BY <1>5
  <2>2. PICK row : row = [tag |-> t, ip |-> ip, origin |-> NoRow]
    OBVIOUS
  <2>3. row \in AssetRow /\ row.origin = NoRow /\ CreateAsset(a, row) /\ UNCHANGED discVars
    BY <2>1, <2>2 DEF AssetRow
  <2>4. QED
    BY <2>3, CreateStep
<1>6. CASE \E a \in AssetIds : DeleteAsset(a, ReferencedByDiscovery(a) \/ ReferencedByInventory(a))
              /\ UNCHANGED <<discVars, invVars>>
  BY <1>6, DeleteStep
<1>7. CASE \/ \E t \in Tasks : (CreateInventoryTask(t) \/ CompleteInventoryTask(t)) /\ UNCHANGED discVars
           \/ UNCHANGED recordVars
  <2>1. UNCHANGED <<asset, work, discVars>>
    BY <1>7 DEF CreateInventoryTask, CompleteInventoryTask, recordVars, discVars
  <2>2. ReviewsKept
    BY <2>1 DEF ReviewsKept, KeepsReview
  <2>3. QED
    BY <1>1, <2>1, <2>2, QuietReview
<1>8. QED
  BY <1>2, <1>3, <1>4, <1>5, <1>6, <1>7 DEF RecordsNext, Step

\* The fields of an item, and what a request on an import holds.
LEMMA ItemFields ==
    ASSUME RecordsTypeOK
    PROVE  \A i \in DOMAIN item : item[i].task \in Tasks /\ item[i].asset \in AssetIds \cup {NoAsset}
<1>1. SUFFICES ASSUME NEW i \in DOMAIN item
               PROVE  item[i].task \in Tasks /\ item[i].asset \in AssetIds \cup {NoAsset}
  OBVIOUS
<1>2. item \in Seq(Item) /\ i \in DOMAIN item
  BY DEF RecordsTypeOK
<1>3. item[i] \in Item
  BY <1>2
<1>4. QED
  BY <1>3 DEF Item

\* What a request on an import holds.
LEMMA ImportFields ==
    ASSUME RecordsTypeOK, NEW q \in Requests, work[q].op = "import"
    PROVE  /\ work[q].task \in Tasks /\ work[q].sheet \in Sheets /\ work[q].sheet # NoRow
           /\ work[q].lines \in Seq(AssetIds \cup {NoAsset})
  BY DEF RecordsTypeOK, WorkOK, Work

\* Every sheet that an import is on stays with it, and no other takes it up.
SheetsKept == \A q \in Requests : work'[q].sheet = NoRow \/ work'[q].sheet = work[q].sheet

\* The assets that items, or the lines of an import, refer to stay.
ReferredStay == \A a \in AssetIds : Exists(a) /\ ReferencedByInventory(a) => Exists(a)'

\* While no item comes in what is known of the items stands.
LEMMA InventoryStands ==
    ASSUME RecordsTypeOK, RecordsTypeOK', InventoryInv, TasksGoOn, ReferredStay,
           item' = item, SheetsKept, \A q \in Requests : ImportOK(q)'
    PROVE  InventoryInv'
<1>1. SheetsApart'
  BY DEF SheetsApart, SheetsKept, InventoryInv
<1>2. \A s : Rows(s)' = Rows(s)
  BY DEF Rows
<1>3. \A i \in DOMAIN item : item[i].task \in Tasks /\ item[i].asset \in AssetIds \cup {NoAsset}
  BY ItemFields
<1>4. \A i \in DOMAIN item' : Known(item[i].task)'
  BY <1>3 DEF InventoryInv, TasksGoOn, Known
<1>5. ImportIsAllOrNothing'
  <2>1. \A s \in Sheets : Cardinality(Rows(s)') \in {0, Len(Lines[s])}
    BY <1>2 DEF InventoryInv, ImportIsAllOrNothing
  <2>2. SUFFICES ASSUME NEW i \in DOMAIN item
                 PROVE  (item[i].asset # NoAsset => Exists(item[i].asset))' /\ task'[item[i].task].status # "planned"
    BY <2>1 DEF ImportIsAllOrNothing
  <2>3. /\ item[i].asset # NoAsset => Exists(item[i].asset)
        /\ task[item[i].task].status # "planned" /\ task[item[i].task].status # "none"
    BY DEF InventoryInv, ImportIsAllOrNothing, Known
  <2>4. item[i].asset # NoAsset => Exists(item[i].asset)'
    BY <1>3, <2>3 DEF ReferredStay, ReferencedByInventory
  <2>5. QED
    BY <1>3, <2>3, <2>4 DEF TasksGoOn, Exists
<1>6. QED
  BY <1>1, <1>4, <1>5 DEF InventoryInv

\* An import that stands is as sound as it was.
LEMMA ImportStands ==
    ASSUME RecordsTypeOK, InventoryInv, TasksGoOn, ReferredStay, item' = item,
           NEW q \in Requests, work'[q] = work[q] \/ work'[q].op # "import"
    PROVE  ImportOK(q)'
<1>1. SUFFICES ASSUME work'[q] = work[q], work[q].op = "import"
               PROVE  ImportOK(q)'
  BY DEF ImportOK
<1>2. /\ ImportOK(q) /\ work[q].task \in Tasks /\ work[q].lines \in Seq(AssetIds \cup {NoAsset})
  BY <1>1 DEF InventoryInv, RecordsTypeOK, WorkOK, Work
<1>3. \A k \in DOMAIN work[q].lines : work[q].lines[k] # NoAsset => Exists(work[q].lines[k])'
  BY <1>1, <1>2 DEF ImportOK, ReferredStay, ReferencedByInventory
<1>4. QED
  BY <1>1, <1>2, <1>3 DEF ImportOK, Known, TasksGoOn, Rows, Exists

\* A step by which no import begins or goes on.
LEMMA QuietInventory ==
    ASSUME RecordsTypeOK, RecordsTypeOK', InventoryInv, TasksGoOn, ReferredStay, item' = item,
           \/ work' = work
           \/ \E r \in Requests : Moved(r) /\ work'[r].op # "import"
    PROVE  InventoryInv'
<1>1. \A q \in Requests : work'[q] = work[q] \/ work'[q].op # "import"
  BY DEF Moved
<1>2. SheetsKept
  BY <1>1 DEF SheetsKept, RecordsTypeOK, WorkOK
<1>3. \A q \in Requests : ImportOK(q)'
  BY <1>1, ImportStands
<1>4. QED
  BY <1>2, <1>3, InventoryStands

\* A step of an import other than its last.
LEMMA ImportGoesOn ==
    ASSUME RecordsTypeOK, RecordsTypeOK', InventoryInv, NEW r \in Requests, Moved(r),
           UNCHANGED <<asset, invVars>>, KeepsImport(r), ImportOK(r)'
    PROVE  InventoryInv'
<1>1. TasksGoOn /\ ReferredStay /\ item' = item
  BY DEF TasksGoOn, ReferredStay, Exists, invVars
<1>2. SheetsKept
  BY DEF SheetsKept, Moved, KeepsImport
<1>3. \A q \in Requests : ImportOK(q)'
  BY <1>1, ImportStands DEF Moved
<1>4. QED
  BY <1>1, <1>2, <1>3, InventoryStands

\* An import begins on a sheet that is not in and that nobody imports.
LEMMA BeginStep ==
    ASSUME RecordsTypeOK, RecordsTypeOK', InventoryInv,
           NEW r \in Requests, NEW t \in Tasks, NEW s \in Sheets, BeginImport(r, t, s)
    PROVE  InventoryInv'
<1>1. /\ Known(t) /\ Rows(s) = {} /\ \A q \in Requests : work[q].sheet # s
      /\ UNCHANGED <<asset, task, item>>
  BY DEF BeginImport, invVars
<1>2. /\ Moved(r) /\ work'[r].op = "import" /\ work'[r].at = "inserted" /\ work'[r].task = t
      /\ work'[r].sheet = s /\ work'[r].lines = <<>>
  BY ImportBegins
<1>3. TasksGoOn /\ ReferredStay
  BY <1>1 DEF TasksGoOn, ReferredStay, Exists
<1>4. ImportOK(r)'
  <2>1. Len(Lines[s]) \in Nat /\ Len(<<>>) = 0 /\ DOMAIN (<<>>) = {}
    BY InventoryAssumption
  <2>2. Known(t)' /\ Rows(s)' = {}
    BY <1>1 DEF Known, Rows
  <2>3. QED
    BY <1>2, <2>1, <2>2 DEF ImportOK, Known, Rows
<1>5. \A q \in Requests : ImportOK(q)'
  BY <1>1, <1>2, <1>3, <1>4, ImportStands DEF Moved
<1>6. SheetsApart'
  BY <1>1, <1>2 DEF SheetsApart, InventoryInv, Moved
<1>7. (\A i \in DOMAIN item : Known(item[i].task))' /\ ImportIsAllOrNothing'
  BY <1>1 DEF InventoryInv, ImportIsAllOrNothing, Known, Exists, Rows
<1>8. QED
  BY <1>5, <1>6, <1>7 DEF InventoryInv

\* A line that is looked up is one of the sheet's; one that goes in has its asset.
LEMMA LineStep ==
    ASSUME RecordsTypeOK, RecordsTypeOK', InventoryInv, NEW r \in Requests,
           (\E a \in AssetIds \cup {NoAsset} : FindLine(r, a)) \/ InsertLine(r)
    PROVE  InventoryInv'
<1>1. UNCHANGED <<asset, invVars>>
  BY DEF FindLine, InsertLine
<1>2. \A s : Rows(s)' = Rows(s)
  BY <1>1 DEF Rows, invVars
<1>3. \A s \in Sheets : Len(Lines[s]) \in Nat
  BY InventoryAssumption
<1>4. CASE \E a \in AssetIds \cup {NoAsset} : FindLine(r, a)
  <2>1. PICK a \in AssetIds \cup {NoAsset} : FindLine(r, a)
    BY <1>4
  <2>2. Moved(r) /\ KeepsImport(r) /\ work'[r].lines = work[r].lines
    BY <2>1, FindMoves
  <2>3. Len(work[r].lines) < Len(Lines[work[r].sheet])
    BY <2>1 DEF FindLine, MoreLines
  <2>4. ImportOK(r)
    BY DEF InventoryInv
  <2>5. ImportOK(r)'
    BY <1>1, <1>2, <2>2, <2>3, <2>4 DEF ImportOK, KeepsImport, Known, Exists, invVars
  <2>6. QED
    BY <1>1, <2>2, <2>5, ImportGoesOn
<1>5. CASE InsertLine(r)
  <2> DEFINE lines == work[r].lines
  <2>1. /\ Moved(r) /\ KeepsImport(r) /\ work[r].at = "found" /\ work'[r].at # "found"
        /\ work[r].match \in AssetIds \cup {NoAsset} /\ lines \in Seq(AssetIds \cup {NoAsset})
        /\ \/ work'[r].lines = lines
           \/ /\ work'[r].lines = Append(lines, work[r].match)
              /\ work[r].match # NoAsset => Exists(work[r].match)
    BY <1>5, InsertMoves
  <2>2. /\ ImportOK(r) /\ Len(lines) \in Nat /\ Len(lines) < Len(Lines[work[r].sheet])
        /\ work[r].sheet \in Sheets
    <3>1. work[r].op = "import"
      BY <2>1 DEF KeepsImport
    <3>2. ImportOK(r) /\ work[r].sheet \in Sheets
      BY <3>1, ImportFields DEF InventoryInv
    <3>3. QED
      BY <2>1, <3>1, <3>2 DEF ImportOK
  <2>3. \A k \in DOMAIN work'[r].lines : work'[r].lines[k] # NoAsset => Exists(work'[r].lines[k])
    <3>1. \A k \in DOMAIN lines : lines[k] # NoAsset => Exists(lines[k])
      BY <2>1, <2>2 DEF ImportOK, KeepsImport
    <3>2. CASE work'[r].lines = lines
      BY <3>1, <3>2
    <3>3. CASE work'[r].lines = Append(lines, work[r].match) /\ (work[r].match # NoAsset => Exists(work[r].match))
      <4>1. PICK l, a : l = lines /\ a = work[r].match
        OBVIOUS
      <4>2. /\ l \in Seq(AssetIds \cup {NoAsset}) /\ a \in AssetIds \cup {NoAsset} /\ DOMAIN l = 1..Len(l)
        BY <2>1, <4>1
      <4>3. /\ DOMAIN Append(l, a) = 1..(Len(l) + 1) /\ Append(l, a)[Len(l) + 1] = a
            /\ \A k \in 1..Len(l) : Append(l, a)[k] = l[k]
        BY <4>2
      <4>4. \A k \in DOMAIN Append(l, a) : k \in 1..Len(l) \/ k = Len(l) + 1
        BY <4>2, <4>3
      <4>5. QED
        BY <3>1, <3>3, <4>1, <4>2, <4>3, <4>4
    <3>4. QED
      BY <2>1, <3>2, <3>3
  <2>4. Len(work'[r].lines) <= Len(Lines[work[r].sheet])
    BY <1>3, <2>1, <2>2
  <2>5. ImportOK(r)'
    BY <1>1, <1>2, <2>1, <2>2, <2>3, <2>4 DEF ImportOK, KeepsImport, Known, Exists, invVars
  <2>6. QED
    BY <1>1, <2>1, <2>5, ImportGoesOn
<1>6. QED
  BY <1>4, <1>5

\* Two sequences joined.
LEMMA Joined ==
    ASSUME NEW S, NEW a \in Seq(S), NEW b \in Seq(S)
    PROVE  /\ DOMAIN (a \o b) = 1..(Len(a) + Len(b))
           /\ \A i \in 1..Len(a) : (a \o b)[i] = a[i]
           /\ \A i \in (Len(a) + 1)..(Len(a) + Len(b)) : (a \o b)[i] = b[i - Len(a)]
<1>1. Len(a) \in Nat /\ Len(b) \in Nat /\ a \o b \in Seq(S) /\ Len(a \o b) = Len(a) + Len(b)
  OBVIOUS
<1>2. DOMAIN (a \o b) = 1..(Len(a) + Len(b))
  BY <1>1
<1>3. \A i \in 1..Len(a) : (a \o b)[i] = a[i]
  BY <1>1
<1>4. \A i \in (Len(a) + 1)..(Len(a) + Len(b)) : (a \o b)[i] = b[i - Len(a)]
  BY <1>1
<1>5. QED
  BY <1>2, <1>3, <1>4

\* The commit of an import: the sheet's rows are the lines, one after another.
LEMMA ImportCommits ==
    ASSUME RecordsTypeOK, RecordsTypeOK', InventoryInv, NEW r \in Requests, CommitImport(r),
           NEW s, s = work[r].sheet, NEW t, t = work[r].task,
           item' = item \o Inserted(work[r]), task' = Started(t), ~MoreLines(r)
    PROVE  InventoryInv'
<1> DEFINE new == Inserted(work[r])
           lines == work[r].lines
           n == Len(item)
           m == Len(lines)
<1>1. /\ work[r].op = "import" /\ Ends(r) /\ UNCHANGED asset
  BY DEF CommitImport
<1>2. /\ t \in Tasks /\ s \in Sheets /\ lines \in Seq(AssetIds \cup {NoAsset}) /\ item \in Seq(Item)
  BY <1>1 DEF RecordsTypeOK, WorkOK, Work
<1>3. /\ Known(t) /\ Rows(s) = {} /\ m <= Len(Lines[s])
      /\ \A k \in DOMAIN lines : lines[k] # NoAsset => Exists(lines[k])
  BY <1>1 DEF InventoryInv, ImportOK
<1>4. m = Len(Lines[s]) /\ m \in Nat /\ n \in Nat
  <2>1. Len(Lines[s]) \in Nat /\ m \in Nat /\ n \in Nat
    BY <1>2, InventoryAssumption
  <2>2. ~(m < Len(Lines[s]))
    BY DEF MoreLines
  <2>3. QED
    BY <1>3, <2>1, <2>2
<1>5. /\ new \in Seq(Item) /\ Len(new) = m
      /\ \A k \in 1..m : new[k].sheet = s /\ new[k].task = t /\ new[k].asset = lines[k]
  BY <1>1, LinesAreItems
<1> HIDE DEF new
<1>6. /\ DOMAIN item' = 1..(n + m)
      /\ \A i \in 1..n : item'[i] = item[i]
      /\ \A i \in (n + 1)..(n + m) : item'[i] = new[i - n]
  <2>1. item' = item \o new
    BY DEF new
  <2>2. /\ DOMAIN (item \o new) = 1..(Len(item) + Len(new))
        /\ \A i \in 1..Len(item) : (item \o new)[i] = item[i]
        /\ \A i \in (Len(item) + 1)..(Len(item) + Len(new)) : (item \o new)[i] = new[i - Len(item)]
    BY <1>2, <1>5, Joined
  <2>3. QED
    BY <1>5, <2>1, <2>2
<1>7. DOMAIN item = 1..n /\ DOMAIN lines = 1..m
  BY <1>2
<1>8. \A i \in (n + 1)..(n + m) :
         /\ i - n \in 1..m
         /\ item'[i].sheet = s /\ item'[i].task = t /\ item'[i].asset = lines[i - n]
  <2>1. SUFFICES ASSUME NEW i \in (n + 1)..(n + m)
                 PROVE  /\ i - n \in 1..m
                        /\ item'[i].sheet = s /\ item'[i].task = t /\ item'[i].asset = lines[i - n]
    OBVIOUS
  <2>2. i - n \in 1..m
    BY <1>4
  <2>3. QED
    BY <1>5, <1>6, <2>2
<1>9. \A i \in DOMAIN item' : i \in 1..n \/ i \in (n + 1)..(n + m)
  BY <1>4, <1>6
<1>10. \A u \in Sheets \ {s} : Rows(u)' = Rows(u)
  <2>1. SUFFICES ASSUME NEW u \in Sheets \ {s}
                 PROVE  Rows(u)' = Rows(u)
    OBVIOUS
  <2>2. \A i \in DOMAIN item' : item'[i].sheet = u => i \in 1..n
    BY <1>8, <1>9
  <2>3. \A i : i \in Rows(u)' <=> i \in 1..n /\ item[i].sheet = u
    BY <1>4, <1>6, <2>2 DEF Rows
  <2>4. QED
    BY <1>7, <2>3 DEF Rows
<1>11. Rows(s)' = (n + 1)..(n + m)
  <2>1. \A i \in 1..n : item'[i].sheet # s
    BY <1>3, <1>6, <1>7 DEF Rows
  <2>2. QED
    BY <1>4, <1>6, <1>8, <1>9, <2>1 DEF Rows
<1>12. Cardinality(Rows(s)') = Len(Lines[s])
  <2>1. n + 1 \in Int /\ n + m \in Int
    BY <1>4
  <2>2. Cardinality((n + 1)..(n + m)) = IF n + 1 > n + m THEN 0 ELSE (n + m) - (n + 1) + 1
    BY <2>1, FS_Interval
  <2>3. QED
    BY <1>4, <1>11, <2>2
<1>13. /\ Moved(r) /\ work'[r] = Idle /\ Idle.op = "idle" /\ Idle.sheet = NoRow
  BY <1>1, EndsMoves, IdleOK
<1>14. TasksGoOn /\ task'[t].status # "planned"
  BY <1>2, StartGoesOn
<1>15. \A a : Exists(a)' <=> Exists(a)
  BY <1>1 DEF Exists
<1>16. \A q \in Requests : ImportOK(q)'
  <2>1. SUFFICES ASSUME NEW q \in Requests \ {r}, work[q].op = "import"
                 PROVE  ImportOK(q)'
    BY <1>13 DEF ImportOK, Moved
  <2>2. /\ work'[q] = work[q] /\ ImportOK(q) /\ work[q].sheet \in Sheets /\ work[q].sheet # s
        /\ work[q].task \in Tasks
    BY <1>13, <2>1, ImportFields DEF Moved, InventoryInv, SheetsApart
  <2>3. Rows(work[q].sheet)' = {}
    BY <1>10, <2>1, <2>2 DEF ImportOK, Rows
  <2>4. QED
    BY <1>14, <1>15, <2>1, <2>2, <2>3 DEF ImportOK, Known, TasksGoOn, Rows, Exists
<1>17. SheetsApart'
  BY <1>13 DEF SheetsApart, InventoryInv, Moved
<1>18. \A i \in DOMAIN item' :
          /\ item'[i].asset # NoAsset => Exists(item'[i].asset)
          /\ task'[item'[i].task].status # "planned"
          /\ task'[item'[i].task].status # "none"
  <2>1. ASSUME NEW i \in 1..n
        PROVE  /\ item'[i].asset # NoAsset => Exists(item'[i].asset)
               /\ task'[item'[i].task].status # "planned"
               /\ task'[item'[i].task].status # "none"
    <3>1. item'[i] = item[i] /\ i \in DOMAIN item /\ item[i].task \in Tasks
      BY <1>6, <1>7, <2>1, ItemFields
    <3>2. /\ item[i].asset # NoAsset => Exists(item[i].asset)
          /\ task[item[i].task].status # "planned" /\ task[item[i].task].status # "none"
      BY <3>1 DEF InventoryInv, ImportIsAllOrNothing, Known
    <3>3. QED
      BY <1>14, <3>1, <3>2 DEF TasksGoOn
  <2>2. ASSUME NEW i \in (n + 1)..(n + m)
        PROVE  /\ item'[i].asset # NoAsset => Exists(item'[i].asset)
               /\ task'[item'[i].task].status # "planned"
               /\ task'[item'[i].task].status # "none"
    BY <1>2, <1>3, <1>7, <1>8, <1>14, <2>2 DEF Known, TasksGoOn
  <2>3. QED
    BY <1>9, <2>1, <2>2
<1>19. ImportIsAllOrNothing'
  <2>1. \A u \in Sheets : Cardinality(Rows(u)') \in {0, Len(Lines[u])}
    BY <1>10, <1>12 DEF InventoryInv, ImportIsAllOrNothing
  <2>2. QED
    BY <1>15, <1>18, <2>1 DEF ImportIsAllOrNothing, Exists
<1>20. (\A i \in DOMAIN item : Known(item[i].task))'
  BY <1>18 DEF Known
<1>21. QED
  BY <1>16, <1>17, <1>19, <1>20 DEF InventoryInv

\* A scan leaves the items' tasks, assets and sheets.
LEMMA ScanStep ==
    ASSUME RecordsTypeOK, RecordsTypeOK', InventoryInv,
           NEW r \in Requests, NEW i \in DOMAIN item, NEW status \in {"scanned", "discrepancy"}, WriteItem(r, i, status)
    PROVE  InventoryInv'
<1>1. Moved(r) /\ work'[r].op # "import" /\ work'[r].sheet = NoRow
  BY ScanMoves
<1>2. UNCHANGED <<asset, task>> /\ item' = [item EXCEPT ![i].status = status]
  BY DEF WriteItem
<1>3. /\ DOMAIN item' = DOMAIN item
      /\ \A k \in DOMAIN item : item'[k].sheet = item[k].sheet /\ item'[k].task = item[k].task
                                /\ item'[k].asset = item[k].asset
  BY <1>2, ScanKeeps
<1>4. \A s : Rows(s)' = Rows(s)
  BY <1>3 DEF Rows
<1>5. \A a : Exists(a)' <=> Exists(a)
  BY <1>2 DEF Exists
<1>6. \A q \in Requests : ImportOK(q)'
  <2>1. SUFFICES ASSUME NEW q \in Requests, work'[q] = work[q], work[q].op = "import"
                 PROVE  ImportOK(q)'
    BY <1>1 DEF Moved, ImportOK
  <2>2. ImportOK(q)
    BY DEF InventoryInv
  <2>3. Rows(work[q].sheet)' = {}
    BY <1>3, <2>1, <2>2 DEF ImportOK, Rows
  <2>4. QED
    BY <1>2, <1>5, <2>1, <2>2, <2>3 DEF ImportOK, Known, Exists
<1>7. SheetsApart'
  BY <1>1 DEF SheetsApart, InventoryInv, Moved
<1>8. (\A k \in DOMAIN item : Known(item[k].task))'
  BY <1>2, <1>3 DEF InventoryInv, Known
<1>9. ImportIsAllOrNothing'
  BY <1>2, <1>3, <1>4, <1>5 DEF InventoryInv, ImportIsAllOrNothing, Exists
<1>10. QED
  BY <1>6, <1>7, <1>8, <1>9 DEF InventoryInv

\* Every step of an inventory's requests keeps what is known of the items.
LEMMA InventoryRequests ==
    ASSUME RecordsTypeOK, RecordsTypeOK', InventoryInv, TasksGoOn,
           NEW r \in Requests, InventoryStep(r) \/ InventoryStart(r)
    PROVE  InventoryInv'
<1>1. CASE (\E a \in AssetIds \cup {NoAsset} : FindLine(r, a)) \/ InsertLine(r)
  BY <1>1, LineStep
<1>2. CASE CommitImport(r)
  <2>1. CASE item' = item \o Inserted(work[r]) /\ task' = Started(work[r].task) /\ ~MoreLines(r)
    BY <1>2, <2>1, ImportCommits
  <2>2. CASE UNCHANGED invVars
    <3>1. Moved(r) /\ work'[r].op # "import"
      BY <1>2, EndsMoves, IdleOK DEF CommitImport
    <3>2. ReferredStay /\ item' = item
      BY <1>2, <2>2 DEF CommitImport, ReferredStay, Exists, invVars
    <3>3. QED
      BY <3>1, <3>2, QuietInventory
  <2>3. QED
    BY <1>2, <2>1, <2>2 DEF CommitImport
<1>3. CASE ActivateTask(r) \/ UpdateInventoryTask(r) \/ SoftDeleteInventoryTask(r)
  <2>1. Moved(r) /\ work'[r].op # "import"
    BY <1>3, EndsMoves, IdleOK DEF ActivateTask, UpdateInventoryTask, SoftDeleteInventoryTask
  <2>2. ReferredStay /\ item' = item
    BY <1>3 DEF ActivateTask, UpdateInventoryTask, SoftDeleteInventoryTask, ReferredStay, Exists
  <2>3. QED
    BY <2>1, <2>2, QuietInventory
<1>4. CASE \E t \in Tasks, s \in Sheets : BeginImport(r, t, s)
  BY <1>4, BeginStep
<1>5. CASE \E i \in DOMAIN item, status \in {"scanned", "discrepancy"} : WriteItem(r, i, status)
  BY <1>5, ScanStep
<1>6. CASE \E t \in Tasks, op \in {"update", "delete"} : GetInventoryTask(r, t, op)
  <2>1. PICK t \in Tasks, op \in {"update", "delete"} : GetInventoryTask(r, t, op)
    BY <1>6
  <2>2. Moved(r) /\ work'[r].op # "import"
    BY <2>1, TaskMoves
  <2>3. ReferredStay /\ item' = item
    BY <2>1 DEF GetInventoryTask, ReferredStay, Exists, invVars
  <2>4. QED
    BY <2>2, <2>3, QuietInventory
<1>7. QED
  BY <1>1, <1>2, <1>3, <1>4, <1>5, <1>6 DEF InventoryStep, InventoryStart

\* A review, and the making of an asset, take no asset away and are no import.
LEMMA ReviewKeepsInventory ==
    ASSUME RecordsTypeOK, ReviewInv, NEW r \in Requests, ReviewStep(r) \/ ReviewStart(r)
    PROVE  ReferredStay /\ (work' = work \/ (Moved(r) /\ work'[r].op # "import"))
<1>1. CASE IngestDiscovered(r)
  BY <1>1, EndsMoves, IdleOK DEF IngestDiscovered, ReferredStay, Exists
<1>2. CASE \E a \in AssetIds \cup {NoAsset} : Promote(r, a)
  <2>1. PICK a \in AssetIds \cup {NoAsset} : Promote(r, a)
    BY <1>2
  <2>2. Moved(r) /\ work'[r].op # "import"
    BY <2>1, PromoteMoves, IdleOK
  <2>3. ReferredStay
    BY <2>1 DEF Promote, ReferredStay, Exists
  <2>4. QED
    BY <2>2, <2>3
<1>3. CASE LinkDiscovered(r) \/ AuditReview(r)
  <2>1. Moved(r) /\ work'[r].op # "import"
    BY <1>3, ReviewMoves DEF KeepsReview
  <2>2. ReferredStay
    BY <1>3 DEF LinkDiscovered, AuditReview, ReferredStay, Exists
  <2>3. QED
    BY <2>1, <2>2
<1>4. CASE CommitReview(r)
  <2> DEFINE m == work[r].made
             y == [life |-> "row", row |-> work[r].row]
  <2>1. Moved(r) /\ work'[r].op # "import"
    BY <1>4, EndsMoves, IdleOK DEF CommitReview
  <2>2. asset' = asset \/ asset' = [asset EXCEPT ![m] = y]
    BY <1>4 DEF CommitReview
  <2>3. y.life = "row" /\ asset \in [AssetIds -> Asset]
    BY DEF RecordsTypeOK
  <2> HIDE DEF y
  <2>4. ReferredStay
    BY <2>2, <2>3 DEF ReferredStay, Exists
  <2>5. QED
    BY <2>1, <2>4
<1>5. CASE ReviewStart(r)
  <2>1. asset' = asset
    BY <1>5 DEF ReviewStart, MatchDiscovered, ReadDiscovered, IgnoreDiscovered
  <2>2. ReferredStay
    BY <2>1 DEF ReferredStay, Exists
  <2>3. work' = work \/ (Moved(r) /\ work'[r].op # "import")
    BY <1>5, IngestMoves, ReadMoves, IgnoreMoves DEF ReviewStart
  <2>4. QED
    BY <2>2, <2>3
<1>6. QED
  BY <1>1, <1>2, <1>3, <1>4, <1>5 DEF ReviewStep

\* And so does every step.
LEMMA InventoryHolds ==
    ASSUME RecordsTypeOK, ReviewInv, InventoryInv, [RecordsNext]_recordVars
    PROVE  InventoryInv'
<1>1. RecordsTypeOK' /\ TasksGoOn
  BY RecordsType
<1>2. CASE \E r \in Requests : (ReviewStep(r) \/ ReviewStart(r)) /\ UNCHANGED invVars
  <2>1. PICK r \in Requests : (ReviewStep(r) \/ ReviewStart(r)) /\ UNCHANGED invVars
    BY <1>2
  <2>2. ReferredStay /\ (work' = work \/ (Moved(r) /\ work'[r].op # "import")) /\ item' = item
    BY <2>1, ReviewKeepsInventory DEF invVars
  <2>3. QED
    BY <1>1, <2>2, QuietInventory
<1>3. CASE \E r \in Requests : InventoryStep(r) \/ InventoryStart(r)
  BY <1>1, <1>3, InventoryRequests
<1>4. CASE \E r \in Requests : Rollback(r)
  <2>1. PICK r \in Requests : Rollback(r)
    BY <1>4
  <2>2. Moved(r) /\ work'[r].op # "import" /\ item' = item /\ ReferredStay
    BY <2>1, EndsMoves, IdleOK DEF Rollback, ReferredStay, Exists, invVars
  <2>3. QED
    BY <1>1, <2>2, QuietInventory
<1>5. CASE \E a \in AssetIds : \E t \in Tags, ip \in Discovered \cup {NoRow} :
              CreateAsset(a, [tag |-> t, ip |-> ip, origin |-> NoRow]) /\ UNCHANGED <<discVars, invVars>>
  <2>1. PICK a \in AssetIds, t \in Tags, ip \in Discovered \cup {NoRow} :
              CreateAsset(a, [tag |-> t, ip |-> ip, origin |-> NoRow]) /\ UNCHANGED <<discVars, invVars>>
    BY <1>5
  <2> DEFINE y == [life |-> "row", row |-> [tag |-> t, ip |-> ip, origin |-> NoRow]]
  <2>2. asset' = [asset EXCEPT ![a] = y] /\ y.life = "row" /\ asset \in [AssetIds -> Asset]
        /\ work' = work /\ item' = item
    BY <2>1 DEF CreateAsset, RecordsTypeOK, invVars
  <2> HIDE DEF y
  <2>3. ReferredStay
    BY <2>2 DEF ReferredStay, Exists
  <2>4. QED
    BY <1>1, <2>2, <2>3, QuietInventory
<1>6. CASE \E a \in AssetIds : DeleteAsset(a, ReferencedByDiscovery(a) \/ ReferencedByInventory(a))
              /\ UNCHANGED <<discVars, invVars>>
  <2>1. PICK a \in AssetIds : DeleteAsset(a, ReferencedByDiscovery(a) \/ ReferencedByInventory(a))
              /\ UNCHANGED <<discVars, invVars>>
    BY <1>6
  <2>2. /\ ~ReferencedByInventory(a) /\ asset \in [AssetIds -> Asset]
        /\ asset' = [asset EXCEPT ![a] = [life |-> "deleted", row |-> Unused]]
        /\ work' = work /\ item' = item
    BY <2>1 DEF DeleteAsset, RecordsTypeOK, invVars
  <2>3. ReferredStay
    BY <2>2 DEF ReferredStay, Exists
  <2>4. QED
    BY <1>1, <2>2, <2>3, QuietInventory
<1>7. CASE \/ \E d \in Discovered : NewDevice(d) /\ UNCHANGED invVars
           \/ \E t \in Tasks : CreateInventoryTask(t) \/ CompleteInventoryTask(t)
           \/ UNCHANGED recordVars
  <2>1. UNCHANGED <<asset, work, item>>
    BY <1>7 DEF NewDevice, CreateInventoryTask, CompleteInventoryTask, recordVars, invVars
  <2>2. ReferredStay
    BY <2>1 DEF ReferredStay, Exists
  <2>3. QED
    BY <1>1, <2>1, <2>2, QuietInventory
<1>8. QED
  BY <1>2, <1>3, <1>4, <1>5, <1>6, <1>7 DEF RecordsNext, Step

\* The invariant holds of empty tables.
LEMMA RecordsBegin ==
    ASSUME RecordsInit
    PROVE  RecordsInv
<1>1. RecordsTypeOK
  <2>1. Unused \in AssetRow /\ [life |-> "unused", row |-> Unused] \in Asset /\ NotSeen \in Disc /\ NoTask \in Task
    BY DEF Unused, AssetRow, Asset, NotSeen, Disc, Status, NoTask, Task
  <2>2. QED
    BY <2>1, IdleOK DEF RecordsInit, RecordsTypeOK
<1>2. ReviewInv
  BY IdleOK DEF RecordsInit, ReviewInv, MadeOK, MadeApart, ReviewsSeen, LinkOK, ReviewIsSound, ApprovedAnswerStands,
     OneAssetPerDiscovery, ReviewIsAudited, NotSeen, Seen, Exists
<1>3. InventoryInv
  <2>1. \A s : Rows(s) = {}
    BY DEF RecordsInit, Rows
  <2>2. Cardinality({}) = 0 /\ DOMAIN item = {}
    BY FS_EmptySet DEF RecordsInit
  <2>3. QED
    BY <2>1, <2>2, IdleOK DEF RecordsInit, InventoryInv, ImportOK, SheetsApart, ImportIsAllOrNothing
<1>4. QED
  BY <1>1, <1>2, <1>3 DEF RecordsInv

\* The invariant that the two theorems rest on.
LEMMA RecordsInvariant == RecordsSpec => []RecordsInv
<1>1. RecordsInit => RecordsInv
  BY RecordsBegin
<1>2. RecordsInv /\ [RecordsNext]_recordVars => RecordsInv'
  BY RecordsType, ReviewHolds, InventoryHolds DEF RecordsInv
<1>3. QED
  BY <1>1, <1>2, PTL DEF RecordsSpec

\* An approval's answer stands, a row makes at most one asset, and a review that shows has its audit event,
\* whichever requests overlap and whichever of them fail (discovery/service.go:108).
THEOREM SoundReview == RecordsSpec => []ReviewIsSound
<1>1. RecordsInv => ReviewIsSound
  BY DEF RecordsInv, ReviewInv
<1>2. QED
  BY <1>1, RecordsInvariant, PTL

\* A sheet is in whole or not at all, its assets are there, its task is started, and a completed task is settled.
THEOREM SoundTasks == RecordsSpec => TasksAreSound
<1>1. RecordsInv => ImportIsAllOrNothing
  BY DEF RecordsInv, InventoryInv
<1>2. RecordsInv /\ [RecordsNext]_recordVars => [\A t \in Tasks : task[t].status = "completed" => task'[t] = task[t]]_invVars
  BY RecordsType DEF RecordsInv, TasksGoOn
<1>3. QED
  BY <1>1, <1>2, RecordsInvariant, PTL DEF RecordsSpec, TasksAreSound, CompletedIsFinal

\* A request that has updated a row waits for nobody.
LEMMA HoldersGoOn ==
    ASSUME RecordsTypeOK, NEW r \in Requests, NEW d, HoldsRow(r, d)
    PROVE  GoesOn(r)
<1>1. work[r].at \in {"reviewed", "audited"} /\ Idle.at = "start"
  BY DEF HoldsRow, Idle
<1>2. QED
  BY <1>1 DEF GoesOn, Open, WaitsFor

\* A request that has inserted a tag waits for nobody, or for a row's holder.
LEMMA InsertersWaitOnce ==
    ASSUME RecordsTypeOK, NEW r \in Requests, NEW t, HoldsTag(r, t)
    PROVE  GoesOn(r) \/ \E q \in Requests : WaitsFor(r, q) /\ GoesOn(q)
<1>1. work[r].at \in {"created", "reviewed", "audited"} /\ Idle.at = "start"
  BY DEF HoldsTag, RecordsTypeOK, WorkOK, Idle
<1>2. CASE GoesOn(r)
  BY <1>2
<1>3. CASE ~GoesOn(r)
  <2>1. PICK q \in Requests : WaitsFor(r, q)
    BY <1>1, <1>3 DEF GoesOn, Open
  <2>2. HoldsRow(q, work[r].disc)
    BY <1>1, <2>1 DEF WaitsFor
  <2>3. QED
    BY <2>1, <2>2, HoldersGoOn
<1>4. QED
  BY <1>2, <1>3

\* Requests never wait for each other in a circle: the tag an approval inserts
\* comes before the row it updates, and whoever has updated a row needs nothing
\* more, so every wait ends after at most two others.
THEOREM WaitsEnd == RecordsSpec => []NoCircularWait
<1>1. RecordsTypeOK => NoCircularWait
  <2>1. SUFFICES ASSUME RecordsTypeOK, NEW r \in Requests, Open(r), ~GoesOn(r)
                 PROVE  \/ \E q \in Requests : WaitsFor(r, q) /\ GoesOn(q)
                        \/ \E q, x \in Requests : WaitsFor(r, q) /\ WaitsFor(q, x) /\ GoesOn(x)
    BY DEF NoCircularWait
  <2>2. PICK q \in Requests : WaitsFor(r, q)
    BY <2>1 DEF GoesOn
  <2>3. CASE HoldsRow(q, work[r].disc)
    BY <2>1, <2>2, <2>3, HoldersGoOn
  <2>4. CASE HoldsTag(q, synthAssetTag[work[r].disc])
    BY <2>1, <2>2, <2>4, InsertersWaitOnce
  <2>5. QED
    BY <2>2, <2>3, <2>4 DEF WaitsFor
<1>2. RecordsInv => RecordsTypeOK
  BY DEF RecordsInv
<1>3. QED
  BY <1>1, <1>2, RecordsInvariant, PTL

------------------------------------------------------------------------------
(* AssetRecords implements ReviewOutcome: a commit is a verdict, an arrival *)
(* a report, an approval that finds a link a repeat; nothing else shows.    *)

\* A step that writes none of what readers see does not show.
LEMMA HiddenSimulation ==
    ASSUME UNCHANGED <<asset, discVars>>
    PROVE  UNCHANGED Outcomes!outcomeVars
<1>1. verdictOf' = verdictOf /\ linkOf' = linkOf /\ madeOf' = madeOf /\ audit' = audit /\ answered' = answered
  BY DEF discVars, verdictOf, linkOf, madeOf, Exists
<1>2. QED
  BY <1>1 DEF Outcomes!outcomeVars

\* A row that is written shows its verdict and its link, and the other rows theirs.
Verdict(status) == IF status \in {"pending", "conflict"} THEN "open" ELSE status

LEMMA RowShows ==
    ASSUME disc \in [Discovered -> Disc], NEW d \in Discovered, NEW x, disc' = [disc EXCEPT ![d] = x]
    PROVE  /\ verdictOf' = [verdictOf EXCEPT ![d] = Verdict(x.status)]
           /\ linkOf' = [linkOf EXCEPT ![d] = x.link]
           /\ verdictOf[d] = Verdict(disc[d].status) /\ linkOf[d] = disc[d].link
  BY DEF verdictOf, linkOf, Verdict

\* A row that is not there comes in.
LEMMA ArrivalSimulation ==
    ASSUME RecordsTypeOK, ReviewInv, UNCHANGED <<asset, audit, answered>>,
           NEW d \in Discovered, ~Seen(d), NEW x, disc' = [disc EXCEPT ![d] = x],
           x.status \in {"pending", "conflict"}, x.link = NoAsset
    PROVE  Outcomes!Report(d)
<1>1. /\ verdictOf' = [verdictOf EXCEPT ![d] = "open"]
      /\ linkOf' = [linkOf EXCEPT ![d] = NoAsset] /\ linkOf[d] = NoAsset
      /\ verdictOf[d] = "none"
  BY RowShows DEF RecordsTypeOK, ReviewInv, LinkOK, Seen, Verdict
<1>2. linkOf' = linkOf
  BY <1>1 DEF linkOf
<1>3. madeOf' = madeOf
  BY DEF madeOf, Exists
<1>4. QED
  BY <1>1, <1>2, <1>3 DEF Outcomes!Report

LEMMA IngestSimulation ==
    ASSUME RecordsTypeOK, ReviewInv, NEW r \in Requests, IngestDiscovered(r)
    PROVE  Outcomes!OutcomeNext \/ UNCHANGED Outcomes!outcomeVars
<1>1. PICK d, a : d = work[r].disc /\ a = work[r].match
  OBVIOUS
<1> DEFINE n == [NotSeen EXCEPT !.match = a]
           x == [n EXCEPT !.status = IF a = NoAsset THEN "pending" ELSE "conflict"]
<1>2. /\ d \in Discovered /\ UNCHANGED <<asset, audit, answered>>
      /\ disc' = disc \/ (~Seen(d) /\ disc' = [disc EXCEPT ![d] = x])
  BY <1>1 DEF IngestDiscovered, RecordsTypeOK, WorkOK
<1>3. x.link = NoAsset /\ x.status \in {"pending", "conflict"}
  BY DEF NotSeen
<1> HIDE DEF x
<1>4. CASE disc' = disc
  BY <1>2, <1>4, HiddenSimulation DEF discVars
<1>5. CASE ~Seen(d) /\ disc' = [disc EXCEPT ![d] = x]
  BY <1>2, <1>3, <1>5, ArrivalSimulation DEF Outcomes!OutcomeNext
<1>6. QED
  BY <1>2, <1>4, <1>5

LEMMA NewDeviceSimulation ==
    ASSUME RecordsTypeOK, ReviewInv, NEW d \in Discovered, NewDevice(d)
    PROVE  Outcomes!OutcomeNext
<1> DEFINE x == [NotSeen EXCEPT !.status = "pending"]
<1>1. ~Seen(d) /\ disc' = [disc EXCEPT ![d] = x] /\ UNCHANGED <<asset, audit, answered>>
  BY DEF NewDevice
<1>2. x.link = NoAsset /\ x.status = "pending"
  BY DEF NotSeen
<1> HIDE DEF x
<1>3. QED
  BY <1>1, <1>2, ArrivalSimulation DEF Outcomes!OutcomeNext

\* An approval that finds a link tells what the row is linked to.
LEMMA ReadSimulation ==
    ASSUME RecordsTypeOK, NEW r \in Requests, NEW d \in Discovered, ReadDiscovered(r, d)
    PROVE  Outcomes!OutcomeNext \/ UNCHANGED Outcomes!outcomeVars
<1>1. UNCHANGED <<asset, disc, audit>>
  BY DEF ReadDiscovered
<1>2. CASE answered' = answered
  BY <1>1, <1>2, HiddenSimulation DEF discVars
<1>3. CASE answered' # answered
  <2>1. disc[d].link # NoAsset /\ answered' = answered \cup {<<d, disc[d].link>>}
    BY <1>3 DEF ReadDiscovered
  <2>2. linkOf[d] = disc[d].link
    BY DEF linkOf
  <2>3. verdictOf' = verdictOf /\ linkOf' = linkOf /\ madeOf' = madeOf
    BY <1>1 DEF verdictOf, linkOf, madeOf, Exists
  <2>4. Outcomes!Repeat(d)
    BY <1>1, <2>1, <2>2, <2>3 DEF Outcomes!Repeat
  <2>5. QED
    BY <2>4 DEF Outcomes!OutcomeNext
<1>4. QED
  BY <1>2, <1>3

\* The commit of an approval is the verdict: the row had no asset, and the asset it gets is new.
LEMMA CommitSimulation ==
    ASSUME RecordsTypeOK, ReviewInv, NEW r \in Requests, CommitReview(r)
    PROVE  Outcomes!OutcomeNext
<1>1. PICK w, d, m : w = work[r] /\ d = work[r].disc /\ m = work[r].made
  OBVIOUS
<1>2. /\ w.op \in {"approve", "ignore"} /\ d \in Discovered /\ Seen(d)
      /\ m \in AssetIds \cup {NoAsset}
      /\ w.op = "approve" <=> m # NoAsset
  <2>1. w.at = "audited" /\ WorkOK(w) /\ w \in Work
    BY <1>1 DEF CommitReview, RecordsTypeOK, WorkOK
  <2>2. w.op \in {"approve", "ignore"}
    BY <2>1 DEF WorkOK, Stages
  <2>3. QED
    BY <1>1, <2>1, <2>2 DEF WorkOK, Work, ReviewInv, ReviewsSeen
<1> DEFINE link == IF m = NoAsset THEN disc[d].link ELSE m
           s == [disc[d] EXCEPT !.status = Outcome(r)]
           x == [s EXCEPT !.link = link]
<1>3. /\ disc' = [disc EXCEPT ![d] = x] /\ x.status = Outcome(r) /\ x.link = link
      /\ disc \in [Discovered -> Disc]
  <2>1. disc' = [disc EXCEPT ![d] = x] /\ disc \in [Discovered -> Disc]
    BY <1>1 DEF CommitReview, RecordsTypeOK
  <2>2. disc[d] \in Disc /\ Outcome(r) \in Status /\ link \in AssetIds \cup {NoAsset}
    BY <1>2, <2>1 DEF Disc, Outcome, Status
  <2>3. s \in Disc /\ s.status = Outcome(r)
    BY <2>2 DEF Disc
  <2> HIDE DEF s, link
  <2>4. QED
    BY <2>1, <2>2, <2>3 DEF Disc
<1> HIDE DEF x
<1>4. /\ Outcome(r) = IF m = NoAsset THEN "ignored" ELSE "approved"
      /\ audit' = audit \cup {<<Outcome(r), d>>}
  BY <1>1, <1>2 DEF CommitReview, Outcome
<1>5. /\ verdictOf' = [verdictOf EXCEPT ![d] = Outcome(r)]
      /\ linkOf' = [linkOf EXCEPT ![d] = link]
      /\ linkOf[d] = disc[d].link
      /\ verdictOf[d] # "none"
  <2>1. /\ verdictOf' = [verdictOf EXCEPT ![d] = Verdict(x.status)]
        /\ linkOf' = [linkOf EXCEPT ![d] = x.link]
        /\ verdictOf[d] = Verdict(disc[d].status) /\ linkOf[d] = disc[d].link
    <3> HIDE DEF link
    <3>1. QED
      BY <1>2, <1>3, RowShows
  <2>2. Verdict(x.status) = Outcome(r) /\ Verdict(disc[d].status) # "none"
    BY <1>2, <1>3, <1>4 DEF Verdict, Seen
  <2> HIDE DEF link
  <2>3. QED
    BY <1>3, <2>1, <2>2
<1>6. Outcomes!Pronounce(d, Outcome(r))
  BY <1>4, <1>5 DEF Outcomes!Pronounce
<1>7. CASE m = NoAsset
  <2>1. asset' = asset /\ answered' = answered /\ linkOf' = linkOf
    BY <1>1, <1>5, <1>7 DEF CommitReview, linkOf
  <2>2. madeOf' = madeOf
    BY <2>1 DEF madeOf, Exists
  <2>3. Outcomes!Ignore(d)
    BY <1>4, <1>6, <1>7, <2>1, <2>2 DEF Outcomes!Ignore
  <2>4. QED
    BY <1>2, <2>3 DEF Outcomes!OutcomeNext
<1>8. CASE m # NoAsset
  <2> DEFINE y == [life |-> "row", row |-> w.row]
  <2>1. /\ m \in AssetIds /\ w.row = Promoted(d) /\ asset[m].life = "unused" /\ ~TagTaken(synthAssetTag[d])
        /\ asset \in [AssetIds -> Asset]
    BY <1>1, <1>2, <1>8 DEF ReviewInv, MadeOK, Promoted, RecordsTypeOK
  <2>2. /\ asset' = [asset EXCEPT ![m] = y]
        /\ answered' \in {answered, answered \cup {<<d, m>>}}
    BY <1>1, <1>8 DEF CommitReview
  <2>3. /\ asset'[m] = y /\ y.life = "row" /\ y.row.origin = d
        /\ \A a \in AssetIds \ {m} : asset'[a] = asset[a]
    BY <2>1, <2>2 DEF Promoted
  <2> HIDE DEF y
  <2>4. \A e : <<e, m>> \notin madeOf
    BY <2>1 DEF madeOf, Exists
  <2>5. madeOf' = madeOf \cup {<<d, m>>}
    BY <1>2, <1>8, <2>1, <2>3, <2>4 DEF madeOf, Exists
  <2>6. linkOf[d] = NoAsset
    <3>1. disc[d].link # NoAsset => disc[d].link \in AssetIds /\ Exists(disc[d].link)
                                    /\ asset[disc[d].link].row.tag = synthAssetTag[d]
      BY <1>2, <1>3 DEF ReviewInv, LinkOK, Disc
    <3>2. QED
      BY <1>5, <2>1, <3>1 DEF TagTaken
  <2>7. linkOf' = [linkOf EXCEPT ![d] = m]
    BY <1>5, <1>8
  <2>8. Outcomes!Approve(d, m)
    BY <1>4, <1>6, <1>8, <2>2, <2>4, <2>5, <2>6, <2>7 DEF Outcomes!Approve
  <2>9. QED
    BY <1>2, <2>1, <2>8 DEF Outcomes!OutcomeNext
<1>9. QED
  BY <1>7, <1>8

\* An asset that a person makes comes of no row; one that came of a row is linked to, and is not deleted.
LEMMA AssetSimulation ==
    ASSUME RecordsTypeOK, ReviewInv, UNCHANGED discVars, NEW a \in AssetIds,
           \/ \E row \in AssetRow : row.origin = NoRow /\ CreateAsset(a, row)
           \/ DeleteAsset(a, ReferencedByDiscovery(a) \/ ReferencedByInventory(a))
    PROVE  UNCHANGED Outcomes!outcomeVars
<1>1. asset \in [AssetIds -> Asset]
  BY DEF RecordsTypeOK
<1>2. /\ \A b \in AssetIds \ {a} : asset'[b] = asset[b]
      /\ asset'[a].row.origin = NoRow
  BY <1>1 DEF CreateAsset, DeleteAsset, Unused
<1>3. Exists(a) => asset[a].row.origin \notin Discovered
  <2>1. CASE asset[a].life = "unused"
    BY <2>1 DEF Exists
  <2>2. CASE ~ReferencedByDiscovery(a)
    BY <2>2, AssetsAssumption DEF ReferencedByDiscovery, ReviewInv, ReviewIsSound, OneAssetPerDiscovery
  <2>3. QED
    BY <2>1, <2>2 DEF CreateAsset, FreshId, DeleteAsset
<1>4. \A d \in Discovered, b \in AssetIds :
          (Exists(b) /\ asset[b].row.origin = d)' <=> (Exists(b) /\ asset[b].row.origin = d)
  BY <1>2, <1>3, AssetsAssumption DEF Exists
<1>5. madeOf' = madeOf
  BY <1>4 DEF madeOf
<1>6. verdictOf' = verdictOf /\ linkOf' = linkOf /\ audit' = audit /\ answered' = answered
  BY DEF discVars, verdictOf, linkOf
<1>7. QED
  BY <1>5, <1>6 DEF Outcomes!outcomeVars

LEMMA RecordsSimulation ==
    ASSUME RecordsInv, [RecordsNext]_recordVars
    PROVE  Outcomes!OutcomeNext \/ UNCHANGED Outcomes!outcomeVars
<1>1. RecordsTypeOK /\ ReviewInv
  BY DEF RecordsInv
<1>2. CASE \E r \in Requests : ReviewStep(r) \/ ReviewStart(r)
  <2>1. PICK r \in Requests : ReviewStep(r) \/ ReviewStart(r)
    BY <1>2
  <2>2. CASE IngestDiscovered(r)
    BY <1>1, <2>2, IngestSimulation
  <2>3. CASE CommitReview(r)
    BY <1>1, <2>3, CommitSimulation
  <2>4. CASE \E d \in Discovered : ReadDiscovered(r, d)
    BY <1>1, <2>4, ReadSimulation
  <2>5. CASE UNCHANGED <<asset, discVars>>
    BY <2>5, HiddenSimulation
  <2>6. QED
    BY <2>1, <2>2, <2>3, <2>4, <2>5
       DEF ReviewStep, ReviewStart, Promote, LinkDiscovered, AuditReview, MatchDiscovered, IgnoreDiscovered
<1>3. CASE \/ \E r \in Requests : (InventoryStep(r) \/ InventoryStart(r)) /\ UNCHANGED discVars
           \/ \E r \in Requests : Rollback(r)
           \/ \E t \in Tasks : (CreateInventoryTask(t) \/ CompleteInventoryTask(t)) /\ UNCHANGED discVars
           \/ UNCHANGED recordVars
  <2>1. UNCHANGED <<asset, discVars>>
    BY <1>1, <1>3, InventoryTypes DEF Rollback, CreateInventoryTask, CompleteInventoryTask, recordVars, discVars
  <2>2. QED
    BY <2>1, HiddenSimulation
<1>4. CASE \E d \in Discovered : NewDevice(d)
  BY <1>1, <1>4, NewDeviceSimulation
<1>5. CASE \/ \E a \in AssetIds : \E t \in Tags, ip \in Discovered \cup {NoRow} :
                 CreateAsset(a, [tag |-> t, ip |-> ip, origin |-> NoRow]) /\ UNCHANGED discVars
           \/ \E a \in AssetIds : DeleteAsset(a, ReferencedByDiscovery(a) \/ ReferencedByInventory(a))
                 /\ UNCHANGED discVars
  <2>1. \A t \in Tags, ip \in Discovered \cup {NoRow} : [tag |-> t, ip |-> ip, origin |-> NoRow] \in AssetRow
    BY DEF AssetRow
  <2>2. QED
    BY <1>1, <1>5, <2>1, AssetSimulation
<1>6. QED
  BY <1>2, <1>3, <1>4, <1>5 DEF RecordsNext, Step

\* Whatever requests overlap, repeat and fail, the reviews a reader of the
\* tables sees are those of ReviewOutcome: a verdict, its asset, its link and
\* its audit event at one instant, and one asset for good.
THEOREM ReviewRefinement == RecordsSpec => ImplementsReview
<1>1. RecordsInit => Outcomes!OutcomeInit
  BY DEF RecordsInit, Outcomes!OutcomeInit, verdictOf, linkOf, madeOf, NotSeen, Exists
<1>2. RecordsInv /\ [RecordsNext]_recordVars => [Outcomes!OutcomeNext]_Outcomes!outcomeVars
  BY RecordsSimulation
<1>3. QED
  BY <1>1, <1>2, RecordsInvariant, PTL DEF RecordsSpec, ImplementsReview, Outcomes!OutcomeSpec
==============================================================================
