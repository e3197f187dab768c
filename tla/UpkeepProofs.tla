---------------------------- MODULE UpkeepProofs -----------------------------
(***************************************************************************)
(* Proofs about the upkeep that nobody asks for: the scans that open work  *)
(* orders, and the scan that scores the assets' data. The parts share no   *)
(* state: each theorem is about the specification of its own part.         *)
(***************************************************************************)
EXTENDS AutoOrders, QualityScores, FiniteSetTheorems, TLAPS

------------------------------------------------------------------------------
(***************************************************************************)
(* Safety of the scans and handlers that open work orders, for any number  *)
(* of replicas, reasons, orders and failures.                              *)
(*                                                                         *)
(* Three inductive invariants.  KeyInv: a transaction that has inserted a  *)
(* key is alone with it.  Room: the open orders about a reason and the     *)
(* replicas that still have it on their list are together no more than the *)
(* replicas, because a list is made when nothing is open.  The stranded    *)
(* emergencies need nothing beyond KeyInv's account of who starts what.    *)
(***************************************************************************)

\* What a replica's place in the code says of the scanner and of its order.
JobFits ==
    \A p \in Replicas :
        /\ job[p].pc \in {"insert", "commit"} => scanner \in Keyed
        /\ At(p, "start") => /\ scanner = "emergency"
                             /\ job[p].order \in 1 .. Len(orders[job[p].reason])

\* An uncommitted key is new, and nobody else has inserted it.
KeyIsFree ==
    \A p \in Replicas : At(p, "commit") =>
        /\ dedup[job[p].reason] = 0
        /\ \A q \in Replicas : At(q, "commit") /\ job[q].reason = job[p].reason => q = p

KeyInv == TypeOK /\ JobFits /\ KeyIsFree /\ OrderAndKeyTogether

------------------------------------------------------------------------------
(* The pieces steps are made of.                                           *)

LEMMA LoopShape ==
    ASSUME NEW todo \in SUBSET Reasons
    PROVE  /\ Loop(todo) \in Job
           /\ Loop(todo).pc \in {"idle", "create"}
           /\ Loop(todo).todo = todo
<1>1. (CHOOSE r \in Reasons : TRUE) \in Reasons
  BY AutoAssumption
<1>2. 0 \in 0 .. MaxOrders
  BY AutoAssumption
<1>3. Idle \in Job /\ Idle.pc = "idle" /\ Idle.todo = {}
  BY <1>1, <1>2 DEF Idle, Job
<1>4. QED
  BY <1>1, <1>2, <1>3 DEF Loop, Idle, Job

LEMMA IdleIsLoop == Idle = Loop({})
  BY DEF Loop

\* An order more, in a sequence of orders that had room for it.
LEMMA AddShape ==
    ASSUME TypeOK, NEW r \in Reasons, Add(r), Len(orders[r]) < MaxOrders
    PROVE  /\ orders' \in [Reasons -> Seq(Status)]
           /\ \A q \in Reasons : Len(orders'[q]) <= MaxOrders
           /\ \A q \in Reasons : q # r => orders'[q] = orders[q]
           /\ orders'[r] = Append(orders[r], "submitted")
           /\ Len(orders'[r]) = Len(orders[r]) + 1
           /\ Len(orders[r]) \in Nat
<1>1. orders[r] \in Seq(Status) /\ "submitted" \in Status /\ Len(orders[r]) \in Nat
  BY DEF TypeOK, Status
<1>2. Append(orders[r], "submitted") \in Seq(Status)
  BY <1>1
<1>3. Len(Append(orders[r], "submitted")) = Len(orders[r]) + 1
  BY <1>1
<1>4. /\ orders' \in [Reasons -> Seq(Status)]
      /\ \A q \in Reasons : q # r => orders'[q] = orders[q]
      /\ orders'[r] = Append(orders[r], "submitted")
  BY <1>2 DEF Add, TypeOK
<1>5. Len(orders'[r]) <= MaxOrders
  BY <1>1, <1>3, <1>4, AutoAssumption
<1>6. QED
  BY <1>1, <1>3, <1>4, <1>5 DEF TypeOK

\* Another status for an order that is there.
LEMMA SetShape ==
    ASSUME TypeOK, NEW r \in Reasons, NEW i \in 1 .. Len(orders[r]), NEW s \in Status,
           orders' = [orders EXCEPT ![r][i] = s]
    PROVE  /\ orders' \in [Reasons -> Seq(Status)]
           /\ \A q \in Reasons : Len(orders'[q]) = Len(orders[q])
           /\ \A q \in Reasons : DOMAIN orders'[q] = DOMAIN orders[q]
           /\ \A q \in Reasons : q # r => orders'[q] = orders[q]
           /\ \A j \in DOMAIN orders[r] : orders'[r][j] = IF j = i THEN s ELSE orders[r][j]
<1>1. orders[r] \in Seq(Status)
  BY DEF TypeOK
<1>2. /\ [orders[r] EXCEPT ![i] = s] \in Seq(Status)
      /\ Len([orders[r] EXCEPT ![i] = s]) = Len(orders[r])
      /\ DOMAIN [orders[r] EXCEPT ![i] = s] = DOMAIN orders[r]
      /\ \A j \in DOMAIN orders[r] :
             [orders[r] EXCEPT ![i] = s][j] = IF j = i THEN s ELSE orders[r][j]
  BY <1>1
<1>3. orders' = [orders EXCEPT ![r] = [orders[r] EXCEPT ![i] = s]]
  OBVIOUS
<1>4. QED
  BY <1>2, <1>3 DEF TypeOK

LEMMA TransitionShape ==
    ASSUME TypeOK, JobFits, NEW p \in Replicas, TransitionEmergencyAtomic(p)
    PROVE  /\ orders' \in [Reasons -> Seq(Status)]
           /\ \A q \in Reasons : Len(orders'[q]) = Len(orders[q])
           /\ \A q \in Reasons : DOMAIN orders'[q] = DOMAIN orders[q]
           /\ \A q \in Reasons : \A j \in DOMAIN orders[q] :
                 /\ orders'[q][j] = "submitted" =>
                       orders[q][j] = "submitted" /\ ~(q = job[p].reason /\ j = job[p].order)
                 /\ orders'[q][j] # "ended" => orders[q][j] # "ended"
<1> DEFINE r == job[p].reason
           o == job[p].order
<1>1. /\ r \in Reasons
      /\ o \in 1 .. Len(orders[r])
  BY DEF TransitionEmergencyAtomic, TypeOK, Job, JobFits
<1>2. CASE orders[r][o] = "submitted"
  <2>1. orders' = [orders EXCEPT ![r][o] = "started"]
    BY <1>2 DEF TransitionEmergencyAtomic
  <2>2. "started" \in Status
    BY DEF Status
  <2>3. QED
    BY <1>1, <1>2, <2>1, <2>2, SetShape
<1>3. CASE orders[r][o] # "submitted"
  <2>1. orders' = orders
    BY <1>3 DEF TransitionEmergencyAtomic
  <2>2. QED
    BY <1>3, <2>1 DEF TypeOK
<1>4. QED
  BY <1>2, <1>3

------------------------------------------------------------------------------
(* Types, and orders with their keys.                                      *)

LEMMA KeyInvInit == Init => KeyInv
<1> SUFFICES ASSUME Init PROVE KeyInv
  OBVIOUS
<1>1. Idle \in Job /\ Idle.pc = "idle"
  BY IdleIsLoop, LoopShape, AutoAssumption DEF Idle
<1>2. <<>> \in Seq(Status) /\ Len(<<>>) = 0
  OBVIOUS
<1>3. TypeOK
  BY <1>1, <1>2, AutoAssumption DEF Init, TypeOK
<1>4. JobFits /\ KeyIsFree
  BY <1>1 DEF Init, JobFits, KeyIsFree, At
<1>5. OrderAndKeyTogether
  BY <1>2 DEF Init, OrderAndKeyTogether
<1>6. QED
  BY <1>3, <1>4, <1>5 DEF KeyInv

\* A replica goes back to its loop, or gives up, and the tables stay as they are.
LEMMA KeyInvLoop ==
    ASSUME KeyInv, NEW p \in Replicas, NEW todo \in SUBSET Reasons,
           job' = [job EXCEPT ![p] = Loop(todo)],
           UNCHANGED <<scanner, due, orders, dedup>>, failures' \in 0 .. MaxFailures
    PROVE  KeyInv'
<1>1. Loop(todo) \in Job /\ Loop(todo).pc \in {"idle", "create"}
  BY LoopShape
<1>2. /\ job'[p].pc \in {"idle", "create"}
      /\ \A q \in Replicas : q # p => job'[q] = job[q]
  BY <1>1 DEF KeyInv, TypeOK
<1>3. TypeOK'
  BY <1>1 DEF KeyInv, TypeOK
<1>4. JobFits'
  BY <1>2 DEF KeyInv, JobFits, At
<1>5. KeyIsFree'
  BY <1>2 DEF KeyInv, KeyIsFree, At
<1>6. OrderAndKeyTogether'
  BY DEF KeyInv, OrderAndKeyTogether
<1>7. QED
  BY <1>3, <1>4, <1>5, <1>6 DEF KeyInv

\* Orders change their status, or jobs do not change at all.
LEMMA KeyInvStatus ==
    ASSUME KeyInv, orders' \in [Reasons -> Seq(Status)],
           \A q \in Reasons : Len(orders'[q]) = Len(orders[q]),
           UNCHANGED <<scanner, dedup, job, failures>>, due' \in SUBSET Reasons
    PROVE  KeyInv'
<1>1. TypeOK'
  BY DEF KeyInv, TypeOK
<1>2. \A p \in Replicas : job[p].reason \in Reasons
  BY DEF KeyInv, TypeOK, Job
<1>3. JobFits'
  BY <1>2 DEF KeyInv, JobFits, At
<1>4. KeyIsFree'
  BY DEF KeyInv, KeyIsFree, At
<1>5. OrderAndKeyTogether'
  BY DEF KeyInv, OrderAndKeyTogether
<1>6. QED
  BY <1>1, <1>3, <1>4, <1>5 DEF KeyInv

LEMMA KeyInvCreate ==
    ASSUME KeyInv, NEW p \in Replicas, NEW r \in Reasons, Create(p, r)
    PROVE  KeyInv'
<1> DEFINE todo == job[p].todo \ {r}
<1>1. /\ orders' \in [Reasons -> Seq(Status)]
      /\ \A q \in Reasons : Len(orders'[q]) <= MaxOrders
      /\ \A q \in Reasons : q # r => orders'[q] = orders[q]
      /\ Len(orders'[r]) = Len(orders[r]) + 1
      /\ Len(orders[r]) \in Nat
      /\ Len(orders[r]) + 1 \in 0 .. MaxOrders
  <2>1. TypeOK /\ Add(r) /\ Len(orders[r]) < MaxOrders
    BY DEF Create, KeyInv
  <2>2. QED
    BY <2>1, AddShape, AutoAssumption
<1>2. todo \in SUBSET Reasons /\ job \in [Replicas -> Job]
  BY DEF KeyInv, TypeOK, Job
<1>3. scanner \notin Keyed
  BY DEF Create
<1>4. /\ job' \in [Replicas -> Job]
      /\ \A q \in Replicas : q # p => job'[q] = job[q]
      /\ job'[p].pc \notin {"insert", "commit"}
      /\ job'[p].pc = "start" =>
            scanner = "emergency" /\ job'[p].reason = r /\ job'[p].order = Len(orders'[r])
  <2>1. CASE scanner = "emergency"
    <3>1. job' = [job EXCEPT ![p] = [job[p] EXCEPT !.pc = "start", !.todo = todo,
                                                   !.reason = r, !.order = Len(orders[r]) + 1]]
      BY <2>1 DEF Create
    <3>2. [job[p] EXCEPT !.pc = "start", !.todo = todo, !.reason = r,
                         !.order = Len(orders[r]) + 1] \in Job
      BY <1>1, <1>2 DEF Job
    <3>3. job' \in [Replicas -> Job]
      BY <1>2, <3>1, <3>2
    <3>4. /\ job'[p] = [job[p] EXCEPT !.pc = "start", !.todo = todo, !.reason = r,
                                      !.order = Len(orders[r]) + 1]
          /\ \A q \in Replicas : q # p => job'[q] = job[q]
      BY <1>2, <3>1
    <3>5. job'[p].pc = "start" /\ job'[p].reason = r /\ job'[p].order = Len(orders[r]) + 1
      BY <1>2, <3>4 DEF Job
    <3>6. QED
      BY <1>1, <2>1, <3>3, <3>4, <3>5
  <2>2. CASE scanner # "emergency"
    <3>1. job' = [job EXCEPT ![p] = Loop(todo)]
      BY <2>2 DEF Create, SkipReason
    <3>2. QED
      BY <1>2, <3>1, LoopShape
  <2>3. QED
    BY <2>1, <2>2
<1>5. TypeOK'
  BY <1>1, <1>4 DEF KeyInv, TypeOK, Create
<1>6. JobFits'
  <2> SUFFICES ASSUME NEW q \in Replicas
               PROVE  /\ job'[q].pc \in {"insert", "commit"} => scanner' \in Keyed
                      /\ job'[q].pc = "start" =>
                            /\ scanner' = "emergency"
                            /\ job'[q].order \in 1 .. Len(orders'[job'[q].reason])
    BY DEF JobFits, At
  <2>1. scanner' = scanner
    BY DEF Create
  <2>2. CASE q = p
    BY <1>1, <1>4, <2>1, <2>2
  <2>3. CASE q # p
    <3>1. job'[q] = job[q] /\ job[q].reason \in Reasons
      BY <1>2, <1>4, <2>3 DEF Job
    <3>2. Len(orders'[job[q].reason]) \in Nat /\ Len(orders[job[q].reason]) \in Nat
      BY <1>1, <3>1 DEF KeyInv, TypeOK
    <3>3. Len(orders[job[q].reason]) <= Len(orders'[job[q].reason])
      BY <1>1, <3>1, <3>2
    <3>4. job[q].pc = "start" => /\ scanner = "emergency"
                                 /\ job[q].order \in 1 .. Len(orders[job[q].reason])
      BY DEF KeyInv, JobFits, At
    <3>5. job[q].pc \in {"insert", "commit"} => scanner \in Keyed
      BY DEF KeyInv, JobFits
    <3>6. QED
      BY <2>1, <3>1, <3>2, <3>3, <3>4, <3>5
  <2>4. QED
    BY <2>2, <2>3
<1>7. KeyIsFree'
  <2>1. \A q \in Replicas : job'[q].pc # "commit"
    BY <1>3, <1>4 DEF KeyInv, JobFits
  <2>2. QED
    BY <2>1 DEF KeyIsFree, At
<1>8. OrderAndKeyTogether'
  BY <1>3 DEF OrderAndKeyTogether, Create
<1>9. QED
  BY <1>5, <1>6, <1>7, <1>8 DEF KeyInv

LEMMA KeyInvCreateTx ==
    ASSUME KeyInv, NEW p \in Replicas, NEW r \in Reasons, CreateTx(p, r)
    PROVE  KeyInv'
<1> DEFINE new == [job[p] EXCEPT !.pc = "insert", !.todo = job[p].todo \ {r}, !.reason = r]
<1>1. job' = [job EXCEPT ![p] = new] /\ UNCHANGED <<scanner, due, orders, dedup, failures>>
  BY DEF CreateTx
<1>2. new \in Job /\ new.pc = "insert"
  BY DEF KeyInv, TypeOK, Job
<1>3. /\ job' \in [Replicas -> Job]
      /\ job'[p].pc = "insert"
      /\ \A q \in Replicas : q # p => job'[q] = job[q]
  BY <1>1, <1>2 DEF KeyInv, TypeOK
<1>4. TypeOK'
  BY <1>1, <1>3 DEF KeyInv, TypeOK
<1>5. JobFits'
  BY <1>1, <1>3 DEF KeyInv, JobFits, At, CreateTx
<1>6. KeyIsFree'
  BY <1>1, <1>3 DEF KeyInv, KeyIsFree, At
<1>7. OrderAndKeyTogether'
  BY <1>1 DEF KeyInv, OrderAndKeyTogether
<1>8. QED
  BY <1>4, <1>5, <1>6, <1>7 DEF KeyInv

LEMMA KeyInvInsertDedup ==
    ASSUME KeyInv, NEW p \in Replicas, InsertDedup(p)
    PROVE  KeyInv'
<1>1. CASE dedup[job[p].reason] = 0
  <2>1. job' = [job EXCEPT ![p] = [job[p] EXCEPT !.pc = "commit"]]
    BY <1>1 DEF InsertDedup
  <2>2. /\ [job[p] EXCEPT !.pc = "commit"] \in Job
        /\ [job[p] EXCEPT !.pc = "commit"].pc = "commit"
        /\ [job[p] EXCEPT !.pc = "commit"].reason = job[p].reason
    BY DEF KeyInv, TypeOK, Job
  <2>3. /\ job' \in [Replicas -> Job]
        /\ job'[p].pc = "commit" /\ job'[p].reason = job[p].reason
        /\ \A q \in Replicas : q # p => job'[q] = job[q]
    BY <2>1, <2>2 DEF KeyInv, TypeOK
  <2>4. UNCHANGED <<scanner, due, orders, dedup, failures>>
    BY DEF InsertDedup
  <2>5. TypeOK'
    BY <2>3, <2>4 DEF KeyInv, TypeOK
  <2>6. JobFits'
    BY <2>3, <2>4 DEF KeyInv, JobFits, At, InsertDedup
  <2>7. KeyIsFree'
    BY <1>1, <2>3, <2>4 DEF KeyInv, KeyIsFree, At, InsertDedup
  <2>8. OrderAndKeyTogether'
    BY <2>4 DEF KeyInv, OrderAndKeyTogether
  <2>9. QED
    BY <2>5, <2>6, <2>7, <2>8 DEF KeyInv
<1>2. CASE dedup[job[p].reason] # 0
  <2>1. job[p].todo \in SUBSET Reasons /\ failures' \in 0 .. MaxFailures
    BY DEF KeyInv, TypeOK, Job, InsertDedup
  <2>2. job' = [job EXCEPT ![p] = Loop(job[p].todo)]
    BY <1>2 DEF InsertDedup, Resume
  <2>3. QED
    BY <2>1, <2>2, KeyInvLoop DEF InsertDedup
<1>3. QED
  BY <1>1, <1>2

LEMMA KeyInvCommit ==
    ASSUME KeyInv, NEW p \in Replicas, Commit(p)
    PROVE  KeyInv'
<1> DEFINE r == job[p].reason
<1>1. /\ r \in Reasons
      /\ job[p].todo \in SUBSET Reasons
      /\ scanner \in Keyed
      /\ dedup[r] = 0
      /\ \A q \in Replicas : At(q, "commit") /\ job[q].reason = r => q = p
  BY DEF KeyInv, TypeOK, Job, JobFits, KeyIsFree, Commit, At
<1>2. Len(orders[r]) = 0 /\ Len(orders[r]) < MaxOrders
  BY <1>1, AutoAssumption DEF KeyInv, OrderAndKeyTogether
<1>3. /\ orders' \in [Reasons -> Seq(Status)]
      /\ \A q \in Reasons : Len(orders'[q]) <= MaxOrders
      /\ \A q \in Reasons : q # r => orders'[q] = orders[q]
      /\ Len(orders'[r]) = 1
  <2>1. TypeOK /\ Add(r)
    BY DEF Commit, KeyInv
  <2>2. r \in Reasons /\ Len(orders[r]) < MaxOrders
    BY <1>1, <1>2
  <2>3. /\ orders' \in [Reasons -> Seq(Status)]
        /\ \A q \in Reasons : Len(orders'[q]) <= MaxOrders
        /\ \A q \in Reasons : q # r => orders'[q] = orders[q]
        /\ Len(orders'[r]) = Len(orders[r]) + 1
    BY <2>1, <2>2, AddShape
  <2>4. QED
    BY <1>2, <2>3
<1>4. dedup' = [dedup EXCEPT ![r] = 1]
  BY <1>1, <1>2 DEF Commit, KeyInv, TypeOK
<1>5. /\ dedup' \in [Reasons -> 0 .. MaxOrders]
      /\ dedup'[r] = 1
      /\ \A q \in Reasons : q # r => dedup'[q] = dedup[q]
  BY <1>1, <1>4, AutoAssumption DEF KeyInv, TypeOK
<1>6. /\ job' \in [Replicas -> Job]
      /\ job'[p].pc \in {"idle", "create"}
      /\ \A q \in Replicas : q # p => job'[q] = job[q]
  BY <1>1, LoopShape DEF Commit, Resume, KeyInv, TypeOK
<1>7. UNCHANGED <<scanner, due, failures>>
  BY DEF Commit
<1>8. TypeOK'
  BY <1>3, <1>5, <1>6, <1>7 DEF KeyInv, TypeOK
<1>9. JobFits'
  BY <1>1, <1>6, <1>7 DEF KeyInv, JobFits, At, Keyed
<1>10. KeyIsFree'
  <2> SUFFICES ASSUME NEW q \in Replicas, job'[q].pc = "commit"
               PROVE  /\ dedup'[job'[q].reason] = 0
                      /\ \A x \in Replicas :
                            job'[x].pc = "commit" /\ job'[x].reason = job'[q].reason => x = q
    BY DEF KeyIsFree, At
  <2>1. q # p /\ job'[q] = job[q] /\ job[q].reason # r /\ job[q].reason \in Reasons
    BY <1>1, <1>6 DEF At, KeyInv, TypeOK, Job
  <2>2. QED
    BY <1>5, <1>6, <2>1 DEF KeyInv, KeyIsFree, At
<1>11. OrderAndKeyTogether'
  <2> SUFFICES ASSUME NEW q \in Reasons
               PROVE  dedup'[q] = Len(orders'[q]) /\ Len(orders'[q]) <= 1
    BY DEF OrderAndKeyTogether
  <2>1. dedup[q] = Len(orders[q]) /\ Len(orders[q]) <= 1
    BY <1>1 DEF KeyInv, OrderAndKeyTogether
  <2>2. CASE q = r
    <3>1. dedup'[q] = 1 /\ Len(orders'[q]) = 1
      BY <1>3, <1>5, <2>2, Zenon
    <3>2. QED
      BY <3>1
  <2>3. CASE q # r
    BY <1>3, <1>5, <2>1, <2>3
  <2>4. QED
    BY <2>2, <2>3
<1>12. QED
  BY <1>8, <1>9, <1>10, <1>11 DEF KeyInv

LEMMA KeyInvTransition ==
    ASSUME KeyInv, NEW p \in Replicas, TransitionEmergencyAtomic(p)
    PROVE  KeyInv'
<1>1. /\ orders' \in [Reasons -> Seq(Status)]
      /\ \A q \in Reasons : Len(orders'[q]) = Len(orders[q])
  BY TransitionShape DEF KeyInv
<1>2. /\ job' \in [Replicas -> Job]
      /\ job'[p].pc \in {"idle", "create"}
      /\ \A q \in Replicas : q # p => job'[q] = job[q]
  BY LoopShape DEF TransitionEmergencyAtomic, Resume, KeyInv, TypeOK, Job
<1>3. UNCHANGED <<scanner, due, dedup, failures>>
  BY DEF TransitionEmergencyAtomic
<1>4. TypeOK'
  BY <1>1, <1>2, <1>3 DEF KeyInv, TypeOK
<1>5. JobFits'
  <2>1. \A q \in Replicas : job[q].reason \in Reasons
    BY DEF KeyInv, TypeOK, Job
  <2>2. QED
    BY <1>1, <1>2, <1>3, <2>1 DEF KeyInv, JobFits, At
<1>6. KeyIsFree'
  BY <1>2, <1>3 DEF KeyInv, KeyIsFree, At
<1>7. OrderAndKeyTogether'
  BY <1>1, <1>3 DEF KeyInv, OrderAndKeyTogether
<1>8. QED
  BY <1>4, <1>5, <1>6, <1>7 DEF KeyInv

LEMMA KeyInvNext == KeyInv /\ [Next]_vars => KeyInv'
<1> SUFFICES ASSUME KeyInv, [Next]_vars PROVE KeyInv'
  OBVIOUS
<1> USE DEF vars
<1>0. /\ TypeOK
      /\ failures \in 0 .. MaxFailures
      /\ \A p \in Replicas : job[p].todo \in SUBSET Reasons
  BY DEF KeyInv, TypeOK, Job
<1>1. ASSUME NEW p \in Replicas, Tick(p) PROVE KeyInv'
  <2>1. Listed \in SUBSET Reasons
    BY <1>0 DEF Listed, Candidates, TypeOK
  <2>2. QED
    BY <1>0, <1>1, <2>1, KeyInvLoop DEF Tick
<1>2. ASSUME NEW p \in Replicas, NEW r \in Reasons, Create(p, r) PROVE KeyInv'
  BY <1>2, KeyInvCreate
<1>3. ASSUME NEW p \in Replicas, NEW r \in Reasons, SkipAtBound(p, r) PROVE KeyInv'
  <2>1. job[p].todo \ {r} \in SUBSET Reasons
    BY <1>0
  <2>2. QED
    BY <1>0, <1>3, <2>1, KeyInvLoop DEF SkipAtBound, SkipReason
<1>4. ASSUME NEW p \in Replicas, NEW r \in Reasons, CreateTx(p, r) PROVE KeyInv'
  BY <1>4, KeyInvCreateTx
<1>5. ASSUME NEW p \in Replicas, InsertDedup(p) PROVE KeyInv'
  BY <1>5, KeyInvInsertDedup
<1>6. ASSUME NEW p \in Replicas, Commit(p) PROVE KeyInv'
  BY <1>6, KeyInvCommit
<1>7. ASSUME NEW p \in Replicas, TransitionEmergencyAtomic(p) PROVE KeyInv'
  BY <1>7, KeyInvTransition
<1>8. ASSUME NEW p \in Replicas, LogAndGoOn(p) PROVE KeyInv'
  <2>1. failures' \in 0 .. MaxFailures /\ UNCHANGED <<scanner, due, orders, dedup>>
    BY <1>0, <1>8, AutoAssumption DEF LogAndGoOn, Fail
  <2>2. PICK todo \in SUBSET Reasons : job' = [job EXCEPT ![p] = Loop(todo)]
    BY <1>0, <1>8 DEF LogAndGoOn, SkipReason, Resume
  <2>3. QED
    BY <2>1, <2>2, KeyInvLoop
<1>9. ASSUME NEW p \in Replicas, Crash(p) PROVE KeyInv'
  <2>1. failures' \in 0 .. MaxFailures /\ UNCHANGED <<scanner, due, orders, dedup>>
    BY <1>0, <1>9, AutoAssumption DEF Crash, Fail
  <2>2. job' = [job EXCEPT ![p] = Loop({})]
    BY <1>9, IdleIsLoop DEF Crash
  <2>3. {} \in SUBSET Reasons
    OBVIOUS
  <2>4. QED
    BY <2>1, <2>2, <2>3, KeyInvLoop
<1>10. ASSUME NEW p \in Replicas, NEW r \in Reasons, HandleEvent(p, r) PROVE KeyInv'
  <2>1. {r} \in SUBSET Reasons
    OBVIOUS
  <2>2. failures' \in 0 .. MaxFailures /\ UNCHANGED <<scanner, due, orders, dedup>>
    BY <1>0, <1>10 DEF HandleEvent
  <2>3. QED
    BY <1>10, <2>1, <2>2, KeyInvLoop DEF HandleEvent
<1>11. ASSUME NEW r \in Reasons, Appear(r) \/ Clear(r) PROVE KeyInv'
  BY <1>0, <1>11, KeyInvStatus DEF Appear, Clear, TypeOK
<1>12. ASSUME NEW r \in Reasons, NEW i \in DOMAIN orders[r], Approve(r, i) \/ End(r, i)
       PROVE  KeyInv'
  <2>1. i \in 1 .. Len(orders[r])
    BY <1>0 DEF TypeOK
  <2>2. PICK s \in Status : orders' = [orders EXCEPT ![r][i] = s]
    BY <1>12 DEF Approve, End, Status
  <2>3. QED
    BY <1>0, <1>12, <2>1, <2>2, SetShape, KeyInvStatus DEF Approve, End, TypeOK
<1>13. ASSUME UNCHANGED vars PROVE KeyInv'
  BY <1>0, <1>13, KeyInvStatus DEF TypeOK
<1>14. QED
  BY <1>1, <1>2, <1>3, <1>4, <1>5, <1>6, <1>7, <1>8, <1>9, <1>10, <1>11, <1>12, <1>13
     DEF Next, Step

LEMMA KeyInvariant == Spec => []KeyInv
  BY KeyInvInit, KeyInvNext, PTL DEF Spec

\* Types, and at most MaxOrders orders about one reason: with a key there is one,
\* and the rest is the bound of the model.
THEOREM TypeCorrect == Spec => []TypeOK
<1>1. KeyInv => TypeOK
  BY DEF KeyInv
<1>2. QED
  BY <1>1, KeyInvariant, PTL

\* However many replicas scan, fail and crash, a key has an order exactly when it
\* has its row in work_order_dedup, and one order at most.
THEOREM OneOrderPerKey == Spec => []OrderAndKeyTogether
<1>1. KeyInv => OrderAndKeyTogether
  BY DEF KeyInv
<1>2. QED
  BY <1>1, KeyInvariant, PTL

------------------------------------------------------------------------------
(* Open orders of the scans that probe.                                    *)

OpenSet(r) == {i \in DOMAIN orders[r] : orders[r][i] # "ended"}
Pending(r) == {p \in Replicas : r \in job[p].todo}

Room ==
    scanner \in Probing =>
        \A r \in Reasons : Cardinality(OpenSet(r)) + Cardinality(Pending(r)) <= Cardinality(Replicas)

LEMMA OpenFinite ==
    ASSUME TypeOK, NEW r \in Reasons
    PROVE  IsFiniteSet(OpenSet(r)) /\ Cardinality(OpenSet(r)) \in Nat
<1>1. Len(orders[r]) \in Nat /\ OpenSet(r) \in SUBSET (1 .. Len(orders[r]))
  BY DEF TypeOK, OpenSet
<1>2. IsFiniteSet(1 .. Len(orders[r]))
  BY <1>1, FS_Interval
<1>3. IsFiniteSet(OpenSet(r))
  BY <1>1, <1>2, FS_Subset
<1>4. QED
  BY <1>3, FS_CardinalityType

LEMMA PendingFinite ==
    ASSUME NEW r
    PROVE  /\ IsFiniteSet(Pending(r))
           /\ Cardinality(Pending(r)) \in Nat
           /\ Cardinality(Replicas) \in Nat
           /\ Cardinality(Pending(r)) <= Cardinality(Replicas)
<1>1. Pending(r) \in SUBSET Replicas
  BY DEF Pending
<1>2. IsFiniteSet(Replicas)
  BY AutoAssumption
<1>3. IsFiniteSet(Pending(r)) /\ Cardinality(Pending(r)) <= Cardinality(Replicas)
  BY <1>1, <1>2, FS_Subset
<1>4. QED
  BY <1>2, <1>3, FS_CardinalityType

LEMMA PendingFinitePrimed ==
    ASSUME NEW r
    PROVE  /\ Cardinality(Pending(r)') \in Nat
           /\ Cardinality(Pending(r)') <= Cardinality(Replicas)
<1>1. Pending(r)' \in SUBSET Replicas
  BY DEF Pending
<1>2. IsFiniteSet(Replicas)
  BY AutoAssumption
<1>3. IsFiniteSet(Pending(r)') /\ Cardinality(Pending(r)') <= Cardinality(Replicas)
  BY <1>1, <1>2, FS_Subset
<1>4. QED
  BY <1>3, FS_CardinalityType

\* No order opens, and reasons join a list only when nothing is open about them.
LEMMA RoomStays ==
    ASSUME TypeOK, Room, scanner' = scanner,
           \A r \in Reasons : OpenSet(r)' \in SUBSET OpenSet(r),
           scanner \in Probing =>
               \A r \in Reasons : Pending(r)' \in SUBSET Pending(r) \/ OpenSet(r) = {}
    PROVE  Room'
<1> SUFFICES ASSUME scanner \in Probing, NEW r \in Reasons
             PROVE  Cardinality(OpenSet(r)') + Cardinality(Pending(r)') <= Cardinality(Replicas)
  BY DEF Room
<1>1. /\ Cardinality(OpenSet(r)) \in Nat
      /\ Cardinality(OpenSet(r)') \in Nat
      /\ Cardinality(OpenSet(r)') <= Cardinality(OpenSet(r))
  <2>1. IsFiniteSet(OpenSet(r)) /\ Cardinality(OpenSet(r)) \in Nat
    BY OpenFinite
  <2>2. IsFiniteSet(OpenSet(r)') /\ Cardinality(OpenSet(r)') <= Cardinality(OpenSet(r))
    BY <2>1, FS_Subset
  <2>3. QED
    BY <2>1, <2>2, FS_CardinalityType
<1>2. CASE Pending(r)' \in SUBSET Pending(r)
  <2>1. Cardinality(Pending(r)') <= Cardinality(Pending(r))
    BY <1>2, PendingFinite, FS_Subset
  <2>2. Cardinality(OpenSet(r)) + Cardinality(Pending(r)) <= Cardinality(Replicas)
    BY DEF Room
  <2>3. QED
    BY <1>1, <2>1, <2>2, PendingFinite, PendingFinitePrimed
<1>3. CASE OpenSet(r) = {}
  <2>1. Cardinality(OpenSet(r)) = 0
    BY <1>3, FS_EmptySet
  <2>2. QED
    BY <1>1, <2>1, PendingFinite, PendingFinitePrimed
<1>4. QED
  BY <1>2, <1>3

LEMMA PendingShrinks ==
    ASSUME NEW p \in Replicas, NEW j, job \in [Replicas -> Job],
           job' = [job EXCEPT ![p] = j], j.todo \in SUBSET job[p].todo
    PROVE  \A r \in Reasons : Pending(r)' \in SUBSET Pending(r)
  BY DEF Pending

LEMMA RoomCreate ==
    ASSUME KeyInv, Room, NEW p \in Replicas, NEW r \in Reasons, Create(p, r)
    PROVE  Room'
<1> SUFFICES ASSUME scanner \in Probing, NEW q \in Reasons
             PROVE  Cardinality(OpenSet(q)') + Cardinality(Pending(q)') <= Cardinality(Replicas)
  BY DEF Room, Create
<1>1. job \in [Replicas -> Job] /\ TypeOK /\ job[p].todo \ {r} \in SUBSET Reasons
  BY DEF KeyInv, TypeOK, Job
<1>2. PICK j : job' = [job EXCEPT ![p] = j] /\ j.todo = job[p].todo \ {r}
  <2>1. CASE scanner = "emergency"
    <3>1. [job[p] EXCEPT !.pc = "start", !.todo = job[p].todo \ {r}, !.reason = r,
                         !.order = Len(orders[r]) + 1].todo = job[p].todo \ {r}
      BY <1>1 DEF Job
    <3>2. QED
      BY <2>1, <3>1 DEF Create
  <2>2. CASE scanner # "emergency"
    BY <1>1, <2>2, LoopShape DEF Create, SkipReason
  <2>3. QED
    BY <2>1, <2>2
<1>3. /\ \A x \in Reasons : x # r => orders'[x] = orders[x]
      /\ orders'[r] = Append(orders[r], "submitted")
      /\ Len(orders[r]) \in Nat
  <2>1. Add(r) /\ Len(orders[r]) < MaxOrders
    BY DEF Create
  <2>2. QED
    BY <1>1, <2>1, AddShape
<1>4. Cardinality(OpenSet(q)) + Cardinality(Pending(q)) <= Cardinality(Replicas)
  BY DEF Room
<1>5. CASE q = r
  <2>1. Pending(q)' = Pending(q) \ {p} /\ p \in Pending(q)
    BY <1>1, <1>2, <1>5 DEF Pending, Create
  <2>2. Cardinality(Pending(q)') = Cardinality(Pending(q)) - 1
    BY <2>1, PendingFinite, FS_RemoveElement
  <2>3. OpenSet(q)' \in SUBSET (OpenSet(q) \cup {Len(orders[r]) + 1})
    <3>1. orders[r] \in Seq(Status)
      BY <1>1 DEF TypeOK
    <3>2. /\ DOMAIN orders'[r] = 1 .. (Len(orders[r]) + 1)
          /\ \A i \in 1 .. Len(orders[r]) : orders'[r][i] = orders[r][i]
          /\ DOMAIN orders[r] = 1 .. Len(orders[r])
      BY <1>3, <3>1
    <3>3. QED
      BY <1>3, <1>5, <3>2 DEF OpenSet
  <2>4. /\ IsFiniteSet(OpenSet(q) \cup {Len(orders[r]) + 1})
        /\ Cardinality(OpenSet(q) \cup {Len(orders[r]) + 1}) <= Cardinality(OpenSet(q)) + 1
    <3>1. IsFiniteSet(OpenSet(q)) /\ Cardinality(OpenSet(q)) \in Nat
      BY <1>1, OpenFinite
    <3>2. DEFINE S == OpenSet(q)
                 e == Len(orders[r]) + 1
    <3>3. IsFiniteSet(S) /\ Cardinality(S) \in Nat
      BY <3>1
    <3>4. HIDE DEF S, e
    <3>5. /\ IsFiniteSet(S \cup {e})
          /\ \/ Cardinality(S \cup {e}) = Cardinality(S)
             \/ Cardinality(S \cup {e}) = Cardinality(S) + 1
      BY <3>3, FS_AddElement
    <3>6. IsFiniteSet(S \cup {e}) /\ Cardinality(S \cup {e}) <= Cardinality(S) + 1
      BY <3>3, <3>5
    <3>7. QED
      BY <3>6 DEF S, e
  <2>5. Cardinality(OpenSet(q)') <= Cardinality(OpenSet(q) \cup {Len(orders[r]) + 1})
        /\ Cardinality(OpenSet(q)') \in Nat
        /\ Cardinality(OpenSet(q) \cup {Len(orders[r]) + 1}) \in Nat
    BY <2>3, <2>4, FS_Subset, FS_CardinalityType
  <2>6. Cardinality(OpenSet(q)) \in Nat
    BY <1>1, OpenFinite
  <2>7. QED
    BY <1>4, <2>2, <2>4, <2>5, <2>6, PendingFinite
<1>6. CASE q # r
  <2>1. OpenSet(q)' = OpenSet(q)
    BY <1>3, <1>6 DEF OpenSet
  <2>2. Pending(q)' = Pending(q)
    BY <1>1, <1>2, <1>6 DEF Pending
  <2>3. QED
    BY <1>4, <2>1, <2>2
<1>7. QED
  BY <1>5, <1>6

LEMMA RoomNext == KeyInv /\ Room /\ [Next]_vars => Room'
<1> SUFFICES ASSUME KeyInv, Room, [Next]_vars PROVE Room'
  OBVIOUS
<1> USE DEF vars
<1>0. /\ TypeOK /\ JobFits
      /\ job \in [Replicas -> Job]
      /\ \A p \in Replicas : job[p].todo \in SUBSET Reasons
      /\ scanner \in Keyed => scanner \notin Probing
  BY DEF KeyInv, TypeOK, Job, Keyed, Probing
<1>00. \A r \in Reasons : OpenOrders(r) = OpenSet(r)
  BY DEF OpenOrders, OpenSet, IsOpen
<1>1. ASSUME NEW p \in Replicas, Tick(p) PROVE Room'
  <2>1. \A r \in Reasons : OpenSet(r)' \in SUBSET OpenSet(r)
    BY <1>1 DEF Tick, OpenSet
  <2>2. ASSUME scanner \in Probing, NEW r \in Reasons
        PROVE  Pending(r)' \in SUBSET Pending(r) \/ OpenSet(r) = {}
    <3>1. Listed \in SUBSET Reasons /\ (r \in Listed => OpenSet(r) = {})
      BY <1>0, <1>00, <2>2 DEF Listed, Candidates, Probing, TypeOK
    <3>2. job' = [job EXCEPT ![p] = Loop(Listed)] /\ Loop(Listed).todo = Listed
      BY <1>1, <3>1, LoopShape DEF Tick
    <3>3. QED
      BY <1>0, <3>1, <3>2 DEF Pending
  <2>3. QED
    BY <1>0, <1>1, <2>1, <2>2, RoomStays DEF Tick
<1>2. ASSUME NEW p \in Replicas, NEW r \in Reasons, HandleEvent(p, r) PROVE Room'
  <2>1. \A q \in Reasons : OpenSet(q)' \in SUBSET OpenSet(q)
    BY <1>2 DEF HandleEvent, OpenSet
  <2>2. ASSUME NEW q \in Reasons
        PROVE  Pending(q)' \in SUBSET Pending(q) \/ OpenSet(q) = {}
    <3>1. {r} \in SUBSET Reasons /\ (q \in {r} => OpenSet(q) = {})
      BY <1>00, <1>2 DEF HandleEvent
    <3>2. job' = [job EXCEPT ![p] = Loop({r})] /\ Loop({r}).todo = {r}
      BY <1>2, <3>1, LoopShape DEF HandleEvent
    <3>3. QED
      BY <1>0, <3>1, <3>2 DEF Pending
  <2>3. QED
    BY <1>0, <1>2, <2>1, <2>2, RoomStays DEF HandleEvent
<1>3. ASSUME NEW p \in Replicas, NEW r \in Reasons, Create(p, r) PROVE Room'
  BY <1>3, RoomCreate
<1>4. ASSUME NEW p \in Replicas, NEW todo \in SUBSET job[p].todo,
             job' = [job EXCEPT ![p] = Loop(todo)], UNCHANGED <<scanner, orders>>
      PROVE  Room'
  <2>1. Loop(todo).todo \in SUBSET job[p].todo
    BY <1>0, <1>4, LoopShape
  <2>2. \A r \in Reasons : Pending(r)' \in SUBSET Pending(r)
    BY <1>0, <1>4, <2>1, PendingShrinks
  <2>3. \A r \in Reasons : OpenSet(r)' \in SUBSET OpenSet(r)
    BY <1>4 DEF OpenSet
  <2>4. QED
    BY <1>0, <1>4, <2>2, <2>3, RoomStays
<1>5. ASSUME NEW p \in Replicas, NEW r \in Reasons, SkipAtBound(p, r) PROVE Room'
  <2>1. job[p].todo \ {r} \in SUBSET job[p].todo
    OBVIOUS
  <2>2. QED
    BY <1>4, <1>5, <2>1 DEF SkipAtBound, SkipReason
<1>6. ASSUME NEW p \in Replicas,
             InsertDedup(p) \/ Commit(p) \/ \E r \in Reasons : CreateTx(p, r)
      PROVE  Room'
  <2>1. scanner \in Keyed /\ scanner' = scanner
    BY <1>0, <1>6 DEF JobFits, At, InsertDedup, Commit, CreateTx
  <2>2. QED
    BY <1>0, <2>1 DEF Room
<1>7. ASSUME NEW p \in Replicas, TransitionEmergencyAtomic(p) PROVE Room'
  <2>1. \A r \in Reasons : OpenSet(r)' \in SUBSET OpenSet(r)
    BY <1>0, <1>7, TransitionShape DEF OpenSet
  <2>2. Loop(job[p].todo).todo = job[p].todo
    BY <1>0, LoopShape
  <2>3. \A r \in Reasons : Pending(r)' \in SUBSET Pending(r)
    BY <1>0, <1>7, <2>2, PendingShrinks DEF TransitionEmergencyAtomic, Resume
  <2>4. QED
    BY <1>0, <1>7, <2>1, <2>3, RoomStays DEF TransitionEmergencyAtomic
<1>8. ASSUME NEW p \in Replicas, LogAndGoOn(p) PROVE Room'
  <2>1. PICK todo \in SUBSET job[p].todo : job' = [job EXCEPT ![p] = Loop(todo)]
    BY <1>8 DEF LogAndGoOn, SkipReason, Resume
  <2>2. QED
    BY <1>4, <1>8, <2>1 DEF LogAndGoOn
<1>9. ASSUME NEW p \in Replicas, Crash(p) PROVE Room'
  <2>1. {} \in SUBSET job[p].todo
    OBVIOUS
  <2>2. job' = [job EXCEPT ![p] = Loop({})] /\ UNCHANGED <<scanner, orders>>
    BY <1>9, IdleIsLoop DEF Crash
  <2>3. QED
    BY <1>4, <2>1, <2>2
<1>10. ASSUME UNCHANGED <<scanner, job>>, \A r \in Reasons : OpenSet(r)' \in SUBSET OpenSet(r)
       PROVE  Room'
  <2>1. \A r \in Reasons : Pending(r)' \in SUBSET Pending(r)
    BY <1>10 DEF Pending
  <2>2. QED
    BY <1>0, <1>10, <2>1, RoomStays
<1>11. ASSUME NEW r \in Reasons, Appear(r) \/ Clear(r) PROVE Room'
  BY <1>10, <1>11 DEF Appear, Clear, OpenSet
<1>12. ASSUME NEW r \in Reasons, NEW i \in DOMAIN orders[r], Approve(r, i) \/ End(r, i)
       PROVE  Room'
  <2>1. i \in 1 .. Len(orders[r]) /\ orders[r][i] # "ended"
    BY <1>0, <1>12 DEF TypeOK, Approve, End
  <2>2. PICK s \in Status : orders' = [orders EXCEPT ![r][i] = s]
    BY <1>12 DEF Approve, End, Status
  <2>3. \A q \in Reasons : OpenSet(q)' \in SUBSET OpenSet(q)
    BY <1>0, <2>1, <2>2, SetShape DEF OpenSet
  <2>4. QED
    BY <1>10, <1>12, <2>3 DEF Approve, End
<1>13. ASSUME UNCHANGED vars PROVE Room'
  BY <1>10, <1>13 DEF OpenSet
<1>14. QED
  BY <1>1, <1>2, <1>3, <1>5, <1>6, <1>7, <1>8, <1>9, <1>11, <1>12, <1>13 DEF Next, Step

\* Scans that probe first and insert later leave no more orders about one asset
\* open than there are replicas.
THEOREM OneEach == Spec => []OneOpenOrderPerReplica
<1>1. Init => Room
  <2> SUFFICES ASSUME Init, NEW r \in Reasons
               PROVE  Cardinality(OpenSet(r)) + Cardinality(Pending(r)) <= Cardinality(Replicas)
    BY DEF Room
  <2>1. OpenSet(r) = {} /\ Pending(r) = {}
    BY DEF Init, OpenSet, Pending, Idle
  <2>2. QED
    BY <2>1, FS_EmptySet, PendingFinite
<1>2. KeyInv /\ Room => OneOpenOrderPerReplica
  <2> SUFFICES ASSUME KeyInv, Room, scanner \in Probing, NEW r \in Reasons
               PROVE  Cardinality(OpenSet(r)) <= Cardinality(Replicas)
    BY DEF OneOpenOrderPerReplica, OpenSet
  <2>1. Cardinality(OpenSet(r)) \in Nat
    BY OpenFinite DEF KeyInv
  <2>2. Cardinality(OpenSet(r)) + Cardinality(Pending(r)) <= Cardinality(Replicas)
    BY DEF Room
  <2>3. QED
    BY <2>1, <2>2, PendingFinite
<1>3. QED
  BY <1>1, <1>2, KeyInvariant, RoomNext, PTL DEF Spec

------------------------------------------------------------------------------
(* Emergency orders nobody has started.                                    *)

LEMMA StrandedFinite ==
    ASSUME TypeOK, NEW r \in Reasons
    PROVE  IsFiniteSet(Stranded(r)) /\ Cardinality(Stranded(r)) \in Nat
<1>1. Len(orders[r]) \in Nat /\ Stranded(r) \in SUBSET (1 .. Len(orders[r]))
  BY DEF TypeOK, Stranded
<1>2. IsFiniteSet(1 .. Len(orders[r]))
  BY <1>1, FS_Interval
<1>3. IsFiniteSet(Stranded(r))
  BY <1>1, <1>2, FS_Subset
<1>4. QED
  BY <1>3, FS_CardinalityType

\* A step without a failure strands nothing.
LEMMA StrandsNone ==
    ASSUME TypeOK, StrandedByFailureOnly, UNCHANGED <<scanner, failures>>,
           scanner = "emergency" => \A r \in Reasons : Stranded(r)' \in SUBSET Stranded(r)
    PROVE  StrandedByFailureOnly'
<1> SUFFICES ASSUME scanner = "emergency", NEW r \in Reasons
             PROVE  Cardinality(Stranded(r)') <= failures
  BY DEF StrandedByFailureOnly
<1>1. Cardinality(Stranded(r)) <= failures /\ failures \in Nat
  BY AutoAssumption DEF StrandedByFailureOnly, TypeOK
<1>2. /\ Cardinality(Stranded(r)') <= Cardinality(Stranded(r))
      /\ Cardinality(Stranded(r)') \in Nat
      /\ Cardinality(Stranded(r)) \in Nat
  BY StrandedFinite, FS_Subset, FS_CardinalityType
<1>3. QED
  BY <1>1, <1>2

\* A failure strands the order its replica was about to start.
LEMMA StrandsOne ==
    ASSUME TypeOK, StrandedByFailureOnly, scanner' = scanner, failures' = failures + 1,
           NEW x, \A r \in Reasons : Stranded(r)' \in SUBSET (Stranded(r) \cup {x})
    PROVE  StrandedByFailureOnly'
<1> SUFFICES ASSUME scanner = "emergency", NEW r \in Reasons
             PROVE  Cardinality(Stranded(r)') <= failures + 1
  BY DEF StrandedByFailureOnly
<1>1. Cardinality(Stranded(r)) <= failures /\ failures \in Nat
  BY AutoAssumption DEF StrandedByFailureOnly, TypeOK
<1>2. Cardinality(Stranded(r)) \in Nat
  BY StrandedFinite
<1>3. /\ IsFiniteSet(Stranded(r) \cup {x})
      /\ Cardinality(Stranded(r) \cup {x}) <= Cardinality(Stranded(r)) + 1
  BY <1>2, StrandedFinite, FS_AddElement
<1>4. /\ Cardinality(Stranded(r)') <= Cardinality(Stranded(r) \cup {x})
      /\ Cardinality(Stranded(r)') \in Nat
      /\ Cardinality(Stranded(r) \cup {x}) \in Nat
  BY <1>3, FS_Subset, FS_CardinalityType
<1>5. QED
  BY <1>1, <1>2, <1>3, <1>4

LEMMA StrandedCreate ==
    ASSUME KeyInv, NEW p \in Replicas, NEW r \in Reasons, Create(p, r), scanner = "emergency",
           NEW q \in Reasons
    PROVE  Stranded(q)' \in SUBSET Stranded(q)
<1>1. TypeOK /\ job \in [Replicas -> Job]
  BY DEF KeyInv, TypeOK
<1>2. /\ \A x \in Reasons : x # r => orders'[x] = orders[x]
      /\ orders'[r] = Append(orders[r], "submitted")
      /\ Len(orders[r]) \in Nat
  <2>1. Add(r) /\ Len(orders[r]) < MaxOrders
    BY DEF Create
  <2>2. QED
    BY <1>1, <2>1, AddShape
<1>3. /\ job'[p].pc = "start" /\ job'[p].reason = r /\ job'[p].order = Len(orders[r]) + 1
      /\ job[p].pc = "create"
      /\ \A x \in Replicas : x # p => job'[x] = job[x]
  BY <1>1 DEF Create, At, Job
<1>4. CASE q = r
  <2>1. orders[r] \in Seq(Status)
    BY <1>1 DEF TypeOK
  <2>2. /\ DOMAIN orders'[r] = 1 .. (Len(orders[r]) + 1)
        /\ \A i \in 1 .. Len(orders[r]) : orders'[r][i] = orders[r][i]
        /\ DOMAIN orders[r] = 1 .. Len(orders[r])
    BY <1>2, <2>1
  <2> SUFFICES ASSUME NEW i \in Stranded(r)' PROVE i \in Stranded(r)
    BY <1>4
  <2>3. i # Len(orders[r]) + 1 /\ i \in 1 .. (Len(orders[r]) + 1)
    BY <1>3, <2>2 DEF Stranded, At
  <2>4. i \in DOMAIN orders[r] /\ orders[r][i] = "submitted"
    BY <1>2, <2>2, <2>3 DEF Stranded
  <2>5. \A x \in Replicas : ~(At(x, "start") /\ job[x].reason = r /\ job[x].order = i)
    BY <1>3 DEF Stranded, At
  <2>6. QED
    BY <2>4, <2>5 DEF Stranded
<1>5. CASE q # r
  BY <1>2, <1>3, <1>5 DEF Stranded, At
<1>6. QED
  BY <1>4, <1>5

LEMMA StrandedTransition ==
    ASSUME KeyInv, NEW p \in Replicas, TransitionEmergencyAtomic(p), NEW q \in Reasons
    PROVE  Stranded(q)' \in SUBSET Stranded(q)
<1>1. /\ DOMAIN orders'[q] = DOMAIN orders[q]
      /\ \A j \in DOMAIN orders[q] : orders'[q][j] = "submitted" =>
             orders[q][j] = "submitted" /\ ~(q = job[p].reason /\ j = job[p].order)
  BY TransitionShape DEF KeyInv
<1>2. \A x \in Replicas : x # p => job'[x] = job[x]
  BY DEF TransitionEmergencyAtomic, Resume, KeyInv, TypeOK
<1>3. QED
  BY <1>1, <1>2 DEF Stranded, At

LEMMA StrandedNext == KeyInv /\ StrandedByFailureOnly /\ [Next]_vars => StrandedByFailureOnly'
<1> SUFFICES ASSUME KeyInv, StrandedByFailureOnly, [Next]_vars PROVE StrandedByFailureOnly'
  OBVIOUS
<1> USE DEF vars
<1>0. /\ TypeOK /\ JobFits
      /\ job \in [Replicas -> Job]
      /\ scanner \in Keyed => scanner # "emergency"
  BY DEF KeyInv, TypeOK, Keyed
<1>1. ASSUME NEW p \in Replicas, ~At(p, "start"), UNCHANGED orders,
             \A x \in Replicas : x # p => job'[x] = job[x],
             NEW r \in Reasons
      PROVE  Stranded(r)' \in SUBSET Stranded(r)
  BY <1>1 DEF Stranded, At
<1>2. ASSUME NEW p \in Replicas, NEW r \in Reasons,
             Tick(p) \/ HandleEvent(p, r) \/ SkipAtBound(p, r)
      PROVE  StrandedByFailureOnly'
  <2>1. /\ ~At(p, "start") /\ UNCHANGED <<scanner, orders, failures>>
        /\ \A x \in Replicas : x # p => job'[x] = job[x]
    BY <1>0, <1>2 DEF Tick, HandleEvent, SkipAtBound, SkipReason, At
  <2>2. QED
    BY <1>0, <1>1, <2>1, StrandsNone
<1>3. ASSUME NEW p \in Replicas, NEW r \in Reasons, Create(p, r) PROVE StrandedByFailureOnly'
  BY <1>0, <1>3, StrandedCreate, StrandsNone DEF Create
<1>4. ASSUME NEW p \in Replicas,
             InsertDedup(p) \/ Commit(p) \/ \E r \in Reasons : CreateTx(p, r)
      PROVE  StrandedByFailureOnly'
  <2>1. scanner \in Keyed /\ scanner' = scanner
    BY <1>0, <1>4 DEF JobFits, At, InsertDedup, Commit, CreateTx
  <2>2. QED
    BY <1>0, <2>1 DEF StrandedByFailureOnly
<1>5. ASSUME NEW p \in Replicas, TransitionEmergencyAtomic(p) PROVE StrandedByFailureOnly'
  BY <1>0, <1>5, StrandedTransition, StrandsNone DEF TransitionEmergencyAtomic
<1>6. ASSUME NEW p \in Replicas, LogAndGoOn(p) \/ Crash(p) PROVE StrandedByFailureOnly'
  <2>1. /\ UNCHANGED <<scanner, orders>> /\ failures' = failures + 1
        /\ \A x \in Replicas : x # p => job'[x] = job[x]
    BY <1>0, <1>6 DEF LogAndGoOn, Crash, Fail, SkipReason, Resume
  <2>2. \A r \in Reasons : Stranded(r)' \in SUBSET (Stranded(r) \cup {job[p].order})
    BY <2>1 DEF Stranded, At
  <2>3. QED
    BY <1>0, <2>1, <2>2, StrandsOne
<1>7. ASSUME NEW r \in Reasons, Appear(r) \/ Clear(r) PROVE StrandedByFailureOnly'
  BY <1>0, <1>7, StrandsNone DEF Appear, Clear, Stranded, At
<1>8. ASSUME NEW r \in Reasons, NEW i \in DOMAIN orders[r], Approve(r, i) \/ End(r, i)
      PROVE  StrandedByFailureOnly'
  <2>1. i \in 1 .. Len(orders[r]) /\ UNCHANGED <<scanner, job, failures>>
    BY <1>0, <1>8 DEF TypeOK, Approve, End
  <2>2. PICK s \in Status : s # "submitted" /\ orders' = [orders EXCEPT ![r][i] = s]
    BY <1>8 DEF Approve, End, Status
  <2>3. \A q \in Reasons : Stranded(q)' \in SUBSET Stranded(q)
    BY <1>0, <2>1, <2>2, SetShape DEF Stranded, At
  <2>4. QED
    BY <1>0, <2>1, <2>3, StrandsNone
<1>9. ASSUME UNCHANGED vars PROVE StrandedByFailureOnly'
  BY <1>0, <1>9, StrandsNone DEF Stranded, At
<1>10. QED
  BY <1>2, <1>3, <1>4, <1>5, <1>6, <1>7, <1>8, <1>9, AutoAssumption DEF Next, Step

\* Without a failure no emergency order is left waiting, and with failures at most
\* one for each of them.
THEOREM StrandedNeedsFailure == Spec => []StrandedByFailureOnly
<1>1. Init => StrandedByFailureOnly
  <2> SUFFICES ASSUME Init, NEW r \in Reasons
               PROVE  Cardinality(Stranded(r)) <= failures
    BY DEF StrandedByFailureOnly
  <2>1. Stranded(r) = {}
    BY DEF Init, Stranded
  <2>2. QED
    BY <2>1, FS_EmptySet DEF Init
<1>2. QED
  BY <1>1, KeyInvariant, StrandedNext, PTL DEF Spec


\* No scanner leaves more orders than its own rule allows.
THEOREM NoSurplus == Spec => []NoSurplusOrders
<1>1. OrderAndKeyTogether /\ OneOpenOrderPerReplica /\ StrandedByFailureOnly => NoSurplusOrders
  BY DEF NoSurplusOrders
<1>2. QED
  BY <1>1, OneOrderPerKey, OneEach, StrandedNeedsFailure, PTL

------------------------------------------------------------------------------
(***************************************************************************)
(* The quality scores, for any assets, flags, profiles and scans, and any  *)
(* lookback.                                                               *)
(*                                                                         *)
(* QualityInv says of a scan that has not counted that it has seen every   *)
(* flag that is untriaged, and of one that has, that each asset with a     *)
(* count has a flag which was seen (SeesFlags), and of a score that it     *)
(* lost no more than the cap, and only to such flags (ScoreOK). That an    *)
(* asset on the list of low scores misses at most one day rests on a       *)
(* count: the scores listed are of L days apart, and a window of L times   *)
(* the length of a day touches at most L + 1 days.                         *)
(***************************************************************************)

Flag == [asset : Subjects, status : {"open", "acknowledged", "resolved", "rejected"}, created : Nat]
ReadScan == [at : {"read"}, assets : [Subjects -> Profiles], left : SUBSET Subjects, seen : SUBSET FlagIds]
CountedScan == [at : {"counted"}, assets : [Subjects -> Profiles], left : SUBSET Subjects, seen : SUBSET FlagIds,
                counts : [Subjects -> Nat]]

\* The shape of what a property reads.
QualityTypeOK ==
    /\ profile \in [Subjects -> Profiles]
    /\ Reported \subseteq FlagIds /\ IsFiniteSet(Reported) /\ flags \in [Reported -> Flag]
    /\ run \in [ScanRuns -> ReadScan \cup CountedScan \cup {NoRun}]
    /\ hour \in Nat

\* A scan that has not counted knows every untriaged flag; one that has, a flag for each count.
SeesFlags(q) ==
    /\ run[q].at # "none" => run[q].seen \subseteq Reported
    /\ run[q].at = "read" => \A f \in Reported : Untriaged(f) => f \in run[q].seen
    /\ run[q].at = "counted" =>
          \A a \in Subjects : run[q].counts[a] # 0 => \E f \in run[q].seen : flags[f].asset = a

\* A score was written at some time, and lost no more than the flags' penalty.
ScoreOK(s) ==
    /\ s.at \in 0..hour
    /\ s.accuracy < s.base => s.seen /\ s.base - s.accuracy <= totalFlagPenaltyCap

QualityInv ==
    /\ QualityTypeOK
    /\ \A q \in ScanRuns : SeesFlags(q)
    /\ \A s \in scores : ScoreOK(s)

\* The kinds of scan are apart.
LEMMA ScanKinds ==
    ASSUME NEW w \in ReadScan \cup CountedScan \cup {NoRun}
    PROVE  /\ w.at = "read" => w \in ReadScan
           /\ w.at = "counted" => w \in CountedScan
           /\ w.at # "none" => w.seen \subseteq FlagIds
           /\ w.at \in {"none", "read", "counted"}
           /\ NoRun.at = "none"
  BY DEF ReadScan, CountedScan, NoRun

\* Without reports the penalty is nothing, and it is never above the cap.
LEMMA Penalty ==
    ASSUME NEW n \in Nat
    PROVE  flagPenaltyFor(n) \in 0..totalFlagPenaltyCap /\ (n = 0 => flagPenaltyFor(n) = 0)
  BY DEF flagPenaltyFor, totalFlagPenaltyCap, flagPenaltyDefault

\* A scan that starts has seen the flags that are untriaged.
LEMMA ListScan ==
    ASSUME QualityInv, NEW q \in ScanRuns, ListAssetsForScan(q)
    PROVE  QualityInv'
<1> DEFINE w == [at |-> "read", assets |-> profile, left |-> Subjects, seen |-> {f \in Reported : Untriaged(f)}]
<1>1. /\ run' = [run EXCEPT ![q] = w] /\ UNCHANGED <<profile, flags, scores, hour>>
  BY DEF ListAssetsForScan
<1>2. QualityTypeOK
  BY DEF QualityInv
<1>3. /\ w \in ReadScan /\ w.at = "read" /\ w.seen = {f \in Reported : Untriaged(f)}
  BY <1>2 DEF QualityTypeOK, ReadScan
<1> HIDE DEF w
<1>4. /\ run' \in [ScanRuns -> ReadScan \cup CountedScan \cup {NoRun}]
      /\ run'[q] = w /\ \A x \in ScanRuns \ {q} : run'[x] = run[x]
  BY <1>1, <1>2, <1>3 DEF QualityTypeOK
<1>5. QualityTypeOK'
  BY <1>1, <1>2, <1>4 DEF QualityTypeOK, Reported
<1>6. \A x \in ScanRuns : SeesFlags(x)'
  BY <1>1, <1>3, <1>4 DEF SeesFlags, QualityInv, Reported, Untriaged
<1>7. \A s \in scores' : ScoreOK(s)'
  BY <1>1 DEF QualityInv, ScoreOK
<1>8. QED
  BY <1>5, <1>6, <1>7 DEF QualityInv

\* A count above zero counts a flag the scan has seen.
LEMMA CountScan ==
    ASSUME QualityInv, NEW q \in ScanRuns, NEW fails \in BOOLEAN, CountFlags(q, fails)
    PROVE  QualityInv'
<1> DEFINE c == [a \in Subjects |-> IF fails THEN 0 ELSE CountRecentFlagsByAsset(a)]
           w == [at |-> "counted", assets |-> run[q].assets, left |-> run[q].left, seen |-> run[q].seen, counts |-> c]
<1>1. QualityTypeOK /\ run[q].at = "read" /\ SeesFlags(q)
  BY DEF QualityInv, CountFlags
<1>2. run' = [run EXCEPT ![q] = w] /\ UNCHANGED <<profile, flags, scores, hour>>
  BY <1>1 DEF CountFlags, QualityTypeOK
<1>3. ASSUME NEW a \in Subjects
      PROVE  /\ c[a] \in Nat
             /\ c[a] # 0 => \E f \in run[q].seen : flags[f].asset = a
  <2> DEFINE S == {f \in Reported : flags[f].asset = a /\ Untriaged(f) /\ flags[f].created > hour - DayLength}
  <2>1. IsFiniteSet(S)
    BY <1>1, FS_Subset DEF QualityTypeOK
  <2>2. Cardinality(S) \in Nat /\ (Cardinality(S) # 0 => S # {})
    BY <2>1, FS_CardinalityType, FS_EmptySet
  <2>3. c[a] = IF fails THEN 0 ELSE Cardinality(S)
    BY DEF CountRecentFlagsByAsset
  <2>4. S # {} => \E f \in run[q].seen : flags[f].asset = a
    BY <1>1 DEF SeesFlags
  <2> HIDE DEF S, c
  <2>5. QED
    BY <2>2, <2>3, <2>4
<1>4. c \in [Subjects -> Nat]
  <2>1. \A a \in Subjects : (IF fails THEN 0 ELSE CountRecentFlagsByAsset(a)) \in Nat
    BY <1>3
  <2>2. QED
    BY <2>1
<1> HIDE DEF c
<1>5. run[q] \in ReadScan
  BY <1>1, ScanKinds DEF QualityTypeOK
<1>6. w \in CountedScan /\ w.at = "counted" /\ w.counts = c /\ w.seen = run[q].seen
  BY <1>4, <1>5 DEF ReadScan, CountedScan
<1> HIDE DEF w
<1>7. /\ run' \in [ScanRuns -> ReadScan \cup CountedScan \cup {NoRun}]
      /\ run'[q] = w /\ \A x \in ScanRuns \ {q} : run'[x] = run[x]
  BY <1>1, <1>2, <1>6 DEF QualityTypeOK
<1>8. QualityTypeOK'
  BY <1>1, <1>2, <1>7 DEF QualityTypeOK, Reported
<1>9. SeesFlags(q)'
  BY <1>1, <1>2, <1>3, <1>6, <1>7 DEF SeesFlags, Reported
<1>10. \A x \in ScanRuns \ {q} : SeesFlags(x)'
  BY <1>2, <1>7 DEF SeesFlags, QualityInv, Reported, Untriaged
<1>11. \A s \in scores' : ScoreOK(s)'
  BY <1>2 DEF QualityInv, ScoreOK
<1>12. QED
  BY <1>8, <1>9, <1>10, <1>11 DEF QualityInv

\* Accuracy is a natural number before the penalty, so what is taken off it is the penalty at most.
LEMMA ScoreScan ==
    ASSUME QualityInv, NEW q \in ScanRuns, NEW a \in Subjects, NEW unknown \in BOOLEAN, NEW fails \in BOOLEAN,
           ScoreAsset(q, a, unknown, fails)
    PROVE  QualityInv'
<1>1. /\ QualityTypeOK /\ run[q].at = "counted" /\ SeesFlags(q) /\ UNCHANGED <<profile, flags, hour>>
  BY DEF QualityInv, ScoreAsset
<1>2. run[q] \in CountedScan
  BY <1>1, ScanKinds DEF QualityTypeOK
<1> DEFINE v == [run[q] EXCEPT !.left = run[q].left \ {a}]
<1>3. PICK w : (w = NoRun \/ w = v) /\ run' = [run EXCEPT ![q] = w]
  <2>1. run \in [ScanRuns -> ReadScan \cup CountedScan \cup {NoRun}]
    BY <1>1 DEF QualityTypeOK
  <2>2. run' = [run EXCEPT ![q] = IF run[q].left = {a} THEN NoRun ELSE v]
    BY DEF ScoreAsset
  <2>3. QED
    BY <2>2
<1>4. v \in CountedScan /\ v.at = "counted" /\ v.seen = run[q].seen /\ v.counts = run[q].counts
  BY <1>2 DEF CountedScan
<1> HIDE DEF v
<1>5. /\ run' \in [ScanRuns -> ReadScan \cup CountedScan \cup {NoRun}]
      /\ run'[q] = w /\ \A x \in ScanRuns \ {q} : run'[x] = run[x]
  BY <1>1, <1>3, <1>4 DEF QualityTypeOK
<1>6. QualityTypeOK'
  BY <1>1, <1>5 DEF QualityTypeOK, Reported
<1>7. SeesFlags(q)'
  BY <1>1, <1>3, <1>4, <1>5, ScanKinds DEF SeesFlags, Reported
<1>8. \A x \in ScanRuns \ {q} : SeesFlags(x)'
  BY <1>1, <1>5 DEF SeesFlags, QualityInv, Reported, Untriaged
<1>9. ASSUME NEW s, s \in scores', s \notin scores
      PROVE  ScoreOK(s)'
  <2> DEFINE e == qualityEvaluateAsset(run[q].assets[a])
             n == run[q].counts[a]
             p == flagPenaltyFor(n)
             base == e.accuracy
             accuracy == NotBelow0(base - p)
  <2>1. /\ s.at = hour /\ s.accuracy = accuracy /\ s.base = base
        /\ s.seen = ({f \in run[q].seen : flags[f].asset = a} # {})
    BY <1>9 DEF ScoreAsset
  <2>2. base \in Nat
    BY DEF qualityEvaluateAsset, Dimension, NotBelow0
  <2>3. n \in Nat
    BY <1>2 DEF CountedScan
  <2>4. p \in 0..totalFlagPenaltyCap /\ (n = 0 => p = 0)
    BY <2>3, Penalty
  <2>5. n # 0 => {f \in run[q].seen : flags[f].asset = a} # {}
    BY <1>1 DEF SeesFlags
  <2> HIDE DEF base, p, n
  <2>6. accuracy < base => p # 0 /\ base - accuracy <= p
    BY <2>2, <2>4 DEF NotBelow0, totalFlagPenaltyCap
  <2>7. accuracy \in Nat
    BY DEF NotBelow0
  <2> HIDE DEF accuracy
  <2>8. accuracy < base => s.seen
    BY <2>1, <2>4, <2>5, <2>6
  <2>9. accuracy < base => base - accuracy <= totalFlagPenaltyCap
    BY <2>2, <2>4, <2>6, <2>7 DEF totalFlagPenaltyCap
  <2>10. hour' \in Nat /\ s.at = hour'
    BY <1>1, <2>1 DEF QualityTypeOK
  <2>11. QED
    BY <2>1, <2>8, <2>9, <2>10 DEF ScoreOK
<1>10. \A s \in scores : ScoreOK(s)'
  BY <1>1 DEF QualityInv, ScoreOK
<1>11. QED
  BY <1>6, <1>7, <1>8, <1>9, <1>10 DEF QualityInv

\* A flag is raised or settled: every scan that has not counted sees it.
LEMMA FlagScan ==
    ASSUME QualityInv, NEW f \in FlagIds, NEW status \in {"open", "acknowledged", "resolved", "rejected"},
           (\E a \in Subjects : FlagIssue(f, a) /\ status = "open") \/ ResolveQualityFlag(f, status)
    PROVE  QualityInv'
<1>1. QualityTypeOK /\ MaySee(f, status) /\ UNCHANGED <<profile, scores, hour>>
  BY DEF QualityInv, FlagIssue, ResolveQualityFlag
<1>2. /\ Reported' = Reported \cup {f} /\ flags' \in [Reported' -> Flag] /\ flags'[f].status = status
      /\ \A g \in Reported \ {f} : flags'[g] = flags[g]
      /\ f \in Reported => flags'[f].asset = flags[f].asset
  <2>1. CASE \E a \in Subjects : FlagIssue(f, a) /\ status = "open"
    <3>1. PICK a \in Subjects : FlagIssue(f, a) /\ status = "open"
      BY <2>1
    <3> DEFINE n == [asset |-> a, status |-> "open", created |-> hour]
    <3>2. /\ f \notin Reported /\ n \in Flag /\ n.status = "open"
          /\ flags' = [g \in Reported \cup {f} |-> IF g = f THEN n ELSE flags[g]]
      BY <1>1, <3>1 DEF FlagIssue, Flag, QualityTypeOK
    <3> HIDE DEF n
    <3>3. QED
      BY <1>1, <3>1, <3>2 DEF Reported, QualityTypeOK
  <2>2. CASE ResolveQualityFlag(f, status)
    <3> DEFINE n == [flags[f] EXCEPT !.status = status]
    <3>1. /\ f \in Reported /\ flags' = [flags EXCEPT ![f] = n] /\ flags[f] \in Flag
      BY <1>1, <2>2 DEF ResolveQualityFlag, QualityTypeOK
    <3>2. n \in Flag /\ n.status = status /\ n.asset = flags[f].asset
      BY <3>1 DEF Flag
    <3> HIDE DEF n
    <3>3. QED
      BY <1>1, <3>1, <3>2 DEF Reported, QualityTypeOK
  <2>3. QED
    BY <2>1, <2>2
<1>3. ASSUME NEW x \in ScanRuns
      PROVE  /\ run'[x] \in ReadScan \cup CountedScan \cup {NoRun}
             /\ run'[x].at = run[x].at
             /\ run[x].at # "read" => run'[x] = run[x]
             /\ run[x].at = "read" => run'[x].seen = IF status \in {"open", "acknowledged"}
                                                     THEN run[x].seen \cup {f} ELSE run[x].seen
  <2> DEFINE v == [run[x] EXCEPT !.seen = run[x].seen \cup {f}]
  <2>1. run'[x] = IF run[x].at = "read" /\ status \in {"open", "acknowledged"} THEN v ELSE run[x]
    BY <1>1 DEF MaySee
  <2>2. run[x] \in ReadScan \cup CountedScan \cup {NoRun} /\ (run[x].at = "read" => run[x] \in ReadScan)
    BY <1>1, ScanKinds DEF QualityTypeOK
  <2>3. run[x].at = "read" => v \in ReadScan /\ v.at = "read" /\ v.seen = run[x].seen \cup {f}
    BY <2>2 DEF ReadScan
  <2> HIDE DEF v
  <2>4. QED
    BY <2>1, <2>2, <2>3
<1>4. QualityTypeOK'
  <2>1. IsFiniteSet(Reported') /\ Reported' \subseteq FlagIds
    BY <1>1, <1>2, FS_AddElement DEF QualityTypeOK
  <2>2. run' \in [ScanRuns -> ReadScan \cup CountedScan \cup {NoRun}]
    BY <1>1, <1>3 DEF MaySee
  <2>3. QED
    BY <1>1, <1>2, <2>1, <2>2 DEF QualityTypeOK
<1>5. ASSUME NEW x \in ScanRuns
      PROVE  SeesFlags(x)'
  <2>1. SeesFlags(x) /\ run[x].at \in {"none", "read", "counted"}
    BY <1>1, ScanKinds DEF QualityInv, QualityTypeOK
  <2>2. CASE run[x].at = "read"
    <3>1. \A g \in Reported' : Untriaged(g)' => g \in run'[x].seen
      <4>1. SUFFICES ASSUME NEW g \in Reported', flags'[g].status \in {"open", "acknowledged"}
                     PROVE  g \in run'[x].seen
        BY DEF Untriaged
      <4>2. CASE g = f
        BY <1>2, <1>3, <2>2, <4>1, <4>2
      <4>3. CASE g # f
        <5>1. g \in Reported /\ flags'[g] = flags[g]
          BY <1>2, <4>1, <4>3
        <5>2. g \in run[x].seen
          BY <2>1, <2>2, <4>1, <5>1 DEF SeesFlags, Untriaged
        <5>3. QED
          BY <1>3, <2>2, <5>2
      <4>4. QED
        BY <4>2, <4>3
    <3>2. QED
      BY <1>2, <1>3, <2>1, <2>2, <3>1 DEF SeesFlags
  <2>3. CASE run[x].at # "read"
    <3>1. run'[x] = run[x]
      BY <1>3, <2>3
    <3>2. \A g \in Reported : flags'[g].asset = flags[g].asset
      BY <1>2
    <3>3. QED
      BY <1>2, <2>1, <2>3, <3>1, <3>2 DEF SeesFlags
  <2>4. QED
    BY <2>2, <2>3
<1>6. \A s \in scores' : ScoreOK(s)'
  BY <1>1 DEF QualityInv, ScoreOK
<1>7. QED
  BY <1>4, <1>5, <1>6 DEF QualityInv

\* The clock, the edits and no step at all.
LEMMA QuietScan ==
    ASSUME QualityInv, UNCHANGED <<flags, scores, run>>, profile' \in [Subjects -> Profiles],
           hour' = hour \/ hour' = hour + 1
    PROVE  QualityInv'
<1>1. QualityTypeOK' /\ hour \in Nat
  BY DEF QualityInv, QualityTypeOK, Reported
<1>2. \A q \in ScanRuns : SeesFlags(q)'
  BY DEF QualityInv, SeesFlags, Reported, Untriaged
<1>3. \A s \in scores' : ScoreOK(s)'
  BY <1>1 DEF QualityInv, ScoreOK
<1>4. QED
  BY <1>1, <1>2, <1>3 DEF QualityInv

\* The invariant that fairness of the scores rests on.
LEMMA QualityInvariant == QualitySpec => []QualityInv
<1>1. ASSUME QualityInit
      PROVE  QualityInv
  <2>1. Reported = {} /\ scores = {} /\ \A q \in ScanRuns : run[q] = NoRun
    BY <1>1 DEF QualityInit, Reported
  <2>2. QualityTypeOK
    BY <1>1, <2>1, FS_EmptySet DEF QualityInit, QualityTypeOK, Reported
  <2>3. QED
    BY <2>1, <2>2 DEF QualityInv, SeesFlags, NoRun
<1>2. ASSUME QualityInv, [QualityNext]_qualityVars
      PROVE  QualityInv'
  <2>1. profile \in [Subjects -> Profiles]
    BY <1>2 DEF QualityInv, QualityTypeOK
  <2>2. CASE \E q \in ScanRuns : ListAssetsForScan(q)
    BY <1>2, <2>2, ListScan
  <2>3. CASE \E q \in ScanRuns, fails \in BOOLEAN : CountFlags(q, fails)
    BY <1>2, <2>3, CountScan
  <2>4. CASE \E q \in ScanRuns, a \in Subjects, unknown, fails \in BOOLEAN : ScoreAsset(q, a, unknown, fails)
    BY <1>2, <2>4, ScoreScan
  <2>5. CASE \E f \in FlagIds, a \in Subjects : FlagIssue(f, a)
    BY <1>2, <2>5, FlagScan
  <2>6. CASE \E f \in FlagIds, status \in {"open", "acknowledged", "resolved", "rejected"} : ResolveQualityFlag(f, status)
    BY <1>2, <2>6, FlagScan
  <2>7. CASE \/ \E a \in Subjects, p \in Profiles : EditProfile(a, p)
             \/ HourPasses \/ UNCHANGED qualityVars
    <3>1. /\ UNCHANGED <<flags, scores, run>> /\ profile' \in [Subjects -> Profiles]
          /\ hour' = hour \/ hour' = hour + 1
      BY <2>1, <2>7 DEF EditProfile, HourPasses, qualityVars
    <3>2. QED
      BY <1>2, <3>1, QuietScan
  <2>8. QED
    BY <1>2, <2>2, <2>3, <2>4, <2>5, <2>6, <2>7 DEF QualityNext
<1>3. QED
  BY <1>1, <1>2, PTL DEF QualitySpec

\* The day a tick falls on.
LEMMA DayBounds ==
    ASSUME NEW h \in Int
    PROVE  /\ DayOf(h) \in Int /\ DayLength \in Nat \ {0}
           /\ DayOf(h) * DayLength <= h /\ h < DayOf(h) * DayLength + DayLength
  BY QualityAssumption DEF DayOf

\* Multiples keep their order.
LEMMA Product ==
    ASSUME NEW m \in Int, NEW n \in Int, NEW k \in Nat, m <= n
    PROVE  m * k <= n * k
  OBVIOUS

\* As many days as the list looks back touch one day more at the most.
LEMMA DaysOfWindow ==
    ASSUME NEW T \in Nat, NEW h \in 0..T, h > T - LowQualityLookbackDays * DayLength
    PROVE  DayOf(h) \in (DayOf(T) - LowQualityLookbackDays)..DayOf(T)
<1> DEFINE D == DayLength
           L == LowQualityLookbackDays
           d == DayOf(h)
           t == DayOf(T)
<1>1. D \in Nat \ {0} /\ L \in Nat
  BY QualityAssumption
<1>2. d \in Int /\ d * D <= h /\ h < d * D + D /\ t \in Int /\ t * D <= T /\ T < t * D + D
  BY DayBounds
<1> HIDE DEF D, L, d, t
<1>3. (d + 1) * D = d * D + D /\ (t + 1) * D = t * D + D /\ (t - L) * D = t * D - L * D
  BY <1>1, <1>2
<1>4. d <= t
  <2>1. t + 1 <= d => (t + 1) * D <= d * D
    BY <1>1, <1>2, Product
  <2>2. t * D \in Int /\ d * D \in Int /\ L * D \in Int
    BY <1>1, <1>2
  <2>3. QED
    BY <1>1, <1>2, <1>3, <2>1, <2>2
<1>5. t - L <= d
  <2>1. d + 1 <= t - L => (d + 1) * D <= (t - L) * D
    BY <1>1, <1>2, Product
  <2>2. t * D \in Int /\ d * D \in Int /\ L * D \in Int
    BY <1>1, <1>2
  <2>3. h > T - L * D
    BY DEF L, D
  <2>4. QED
    BY <1>1, <1>2, <1>3, <2>1, <2>2, <2>3
<1>6. QED
  BY <1>1, <1>2, <1>4, <1>5 DEF d, t, L

\* Penalties come of flags that were untriaged while the scan ran, and the days of the list were scored low but one.
THEOREM FairScores == QualitySpec => []ScoresAreFair
<1>1. ASSUME QualityInv
      PROVE  ScoresAreFair
  <2>1. ScoresDropForLiveFlags
    BY <1>1 DEF QualityInv, ScoreOK, ScoresDropForLiveFlags
  <2>2. ASSUME NEW a \in AssetsLowQualityPersistent
        PROVE  /\ \A s \in scores : s.asset = a /\ DayOf(s.at) \in WholeDays => s.total < lowQualityThreshold
               /\ Cardinality(Unscored(a)) <= 1
    <3> DEFINE L == LowQualityLookbackDays
               t == DayOf(hour)
               Days == (t - L)..t
               Scored == {DayOf(s.at) : s \in Window(a)}
               Open == Unscored(a)
    <3>1. /\ hour \in Nat /\ L \in Nat /\ t \in Int /\ \A s \in scores : s.at \in 0..hour
      BY <1>1, QualityAssumption, DayBounds DEF QualityInv, QualityTypeOK, ScoreOK
    <3>2. Cardinality(Scored) >= L /\ \A s \in Window(a) : s.total < lowQualityThreshold
      BY <2>2 DEF AssetsLowQualityPersistent
    <3>3. ASSUME NEW s \in scores, s.asset = a, DayOf(s.at) \in WholeDays
          PROVE  s \in Window(a)
      <4>1. s.at \in Int /\ DayOf(s.at) * DayLength <= s.at /\ DayOf(s.at) \in Int /\ DayLength \in Nat
        BY <3>1, DayBounds
      <4>2. DayOf(s.at) * DayLength > hour - L * DayLength
        BY <3>3 DEF WholeDays
      <4>3. DayOf(s.at) * DayLength \in Int /\ L * DayLength \in Int
        BY <3>1, <4>1
      <4>4. s.at > hour - L * DayLength
        BY <3>1, <4>1, <4>2, <4>3
      <4>5. QED
        BY <3>3, <4>4 DEF Window
    <3>4. Scored \subseteq Days
      BY <3>1, DaysOfWindow DEF Window
    <3>5. Open \subseteq Days
      <4>1. SUFFICES ASSUME NEW d \in WholeDays
                     PROVE  d \in Days
        BY DEF Unscored
      <4>2. d \in Int /\ d <= t /\ d * DayLength > hour - L * DayLength
        BY <3>1 DEF WholeDays
      <4>3. DayLength \in Nat \ {0} /\ hour < t * DayLength + DayLength /\ t * DayLength <= hour
        BY <3>1, DayBounds
      <4>4. d + 1 <= t - L => (d + 1) * DayLength <= (t - L) * DayLength
        BY <3>1, <4>2, <4>3, Product
      <4> HIDE DEF t, L
      <4>5. (d + 1) * DayLength = d * DayLength + DayLength /\ (t - L) * DayLength = t * DayLength - L * DayLength
        BY <3>1, <4>2, <4>3
      <4>6. t * DayLength \in Int /\ d * DayLength \in Int /\ L * DayLength \in Int
        BY <3>1, <4>2, <4>3
      <4>7. t - L <= d
        BY <3>1, <4>2, <4>3, <4>4, <4>5, <4>6
      <4>8. QED
        BY <3>1, <4>2, <4>7
    <3>6. Scored \cap Open = {}
      BY DEF Unscored, Window
    <3>7. IsFiniteSet(Days) /\ Cardinality(Days) = L + 1
      <4>1. t - L \in Int /\ t \in Int /\ ~(t - L > t)
        BY <3>1
      <4>2. IsFiniteSet(Days) /\ Cardinality(Days) = IF t - L > t THEN 0 ELSE t - (t - L) + 1
        BY <4>1, FS_Interval
      <4>3. QED
        BY <3>1, <4>1, <4>2
    <3> HIDE DEF Days, Scored, Open
    <3>8. IsFiniteSet(Scored) /\ IsFiniteSet(Open) /\ Scored \cup Open \subseteq Days
      BY <3>4, <3>5, <3>7, FS_Subset
    <3>9. Cardinality(Scored \cup Open) = Cardinality(Scored) + Cardinality(Open)
      <4>1. Cardinality(Scored \cup Open) = Cardinality(Scored) + Cardinality(Open) - Cardinality(Scored \cap Open)
        BY <3>8, FS_Union
      <4>2. Cardinality(Scored) \in Nat /\ Cardinality(Open) \in Nat /\ Cardinality(Scored \cap Open) = 0
        BY <3>6, <3>8, FS_CardinalityType, FS_EmptySet
      <4>3. QED
        BY <4>1, <4>2
    <3>10. Cardinality(Scored \cup Open) <= L + 1
      BY <3>7, <3>8, FS_Subset
    <3>11. Cardinality(Scored) \in Nat /\ Cardinality(Open) \in Nat
      BY <3>8, FS_CardinalityType
    <3>12. Cardinality(Open) <= 1
      BY <3>1, <3>2, <3>9, <3>10, <3>11
    <3>13. QED
      BY <3>2, <3>3, <3>12 DEF Open
  <2>3. QED
    BY <2>1, <2>2 DEF ScoresAreFair, AtMostOneDayUnscored
<1>2. QED
  BY <1>1, QualityInvariant, PTL
==============================================================================
