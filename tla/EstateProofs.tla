---------------------------- MODULE EstateProofs -----------------------------
(***************************************************************************)
(* Proofs about the estate and what is shown of it: the dashboard's        *)
(* cache, the impact levels, racks, services, locations, dependencies and  *)
(* past states of its assets. The parts share no state: each theorem is    *)
(* about the specification of its own part.                                *)
(***************************************************************************)
EXTENDS DashboardCache, BusinessImpact, RackSlots, ServiceRegistry, Locations, Dependencies,
        AssetSnapshots, FiniteSetTheorems, TLAPS

------------------------------------------------------------------------------
(***************************************************************************)
(* Proofs about DashboardCache: its types, and the bound on the age of     *)
(* what the cache answers, for any number of tenants, requests, fields and *)
(* changes, and any TTL.                                                   *)
(***************************************************************************)

\* The current value of a field has not been replaced.
CurrentIsNew ==
    \A t \in Tenants, f \in Stat, v \in Value : v >= truth[t][f] => replaced[t][f][v] = 0

\* What a request has counted so far was true when it began or later.
CountedIsRecent ==
    \A r \in Readers : Computing(r) =>
        \A i \in 1 .. reader[r].at : Fields[i] \notin reader[r].bad =>
            replaced[reader[r].tenant][Fields[i]][reader[r].val[Fields[i]]] <= reader[r].age

\* An entry grows old as its TTL runs out.
EntryAges ==
    \A t \in Tenants, f \in Stat :
        cache[t].left > 0 /\ f \notin cache[t].bad =>
            replaced[t][f][cache[t].val[f]] + cache[t].left <= statsCacheTTL + MaxCompute

AgeInv == TypeOK /\ CurrentIsNew /\ CountedIsRecent /\ EntryAges

------------------------------------------------------------------------------
LEMMA Constants ==
    /\ MaxChanges \in Nat /\ MaxFailures \in Nat /\ MaxCompute \in Nat
    /\ statsCacheTTL \in Nat \ {0}
    /\ Bound \in Nat /\ Bound > 0
    /\ 0 \in Value
    /\ Fields \in Seq(STRING) /\ Len(Fields) \in Nat
    /\ \A i \in 1 .. Len(Fields) : Fields[i] \in Stat
    /\ NoTenant \notin Tenants
<1>1. /\ MaxChanges \in Nat /\ MaxFailures \in Nat /\ MaxCompute \in Nat
      /\ statsCacheTTL \in Nat \ {0}
      /\ Fields \in Seq(STRING)
      /\ NoTenant \notin Tenants
  BY DashboardAssumption
<1>2. Bound \in Nat /\ Bound > 0
  BY <1>1 DEF Bound
<1>3. 0 \in Value
  BY <1>1 DEF Value
<1>4. Len(Fields) \in Nat /\ DOMAIN Fields = 1 .. Len(Fields)
  BY <1>1
<1>5. \A i \in 1 .. Len(Fields) : Fields[i] \in Stat
  BY <1>4 DEF Stat
<1>. QED BY <1>1, <1>2, <1>3, <1>4, <1>5

LEMMA IdleType == Idle \in Reader /\ NoEntry \in [val : [Stat -> Value], bad : SUBSET Soft, left : 0 .. statsCacheTTL]
  BY Constants DEF Idle, Asked, Reader, NoEntry

LEMMA MessageType ==
    ASSUME NEW c \in Change
    PROVE  [subject |-> PublishedSubject(SubjectOf[c.field], c.tenant), tenant |-> c.tenant] \in Message
  BY DEF Change, Message

\* A request that computes has a tenant, and its queries read that tenant's numbers.
LEMMA ComputingTenant ==
    ASSUME TypeOK, NEW r \in Readers, Computing(r)
    PROVE  /\ reader[r].tenant \in Tenants
           /\ reader[r].at \in 0 .. Len(Fields)
           /\ reader[r].age \in 0 .. MaxCompute
           /\ reader[r].val \in [Stat -> Value]
           /\ reader[r].bad \subseteq Soft
  BY DEF TypeOK, Reader, Computing

LEMMA InitAge == Init => AgeInv
<1>. SUFFICES ASSUME Init PROVE AgeInv
  OBVIOUS
<1>1. TypeOK
  BY Constants, IdleType DEF Init, TypeOK, Entry, Value, Bound
<1>2. CurrentIsNew
  BY DEF Init, CurrentIsNew
<1>3. CountedIsRecent
  BY DEF Init, CountedIsRecent, Computing, Idle, Asked
<1>4. EntryAges
  BY DEF Init, EntryAges, NoEntry
<1>. QED BY <1>1, <1>2, <1>3, <1>4 DEF AgeInv

------------------------------------------------------------------------------
(* The steps of a request.                                                 *)

LEMMA MissStep ==
    ASSUME AgeInv, NEW r \in Readers, NEW t \in Tenants, Miss(r, t)
    PROVE  AgeInv'
<1>. USE DEF AgeInv
<1>. DEFINE new == Asked(t)
<1>1. new \in Reader /\ new.at = 0
  BY Constants DEF Asked, Reader
<1>2. /\ reader' = [reader EXCEPT ![r] = new]
      /\ failures' \in 0 .. MaxFailures
      /\ UNCHANGED <<truth, replaced, cache, owed, flight>>
  BY Constants DEF Miss, MayFail, TypeOK
<1>. HIDE DEF new
<1>3. TypeOK'
  BY <1>1, <1>2 DEF TypeOK
<1>4. CurrentIsNew' /\ EntryAges'
  BY <1>2 DEF CurrentIsNew, EntryAges
<1>5. CountedIsRecent'
  <2>. SUFFICES ASSUME NEW q \in Readers, Computing(q)', NEW i \in 1 .. reader'[q].at,
                       Fields[i] \notin reader'[q].bad
                PROVE  replaced'[reader'[q].tenant][Fields[i]][reader'[q].val[Fields[i]]] <= reader'[q].age
    BY DEF CountedIsRecent, Computing
  <2>1. q # r
    BY <1>1, <1>2 DEF TypeOK
  <2>2. reader'[q] = reader[q] /\ Computing(q)
    BY <1>2, <2>1 DEF TypeOK, Computing
  <2>. QED BY <1>2, <2>2 DEF CountedIsRecent
<1>. QED BY <1>3, <1>4, <1>5

LEMMA CountStep ==
    ASSUME AgeInv, NEW r \in Readers, Count(r)
    PROVE  AgeInv'
<1>. USE DEF AgeInv
<1>. DEFINE x == reader[r]
            f == Fields[x.at + 1]
            t == x.tenant
<1>1. Computing(r) /\ x.at < Len(Fields)
  BY DEF Count
<1>2. /\ t \in Tenants /\ x.at \in 0 .. Len(Fields) /\ x.age \in 0 .. MaxCompute
      /\ x.val \in [Stat -> Value] /\ x.bad \subseteq Soft
      /\ x \in Reader
  BY <1>1, ComputingTenant DEF TypeOK
<1>3. x.at + 1 \in 1 .. Len(Fields) /\ f \in Stat
  BY <1>1, <1>2, Constants
<1>4. truth[t][f] \in Value /\ replaced[t][f][truth[t][f]] = 0
  BY <1>2, <1>3 DEF TypeOK, CurrentIsNew, Value
<1>5. UNCHANGED <<truth, replaced, cache, owed, flight>> /\ failures' \in 0 .. MaxFailures
  BY Constants DEF Count, MayFail, TypeOK
<1>6. \E val \in [Stat -> Value], bad \in SUBSET Soft :
         /\ reader' = [reader EXCEPT ![r] = Counted(x, val, bad)]
         /\ x.bad \subseteq bad
         /\ \A g \in Stat : g # f => val[g] = x.val[g]
         /\ f \in bad \/ val[f] = truth[t][f]
  <2>1. CASE reader' = [reader EXCEPT ![r] =
                  Counted(x, [x.val EXCEPT ![f] = truth[t][f]], x.bad)]
    <3>. [x.val EXCEPT ![f] = truth[t][f]] \in [Stat -> Value] /\ x.bad \in SUBSET Soft
      BY <1>2, <1>3, <1>4
    <3>. WITNESS [x.val EXCEPT ![f] = truth[t][f]] \in [Stat -> Value], x.bad \in SUBSET Soft
    <3>. QED BY <1>2, <1>3, <2>1
  <2>2. CASE f \in Soft /\ reader' = [reader EXCEPT ![r] = Counted(x, x.val, x.bad \cup {f})]
    <3>. x.val \in [Stat -> Value] /\ x.bad \cup {f} \in SUBSET Soft
      BY <1>2, <2>2
    <3>. WITNESS x.val \in [Stat -> Value], x.bad \cup {f} \in SUBSET Soft
    <3>. QED BY <1>2, <1>3, <2>2
  <2>. QED BY <2>1, <2>2 DEF Count
<1>7. PICK val \in [Stat -> Value], bad \in SUBSET Soft :
         /\ reader' = [reader EXCEPT ![r] = Counted(x, val, bad)]
         /\ x.bad \subseteq bad
         /\ \A g \in Stat : g # f => val[g] = x.val[g]
         /\ f \in bad \/ val[f] = truth[t][f]
  BY <1>6
<1>8. /\ reader'[r] \in Reader
      /\ reader'[r].tenant = t /\ reader'[r].at = x.at + 1 /\ reader'[r].age = x.age
      /\ reader'[r].val = val /\ reader'[r].bad = bad
      /\ \A q \in Readers : q # r => reader'[q] = reader[q]
  BY <1>2, <1>3, <1>7 DEF TypeOK, Reader, Counted
<1>9. TypeOK'
  BY <1>5, <1>7, <1>8 DEF TypeOK
<1>10. CurrentIsNew' /\ EntryAges'
  BY <1>5 DEF CurrentIsNew, EntryAges
<1>11. CountedIsRecent'
  <2>. SUFFICES ASSUME NEW q \in Readers, Computing(q)', NEW i \in 1 .. reader'[q].at,
                       Fields[i] \notin reader'[q].bad
                PROVE  replaced'[reader'[q].tenant][Fields[i]][reader'[q].val[Fields[i]]] <= reader'[q].age
    BY DEF CountedIsRecent, Computing
  <2>1. CASE q # r
    <3>1. reader'[q] = reader[q] /\ Computing(q)
      BY <1>8, <2>1 DEF Computing
    <3>. QED BY <1>5, <3>1 DEF CountedIsRecent
  <2>2. CASE q = r /\ Fields[i] = f
    <3>1. val[f] = truth[t][f]
      BY <1>7, <1>8, <2>2
    <3>2. replaced'[reader'[q].tenant][Fields[i]][reader'[q].val[Fields[i]]] = replaced[t][f][val[f]]
      BY <1>5, <1>8, <2>2
    <3>3. reader'[q].age \in Nat /\ reader'[q].age >= 0
      BY <1>2, <1>8, <2>2, Constants
    <3>. QED BY <1>4, <3>1, <3>2, <3>3
  <2>3. CASE q = r /\ Fields[i] # f
    <3>1. i \in 1 .. x.at /\ Fields[i] \in Stat
      BY <1>2, <1>3, <1>8, <2>3, Constants
    <3>2. Fields[i] \notin x.bad /\ val[Fields[i]] = x.val[Fields[i]]
      BY <1>7, <1>8, <2>3, <3>1
    <3>3. replaced[t][Fields[i]][x.val[Fields[i]]] <= x.age
      BY <1>1, <3>1, <3>2 DEF CountedIsRecent
    <3>. QED BY <1>5, <1>8, <2>3, <3>2, <3>3
  <2>. QED BY <2>1, <2>2, <2>3
<1>. QED BY <1>9, <1>10, <1>11

\* A request that has ended counts for nothing.
LEMMA RestStep ==
    ASSUME AgeInv, NEW r \in Readers, reader' = [reader EXCEPT ![r] = Idle],
           UNCHANGED <<truth, replaced>>
    PROVE  reader' \in [Readers -> Reader] /\ CurrentIsNew' /\ CountedIsRecent'
<1>1. reader' \in [Readers -> Reader]
  BY IdleType DEF AgeInv, TypeOK
<1>2. CurrentIsNew'
  BY DEF AgeInv, CurrentIsNew
<1>3. CountedIsRecent'
  <2>. SUFFICES ASSUME NEW q \in Readers, Computing(q)', NEW i \in 1 .. reader'[q].at,
                       Fields[i] \notin reader'[q].bad
                PROVE  replaced'[reader'[q].tenant][Fields[i]][reader'[q].val[Fields[i]]] <= reader'[q].age
    BY DEF CountedIsRecent, Computing
  <2>1. q # r
    BY DEF AgeInv, TypeOK, Computing, Idle, Asked
  <2>2. reader'[q] = reader[q] /\ Computing(q)
    BY <2>1 DEF AgeInv, TypeOK, Computing
  <2>. QED BY <2>2 DEF AgeInv, CountedIsRecent
<1>. QED BY <1>1, <1>2, <1>3

LEMMA StoreStep ==
    ASSUME AgeInv, NEW r \in Readers, Store(r)
    PROVE  AgeInv'
<1>. DEFINE x == reader[r]
            new == [val |-> x.val, bad |-> x.bad, left |-> statsCacheTTL]
<1>1. Computing(r) /\ x.at = Len(Fields)
  BY DEF Store
<1>2. /\ x.tenant \in Tenants /\ x.age \in 0 .. MaxCompute
      /\ x.val \in [Stat -> Value] /\ x.bad \subseteq Soft
  BY <1>1, ComputingTenant DEF AgeInv
<1>3. new \in Entry /\ new.val = x.val /\ new.bad = x.bad /\ new.left = statsCacheTTL
  BY <1>2, Constants DEF Entry
<1>4. /\ reader' = [reader EXCEPT ![r] = Idle]
      /\ UNCHANGED <<truth, replaced, owed, flight>>
      /\ failures' \in 0 .. MaxFailures
      /\ UNCHANGED cache \/ cache' = [cache EXCEPT ![x.tenant] = new]
  BY Constants DEF Store, MayFail, AgeInv, TypeOK
<1>. HIDE DEF new
<1>5. reader' \in [Readers -> Reader] /\ CurrentIsNew' /\ CountedIsRecent'
  BY <1>4, RestStep
<1>6. TypeOK'
  BY <1>3, <1>4, <1>5 DEF AgeInv, TypeOK
<1>7. EntryAges'
  <2>. SUFFICES ASSUME NEW t \in Tenants, NEW f \in Stat,
                       cache'[t].left > 0, f \notin cache'[t].bad
                PROVE  replaced'[t][f][cache'[t].val[f]] + cache'[t].left
                            <= statsCacheTTL + MaxCompute
    BY DEF EntryAges
  <2>1. CASE cache'[t] = cache[t]
    BY <1>4, <2>1 DEF AgeInv, EntryAges
  <2>2. CASE cache'[t] # cache[t]
    <3>1. t = x.tenant /\ cache'[t] = new
      BY <1>4, <2>2 DEF AgeInv, TypeOK
    <3>2. PICK i \in 1 .. Len(Fields) : f = Fields[i]
      BY Constants DEF Stat
    <3>3. replaced[t][f][x.val[f]] <= x.age
      BY <1>1, <1>3, <3>1, <3>2 DEF AgeInv, CountedIsRecent
    <3>4. replaced[t][f][x.val[f]] \in Nat
      BY <1>2, Constants DEF AgeInv, TypeOK
    <3>5. cache'[t].val = x.val /\ cache'[t].left = statsCacheTTL /\ replaced' = replaced
      BY <1>3, <1>4, <3>1
    <3>6. replaced'[t][f][cache'[t].val[f]] = replaced[t][f][x.val[f]]
      BY <3>5
    <3>. QED BY <1>2, <3>3, <3>4, <3>5, <3>6, Constants
  <2>. QED BY <2>1, <2>2
<1>. QED BY <1>5, <1>6, <1>7 DEF AgeInv

LEMMA AbandonStep ==
    ASSUME AgeInv, NEW r \in Readers, Abandon(r)
    PROVE  AgeInv'
<1>1. /\ reader' = [reader EXCEPT ![r] = Idle]
      /\ UNCHANGED <<truth, replaced, cache, owed, flight>>
      /\ failures' \in 0 .. MaxFailures
  BY Constants DEF Abandon, MayFail, AgeInv, TypeOK
<1>2. reader' \in [Readers -> Reader] /\ CurrentIsNew' /\ CountedIsRecent'
  BY <1>1, RestStep
<1>3. TypeOK' /\ EntryAges'
  BY <1>1, <1>2 DEF AgeInv, TypeOK, EntryAges
<1>. QED BY <1>2, <1>3 DEF AgeInv

------------------------------------------------------------------------------
(* Changes, events and time.                                               *)

LEMMA CommitStep ==
    ASSUME AgeInv, NEW t \in Tenants, NEW f \in Stat, Commit(t, f)
    PROVE  AgeInv'
<1>. USE DEF AgeInv
<1>1. /\ truth[t][f] < MaxChanges
      /\ truth' = [truth EXCEPT ![t] = [truth[t] EXCEPT ![f] = truth[t][f] + 1]]
      /\ UNCHANGED <<replaced, cache, reader, flight, failures>>
      /\ owed' = owed \cup {[tenant |-> t, field |-> f]}
  BY DEF Commit
<1>2. truth \in [Tenants -> [Stat -> Value]] /\ truth[t][f] \in Value /\ truth[t][f] + 1 \in Value
  BY <1>1, Constants DEF TypeOK, Value
<1>3. truth' \in [Tenants -> [Stat -> Value]]
  BY <1>1, <1>2
<1>4. TypeOK'
  BY <1>1, <1>3 DEF TypeOK, Change
<1>5. CurrentIsNew'
  <2>. SUFFICES ASSUME NEW u \in Tenants, NEW g \in Stat, NEW v \in Value, v >= truth'[u][g]
                PROVE  replaced'[u][g][v] = 0
    BY DEF CurrentIsNew
  <2>1. truth'[u][g] >= truth[u][g] /\ truth[u][g] \in Nat /\ truth'[u][g] \in Nat
    BY <1>1, <1>2, Constants DEF Value
  <2>2. v >= truth[u][g]
    BY <2>1, Constants DEF Value
  <2>. QED BY <1>1, <2>2 DEF CurrentIsNew
<1>6. CountedIsRecent' /\ EntryAges'
  BY <1>1 DEF CountedIsRecent, EntryAges, Computing
<1>. QED BY <1>4, <1>5, <1>6

LEMMA PublishStep ==
    ASSUME AgeInv, NEW c \in owed, Publish(c)
    PROVE  AgeInv'
<1>. USE DEF AgeInv
<1>1. c \in Change
  BY DEF TypeOK
<1>2. /\ UNCHANGED <<truth, replaced, cache, reader>>
      /\ owed' \subseteq Change
      /\ failures' \in 0 .. MaxFailures
  BY Constants DEF Publish, MayFail, TypeOK
<1>3. flight' \subseteq Message
  BY <1>1, MessageType DEF Publish, TypeOK
<1>4. TypeOK'
  BY <1>2, <1>3 DEF TypeOK
<1>5. CurrentIsNew' /\ CountedIsRecent' /\ EntryAges'
  BY <1>2 DEF CurrentIsNew, CountedIsRecent, EntryAges, Computing
<1>. QED BY <1>4, <1>5

LEMMA DeliverStep ==
    ASSUME AgeInv, NEW m \in flight, Deliver(m)
    PROVE  AgeInv'
<1>. USE DEF AgeInv
<1>1. /\ UNCHANGED <<truth, replaced, reader, owed>>
      /\ flight' \subseteq Message
      /\ failures' \in 0 .. MaxFailures
  BY Constants DEF Deliver, MayFail, TypeOK
<1>2. /\ cache' \in [Tenants -> Entry]
      /\ \A t \in Tenants : cache'[t] = cache[t] \/ cache'[t] = NoEntry
  BY IdleType DEF Deliver, TypeOK, Entry
<1>3. TypeOK'
  BY <1>1, <1>2 DEF TypeOK
<1>4. CurrentIsNew' /\ CountedIsRecent'
  BY <1>1 DEF CurrentIsNew, CountedIsRecent, Computing
<1>5. EntryAges'
  BY <1>1, <1>2 DEF EntryAges, NoEntry
<1>. QED BY <1>3, <1>4, <1>5

\* A tick ages a value by at most one.
LEMMA TickAges ==
    ASSUME TypeOK, Tick, NEW t \in Tenants, NEW f \in Stat, NEW v \in Value
    PROVE  /\ replaced[t][f][v] \in Nat
           /\ replaced'[t][f][v] \in 0 .. Bound
           /\ replaced'[t][f][v] <= replaced[t][f][v] + 1
<1>1. replaced[t][f][v] \in 0 .. Bound
  BY DEF TypeOK
<1>2. replaced'[t][f][v] = IF v < truth[t][f] THEN Capped(replaced[t][f][v]) ELSE 0
  BY DEF Tick
<1>. QED BY <1>1, <1>2, Constants DEF Capped

LEMMA TickStep ==
    ASSUME AgeInv, Tick
    PROVE  AgeInv'
<1>. USE DEF AgeInv
<1>1. UNCHANGED <<truth, owed, flight, failures>>
  BY DEF Tick
<1>2. replaced' \in [Tenants -> [Stat -> [Value -> 0 .. Bound]]]
  <2>1. \A t \in Tenants, f \in Stat, v \in Value :
            (IF v < truth[t][f] THEN Capped(replaced[t][f][v]) ELSE 0) \in 0 .. Bound
    BY Constants DEF Capped, TypeOK
  <2>. QED BY <2>1 DEF Tick
<1>3. ASSUME NEW t \in Tenants
      PROVE  /\ cache'[t] \in Entry
             /\ \/ cache'[t].left = 0
                \/ /\ cache'[t].left = cache[t].left - 1 /\ cache[t].left > 1
                   /\ cache'[t].val = cache[t].val /\ cache'[t].bad = cache[t].bad
  <2>1. cache[t] \in Entry
    BY DEF TypeOK
  <2>2. cache'[t] = IF cache[t].left > 1 THEN [cache[t] EXCEPT !.left = cache[t].left - 1] ELSE NoEntry
    BY DEF Tick
  <2>. QED BY <2>1, <2>2, Constants, IdleType DEF Entry, NoEntry
<1>4. ASSUME NEW r \in Readers
      PROVE  /\ reader'[r] \in Reader
             /\ ~Computing(r) => reader'[r] = reader[r]
             /\ Computing(r) => /\ reader'[r].tenant = reader[r].tenant
                                /\ reader'[r].at = reader[r].at
                                /\ reader'[r].val = reader[r].val
                                /\ reader'[r].bad = reader[r].bad
                                /\ reader'[r].age = reader[r].age + 1
  <2>1. reader[r] \in Reader /\ (Computing(r) => reader[r].age < MaxCompute)
    BY DEF TypeOK, Tick
  <2>2. reader'[r] = IF Computing(r) THEN [reader[r] EXCEPT !.age = reader[r].age + 1] ELSE reader[r]
    BY DEF Tick
  <2>3. CASE Computing(r)
    <3>1. reader'[r] = [reader[r] EXCEPT !.age = reader[r].age + 1]
      BY <2>2, <2>3
    <3>2. reader[r].age + 1 \in 0 .. MaxCompute
      BY <2>1, <2>3, Constants DEF Reader
    <3>. QED BY <2>1, <2>3, <3>1, <3>2 DEF Reader
  <2>4. CASE ~Computing(r)
    BY <2>1, <2>2, <2>4
  <2>. QED BY <2>3, <2>4
<1>5. TypeOK'
  <2>1. cache' \in [Tenants -> Entry]
    BY <1>3 DEF Tick
  <2>2. reader' \in [Readers -> Reader]
    BY <1>4 DEF Tick
  <2>. QED BY <1>1, <1>2, <2>1, <2>2 DEF TypeOK
<1>6. CurrentIsNew'
  <2>. SUFFICES ASSUME NEW t \in Tenants, NEW f \in Stat, NEW v \in Value, v >= truth[t][f]
                PROVE  replaced'[t][f][v] = 0
    BY <1>1 DEF CurrentIsNew
  <2>1. v \in Nat /\ truth[t][f] \in Nat
    BY Constants DEF TypeOK, Value
  <2>2. ~(v < truth[t][f])
    BY <2>1
  <2>3. replaced'[t][f][v] = IF v < truth[t][f] THEN Capped(replaced[t][f][v]) ELSE 0
    BY DEF Tick
  <2>. QED BY <2>2, <2>3
<1>7. CountedIsRecent'
  <2>. SUFFICES ASSUME NEW q \in Readers, Computing(q)', NEW i \in 1 .. reader'[q].at,
                       Fields[i] \notin reader'[q].bad
                PROVE  replaced'[reader'[q].tenant][Fields[i]][reader'[q].val[Fields[i]]] <= reader'[q].age
    BY DEF CountedIsRecent, Computing
  <2>1. Computing(q)
    BY <1>4 DEF Computing
  <2>2. /\ reader[q].tenant \in Tenants /\ reader[q].at \in 0 .. Len(Fields)
        /\ reader[q].val \in [Stat -> Value] /\ reader[q].age \in 0 .. MaxCompute
    BY <2>1, ComputingTenant
  <2>3. Fields[i] \in Stat /\ reader[q].val[Fields[i]] \in Value
    BY <1>4, <2>1, <2>2, Constants
  <2>4. replaced[reader[q].tenant][Fields[i]][reader[q].val[Fields[i]]] <= reader[q].age
    BY <1>4, <2>1 DEF CountedIsRecent
  <2>5. replaced'[reader[q].tenant][Fields[i]][reader[q].val[Fields[i]]] \in Nat
        /\ replaced'[reader[q].tenant][Fields[i]][reader[q].val[Fields[i]]] <=
             replaced[reader[q].tenant][Fields[i]][reader[q].val[Fields[i]]] + 1
        /\ replaced[reader[q].tenant][Fields[i]][reader[q].val[Fields[i]]] \in Nat
    <3>1. /\ replaced'[reader[q].tenant][Fields[i]][reader[q].val[Fields[i]]] \in 0 .. Bound
          /\ replaced'[reader[q].tenant][Fields[i]][reader[q].val[Fields[i]]] <=
               replaced[reader[q].tenant][Fields[i]][reader[q].val[Fields[i]]] + 1
          /\ replaced[reader[q].tenant][Fields[i]][reader[q].val[Fields[i]]] \in Nat
      BY <2>2, <2>3, TickAges
    <3>2. \A n \in 0 .. Bound : n \in Nat
      BY Constants
    <3>. QED BY <3>1, <3>2
  <2>6. /\ reader'[q].tenant = reader[q].tenant /\ reader'[q].val = reader[q].val
        /\ reader'[q].age = reader[q].age + 1
    BY <1>4, <2>1
  <2>7. reader[q].age \in Nat
    BY <2>2, Constants
  <2>8. replaced'[reader[q].tenant][Fields[i]][reader[q].val[Fields[i]]] <= reader[q].age + 1
    BY <2>4, <2>5, <2>7
  <2>. QED BY <2>6, <2>8
<1>8. EntryAges'
  <2>. SUFFICES ASSUME NEW t \in Tenants, NEW f \in Stat,
                       cache'[t].left > 0, f \notin cache'[t].bad
                PROVE  replaced'[t][f][cache'[t].val[f]] + cache'[t].left
                            <= statsCacheTTL + MaxCompute
    BY DEF EntryAges
  <2>1. /\ cache'[t].left = cache[t].left - 1 /\ cache[t].left > 1
        /\ cache'[t].val = cache[t].val /\ cache'[t].bad = cache[t].bad
    BY <1>3
  <2>2. cache[t].val[f] \in Value /\ cache[t].left \in Nat
    BY Constants DEF TypeOK, Entry
  <2>3. replaced[t][f][cache[t].val[f]] + cache[t].left <= statsCacheTTL + MaxCompute
    BY <2>1, <2>2 DEF EntryAges
  <2>4. /\ replaced[t][f][cache[t].val[f]] \in Nat
        /\ replaced'[t][f][cache[t].val[f]] \in Nat
        /\ replaced'[t][f][cache[t].val[f]] <= replaced[t][f][cache[t].val[f]] + 1
    <3>1. /\ replaced[t][f][cache[t].val[f]] \in Nat
          /\ replaced'[t][f][cache[t].val[f]] \in 0 .. Bound
          /\ replaced'[t][f][cache[t].val[f]] <= replaced[t][f][cache[t].val[f]] + 1
      BY <2>2, TickAges
    <3>. QED BY <3>1, Constants
  <2>5. replaced'[t][f][cache'[t].val[f]] = replaced'[t][f][cache[t].val[f]]
    BY <2>1
  <2>6. replaced'[t][f][cache[t].val[f]] + (cache[t].left - 1) <= statsCacheTTL + MaxCompute
    BY <2>2, <2>3, <2>4, Constants
  <2>. QED BY <2>1, <2>5, <2>6
<1>. QED BY <1>5, <1>6, <1>7, <1>8

------------------------------------------------------------------------------
LEMMA NextAge == AgeInv /\ [Next]_vars => AgeInv'
<1>. SUFFICES ASSUME AgeInv, [Next]_vars PROVE AgeInv'
  OBVIOUS
<1>1. CASE UNCHANGED vars
  BY <1>1 DEF vars, AgeInv, TypeOK, CurrentIsNew, CountedIsRecent, EntryAges, Computing
<1>2. ASSUME NEW r \in Readers, GetStats(r) PROVE AgeInv'
  <2>1. CASE \E t \in Tenants : Hit(r, t)
    BY <1>1, <2>1 DEF Hit
  <2>. QED BY <1>2, <2>1, MissStep, CountStep, StoreStep, AbandonStep DEF GetStats
<1>. QED BY <1>1, <1>2, CommitStep, PublishStep, DeliverStep, TickStep DEF Next

THEOREM Aging == Spec => []AgeInv
<1>. QED BY InitAge, NextAge, PTL DEF Spec

\* The cache, the requests and the messages keep their types.
THEOREM TypeCorrect == Spec => []TypeOK
<1>1. AgeInv => TypeOK
  BY DEF AgeInv
<1>. QED BY <1>1, Aging, PTL

\* GetStats and its 60-second TTL: whatever a request, a change, an invalidation or
\* a lost event do in between, the cache answers nothing that was replaced more
\* than one TTL and one request's time ago.
THEOREM AgeIsBounded == Spec => []ServedWithinTTL
<1>1. AgeInv => ServedWithinTTL
  <2>. SUFFICES ASSUME AgeInv, NEW t \in Tenants, NEW f \in Stat,
                       cache[t].left > 0, f \notin cache[t].bad
                PROVE  replaced[t][f][cache[t].val[f]] <= statsCacheTTL + MaxCompute
    BY DEF ServedWithinTTL
  <2>1. replaced[t][f][cache[t].val[f]] + cache[t].left <= statsCacheTTL + MaxCompute
    BY DEF AgeInv, EntryAges
  <2>2. cache[t].val[f] \in Value /\ cache[t].left \in Nat
    BY Constants DEF AgeInv, TypeOK, Entry
  <2>3. replaced[t][f][cache[t].val[f]] \in Nat
    BY <2>2, Constants DEF AgeInv, TypeOK
  <2>. QED BY <2>1, <2>2, <2>3, Constants
<1>. QED BY <1>1, Aging, PTL

------------------------------------------------------------------------------
(***************************************************************************)
(* Business impact: the level of an asset follows the tiers of the         *)
(* assessments it is linked to, for any assets, assessments, requests and  *)
(* failures.                                                               *)
(*                                                                         *)
(* ImpactInv: a link's assessment exists (LinksExist); what a transaction  *)
(* has computed of an asset is the highest tier of the links it saw, and   *)
(* still is unless something has made it stale (ComputedIsRight); and an   *)
(* asset whose level is not that tier is owed a propagation, or is         *)
(* adrift, since requests have overlapped at it (SettledOrOwed).           *)
(***************************************************************************)

ImpactLevels == {"critical", "important", "normal", "minor"}
LevelLists == UNION {[S -> ImpactLevels] : S \in SUBSET Assets}
Transaction ==
    [op : {"create", "delete"}, x : Assessments, a : Assets, found : LevelLists, stale : SUBSET Assets]
Propagation ==
    [op : {"propagate"}, x : Assessments, a : Assessments, found : LevelLists, stale : SUBSET Assets]
TierUpdate == [op : {"update"}, x : Assessments]
Requests == {NoRequest} \cup Transaction \cup Propagation \cup TierUpdate
Kinds == {"create", "delete", "propagate"}

ImpactTypeOK ==
    /\ tier \in [Assessments -> Tiers \cup {"absent", "deleted"}]
    /\ links \subseteq Assessments \X Assets
    /\ level \in [Assets -> ImpactLevels]
    /\ request \in [Clients -> Requests]
    /\ adrift \subseteq Assets

\* Only an assessment that exists is linked, or about to be; whoever links or unlinks an asset
\* writes its level.
LinksExist ==
    /\ \A l \in links : Exists(l[1])
    /\ \A r \in Clients : request[r].op \in {"create", "delete"} =>
           Exists(request[r].x) /\ request[r].a \in DOMAIN request[r].found

\* The level that the tiers t give to a over the links linked.
Lev(t, linked, a) == MaxTier({t[x] : x \in Depending(linked, a)})

\* The links as a transaction sees them.
Linked(q) == CASE q.op = "create" -> links \cup {<<q.x, q.a>>}
               [] q.op = "delete" -> links \ {<<q.x, q.a>>}
               [] OTHER -> links

\* What a request has computed and nothing has made stale is still the level.
RightAt(r) ==
    request[r].op \in Kinds =>
        \A a \in DOMAIN request[r].found \ request[r].stale :
            request[r].found[a] = Lev(tier, Linked(request[r]), a)
ComputedIsRight == \A r \in Clients : RightAt(r)

\* A propagation that has computed reaches only the assets it has found.
StillOwed(a) ==
    \E r \in Clients : /\ request[r].op \in {"update", "propagate"} /\ <<request[r].x, a>> \in links
                       /\ request[r].op = "propagate" => a \in DOMAIN request[r].found
Settled(a) == a \in adrift \/ StillOwed(a) \/ level[a] = Lev(tier, links, a)
SettledOrOwed == \A a \in Assets : Settled(a)

ImpactInv == ImpactTypeOK /\ LinksExist /\ ComputedIsRight /\ SettledOrOwed

\* The level of an asset depends on the links it has and the tiers they lead to.
LEMMA LevDepends ==
    ASSUME NEW t, NEW u, NEW A, NEW B, NEW a,
           \A x \in Assessments : <<x, a>> \in A <=> <<x, a>> \in B,
           \A x \in Assessments : <<x, a>> \in A => t[x] = u[x]
    PROVE  Lev(t, A, a) = Lev(u, B, a)
<1>1. {t[x] : x \in Depending(A, a)} = {u[x] : x \in Depending(B, a)}
  BY DEF Depending
<1>2. QED
  BY <1>1 DEF Lev

\* The highest tier of any set of assessments is a level.
LEMMA MaxTierIsALevel == \A S : MaxTier(S) \in ImpactLevels
  BY DEF MaxTier, ImpactLevels

\* What the two statements compute: the level of each asset they will write.
LEMMA PropagationComputes ==
    ASSUME NEW x, NEW A
    PROVE  /\ PropagateBIALevelByAssessment(x, A) \in LevelLists
           /\ DOMAIN PropagateBIALevelByAssessment(x, A) = {b \in Assets : <<x, b>> \in A}
           /\ \A b \in Assets : <<x, b>> \in A => PropagateBIALevelByAssessment(x, A)[b] = Lev(tier, A, b)
<1> DEFINE P == PropagateBIALevelByAssessment(x, A)
           S == {b \in Assets : <<x, b>> \in A}
<1>1. \A b : LevelOf(A, b) = Lev(tier, A, b) /\ LevelOf(A, b) \in ImpactLevels
  BY MaxTierIsALevel DEF LevelOf, Lev
<1>2. P = [b \in S |-> LevelOf(A, b)]
  BY DEF PropagateBIALevelByAssessment
<1>3. P \in [S -> ImpactLevels]
  BY <1>1, <1>2
<1>4. S \in SUBSET Assets
  OBVIOUS
<1>5. P \in LevelLists
  BY <1>3, <1>4 DEF LevelLists
<1>6. QED
  BY <1>1, <1>2, <1>5

\* The same for one asset.
LEMMA RecomputationComputes ==
    ASSUME NEW a \in Assets, NEW A
    PROVE  /\ RecomputeBIALevelForAsset(a, A) \in LevelLists
           /\ DOMAIN RecomputeBIALevelForAsset(a, A) = {a}
           /\ RecomputeBIALevelForAsset(a, A)[a] = Lev(tier, A, a)
<1> DEFINE R == RecomputeBIALevelForAsset(a, A)
<1>1. LevelOf(A, a) = Lev(tier, A, a) /\ LevelOf(A, a) \in ImpactLevels
  BY MaxTierIsALevel DEF LevelOf, Lev
<1>2. R = [b \in {a} |-> LevelOf(A, b)]
  BY DEF RecomputeBIALevelForAsset
<1>3. R \in [{a} -> ImpactLevels] /\ {a} \in SUBSET Assets
  BY <1>1, <1>2
<1>4. R \in LevelLists
  BY <1>3 DEF LevelLists
<1>5. QED
  BY <1>1, <1>2, <1>4

\* The assets a change of an assessment reaches are assets.
LEMMA ReachedAssets == ASSUME ImpactTypeOK, NEW x PROVE Reached(x) \in SUBSET Assets
<1>1. \A c \in Clients : request[c].op = "create" => request[c].a \in Assets
  BY DEF ImpactTypeOK, Requests, NoRequest, Transaction, Propagation, TierUpdate
<1>2. QED
  BY <1>1 DEF Reached

\* Marking levels as stale changes nothing else of a request.
LEMMA StaleGrows ==
    ASSUME ImpactTypeOK, NEW q \in Clients, request[q].op \in Kinds, NEW S \in SUBSET Assets
    PROVE  LET d == [request[q] EXCEPT !.stale = request[q].stale \cup (S \cap DOMAIN request[q].found)] IN
           /\ d \in Requests
           /\ d.op = request[q].op /\ d.x = request[q].x
           /\ d.a = request[q].a /\ d.found = request[q].found
           /\ d.stale = request[q].stale \cup (S \cap DOMAIN request[q].found)
<1> DEFINE d == [request[q] EXCEPT !.stale = request[q].stale \cup (S \cap DOMAIN request[q].found)]
<1>1. request[q] \in Transaction \cup Propagation
  BY DEF ImpactTypeOK, Requests, NoRequest, TierUpdate, Kinds
<1>2. d = [op |-> request[q].op, x |-> request[q].x, a |-> request[q].a, found |-> request[q].found,
           stale |-> request[q].stale \cup (S \cap DOMAIN request[q].found)]
  BY <1>1 DEF Transaction, Propagation
<1>3. request[q].stale \cup (S \cap DOMAIN request[q].found) \in SUBSET Assets
  BY <1>1 DEF Transaction, Propagation
<1>4. d \in Transaction \cup Propagation
  BY <1>1, <1>2, <1>3 DEF Transaction, Propagation
<1>5. QED
  BY <1>2, <1>4 DEF Requests

\* The requests of Q go on with what they have; those that have computed a level for one of S
\* know that it is stale.
Disturbed(Q, S) ==
    \A q \in Q :
        /\ request'[q].op = request[q].op
        /\ request[q].op = "update" => request'[q].x = request[q].x
        /\ request[q].op \in Kinds =>
              /\ request'[q].x = request[q].x /\ request'[q].a = request[q].a
              /\ request'[q].found = request[q].found
              /\ request'[q].stale = request[q].stale \cup (S \cap DOMAIN request[q].found)

\* r has computed the levels of the assets Written over the links linked.
HasComputed(r, op, Written, linked) ==
    /\ request'[r].op = op /\ request'[r].stale = {}
    /\ DOMAIN request'[r].found = Written
    /\ \A b \in Written : request'[r].found[b] = Lev(tier, linked, b)

\* What a request at work has found, it has found for assets.
LEMMA FoundAreAssets ==
    ASSUME ImpactTypeOK, NEW r \in Clients, request[r].op \in Kinds
    PROVE  /\ request[r] \in Transaction \cup Propagation
           /\ request[r].x \in Assessments /\ request[r].stale \in SUBSET Assets
           /\ request[r].op # "propagate" => request[r].a \in Assets
           /\ DOMAIN request[r].found \in SUBSET Assets
           /\ \A b \in DOMAIN request[r].found : request[r].found[b] \in ImpactLevels
<1>1. request[r] \in Transaction \cup Propagation
  BY DEF ImpactTypeOK, Requests, NoRequest, TierUpdate, Kinds
<1>2. request[r].found \in LevelLists /\ request[r].x \in Assessments /\ request[r].stale \in SUBSET Assets
      /\ (request[r].op # "propagate" => request[r].a \in Assets)
  BY <1>1 DEF Transaction, Propagation
<1>3. PICK S \in SUBSET Assets : request[r].found \in [S -> ImpactLevels]
  BY <1>2 DEF LevelLists
<1>4. QED
  BY <1>1, <1>2, <1>3

\* What a request's commit or tier change does to the others.
LEMMA DisturbedIsSo ==
    ASSUME ImpactTypeOK, NEW r \in Clients, NEW S \in SUBSET Assets, NEW after \in Requests,
           request' = Disturb(r, after, S)
    PROVE  request' \in [Clients -> Requests] /\ request'[r] = after /\ Disturbed(Clients \ {r}, S)
<1>1. request'[r] = after
  BY DEF Disturb
<1>2. ASSUME NEW q \in Clients \ {r}, request[q].op \in Kinds
      PROVE  /\ request'[q].op = request[q].op /\ request'[q].x = request[q].x
             /\ request'[q].a = request[q].a /\ request'[q].found = request[q].found
             /\ request'[q].stale = request[q].stale \cup (S \cap DOMAIN request[q].found)
             /\ request'[q] \in Requests
  <2>1. request'[q] = [request[q] EXCEPT !.stale = request[q].stale \cup (S \cap DOMAIN request[q].found)]
    BY <1>2 DEF Disturb, Kinds
  <2>2. QED
    BY <1>2, <2>1, StaleGrows
<1>3. \A q \in Clients \ {r} : request[q].op \notin Kinds => request'[q] = request[q] /\ request[q] \in Requests
  BY DEF Disturb, Kinds, ImpactTypeOK
<1>4. \A q \in Clients : request'[q] \in Requests
  BY <1>1, <1>2, <1>3
<1>5. request' \in [Clients -> Requests]
  BY <1>4 DEF Disturb
<1>6. Disturbed(Clients \ {r}, S)
  BY <1>2, <1>3 DEF Disturbed, Kinds
<1>7. QED
  BY <1>1, <1>5, <1>6

\* A request's first transaction: the link, and what it computes.
LEMMA CreateShape ==
    ASSUME ImpactTypeOK, NEW r \in Clients, NEW x \in Assessments, NEW a \in Assets,
           CreateDependency(r, x, a)
    PROVE  /\ Exists(x) /\ Disturbed(Clients \ {r}, {})
           /\ request' \in [Clients -> Requests]
           /\ request'[r].x = x /\ request'[r].a = a /\ request[r].op = "none"
           /\ LET linked == links \cup {<<x, a>>} IN
              HasComputed(r, "create", {b \in Assets : <<x, b>> \in linked}, linked)
           /\ tier' = tier /\ links' = links /\ level' = level /\ adrift' = adrift
<1> DEFINE q == Computed("create", x, a, PropagateBIALevelByAssessment(x, links \cup {<<x, a>>}))
<1>1. /\ request' = [request EXCEPT ![r] = q] /\ Exists(x) /\ request[r] = NoRequest
      /\ tier' = tier /\ links' = links /\ level' = level /\ adrift' = adrift
  BY DEF CreateDependency, Starts
<1>2. q = [op |-> "create", x |-> x, a |-> a, stale |-> {},
           found |-> PropagateBIALevelByAssessment(x, links \cup {<<x, a>>})]
  BY DEF Computed
<1>3. q \in Transaction
  <2>1. PropagateBIALevelByAssessment(x, links \cup {<<x, a>>}) \in LevelLists
    BY PropagationComputes
  <2>2. QED
    BY <1>2, <2>1 DEF Transaction
<1>4. request' \in [Clients -> Requests] /\ request'[r] = q
      /\ \A c \in Clients \ {r} : request'[c] = request[c]
  BY <1>1, <1>3 DEF ImpactTypeOK, Requests
<1>5. Disturbed(Clients \ {r}, {})
  BY <1>4 DEF Disturbed, Kinds
<1>6. HasComputed(r, "create", {b \in Assets : <<x, b>> \in links \cup {<<x, a>>}}, links \cup {<<x, a>>})
  <2>1. /\ DOMAIN q.found = {b \in Assets : <<x, b>> \in links \cup {<<x, a>>}}
        /\ \A b \in Assets : <<x, b>> \in links \cup {<<x, a>>} =>
                 q.found[b] = Lev(tier, links \cup {<<x, a>>}, b)
    <3> DEFINE linked == links \cup {<<x, a>>}
    <3>1. q.found = PropagateBIALevelByAssessment(x, linked)
      BY <1>2
    <3> HIDE DEF q, linked
    <3>2. /\ DOMAIN q.found = {b \in Assets : <<x, b>> \in linked}
          /\ \A b \in Assets : <<x, b>> \in linked => q.found[b] = Lev(tier, linked, b)
      BY <3>1, PropagationComputes
    <3>3. QED
      BY <3>2 DEF linked
  <2>2. q.op = "create" /\ q.stale = {}
    BY <1>2
  <2>3. QED
    BY <1>4, <2>1, <2>2 DEF HasComputed
<1>7. QED
  BY <1>1, <1>2, <1>4, <1>5, <1>6 DEF NoRequest

\* The same for a request that unlinks.
LEMMA DeleteShape ==
    ASSUME ImpactTypeOK, LinksExist, NEW r \in Clients, NEW x \in Assessments, NEW a \in Assets,
           DeleteDependency(r, x, a)
    PROVE  /\ Exists(x) /\ Disturbed(Clients \ {r}, {})
           /\ request' \in [Clients -> Requests]
           /\ request'[r].x = x /\ request'[r].a = a /\ request[r].op = "none"
           /\ HasComputed(r, "delete", {a}, links \ {<<x, a>>})
           /\ tier' = tier /\ links' = links /\ level' = level /\ adrift' = adrift
<1> DEFINE q == Computed("delete", x, a, RecomputeBIALevelForAsset(a, links \ {<<x, a>>}))
<1>1. /\ request' = [request EXCEPT ![r] = q] /\ Exists(x) /\ request[r] = NoRequest
      /\ tier' = tier /\ links' = links /\ level' = level /\ adrift' = adrift
  BY DEF DeleteDependency, Starts, LinksExist
<1>2. q = [op |-> "delete", x |-> x, a |-> a, stale |-> {},
           found |-> RecomputeBIALevelForAsset(a, links \ {<<x, a>>})]
  BY DEF Computed
<1>3. q \in Transaction
  <2>1. RecomputeBIALevelForAsset(a, links \ {<<x, a>>}) \in LevelLists
    BY RecomputationComputes
  <2>2. QED
    BY <1>2, <2>1 DEF Transaction
<1>4. request' \in [Clients -> Requests] /\ request'[r] = q
      /\ \A c \in Clients \ {r} : request'[c] = request[c]
  BY <1>1, <1>3 DEF ImpactTypeOK, Requests
<1>5. Disturbed(Clients \ {r}, {})
  BY <1>4 DEF Disturbed, Kinds
<1>6. HasComputed(r, "delete", {a}, links \ {<<x, a>>})
  <2>1. DOMAIN q.found = {a} /\ q.found[a] = Lev(tier, links \ {<<x, a>>}, a)
    <3>1. q.found = RecomputeBIALevelForAsset(a, links \ {<<x, a>>})
      BY <1>2
    <3> HIDE DEF q
    <3>2. QED
      BY <3>1, RecomputationComputes
  <2>2. q.op = "delete" /\ q.stale = {}
    BY <1>2
  <2>3. QED
    BY <1>4, <2>1, <2>2 DEF HasComputed
<1>7. QED
  BY <1>1, <1>2, <1>4, <1>5, <1>6 DEF NoRequest

\* A change of a tier, once committed, computes the levels it has to propagate.
LEMMA PropagateShape ==
    ASSUME ImpactTypeOK, NEW r \in Clients, PropagateBIALevel(r)
    PROVE  LET x == request[r].x IN
           /\ request[r].op = "update" /\ Disturbed(Clients \ {r}, {})
           /\ request' \in [Clients -> Requests] /\ request'[r].x = x
           /\ HasComputed(r, "propagate", {b \in Assets : <<x, b>> \in links}, links)
           /\ tier' = tier /\ links' = links /\ level' = level /\ adrift' = adrift
<1> DEFINE x == request[r].x
           q == Computed("propagate", x, x, PropagateBIALevelByAssessment(x, links))
<1>1. /\ request' = [request EXCEPT ![r] = q] /\ request[r].op = "update"
      /\ tier' = tier /\ links' = links /\ level' = level /\ adrift' = adrift
  BY DEF PropagateBIALevel
<1>2. q = [op |-> "propagate", x |-> x, a |-> x, stale |-> {}, found |-> PropagateBIALevelByAssessment(x, links)]
  BY DEF Computed
<1>3. x \in Assessments
  BY <1>1 DEF ImpactTypeOK, Requests, NoRequest, Transaction, Propagation, TierUpdate
<1>4. /\ PropagateBIALevelByAssessment(x, links) \in LevelLists
      /\ DOMAIN PropagateBIALevelByAssessment(x, links) = {b \in Assets : <<x, b>> \in links}
      /\ \A b \in Assets : <<x, b>> \in links => PropagateBIALevelByAssessment(x, links)[b] = Lev(tier, links, b)
  BY PropagationComputes
<1>5. q \in Propagation
  BY <1>2, <1>3, <1>4 DEF Propagation
<1>6. request' \in [Clients -> Requests] /\ request'[r] = q
      /\ \A c \in Clients \ {r} : request'[c] = request[c]
  BY <1>1, <1>5 DEF ImpactTypeOK, Requests
<1>7. Disturbed(Clients \ {r}, {})
  BY <1>6 DEF Disturbed, Kinds
<1>8. HasComputed(r, "propagate", {b \in Assets : <<x, b>> \in links}, links)
  BY <1>2, <1>4, <1>6 DEF HasComputed
<1>9. QED
  BY <1>1, <1>2, <1>6, <1>7, <1>8

\* The change of the tier: its request owes a propagation.
LEMMA TierChangeShape ==
    ASSUME ImpactTypeOK, NEW r \in Clients, NEW x \in Assessments, NEW t \in Tiers,
           UpdateAssessment(r, x, t)
    PROVE  /\ request[r].op = "none" /\ Exists(x) /\ Disturbed(Clients \ {r}, Reached(x))
           /\ request' \in [Clients -> Requests]
           /\ request'[r].op = "update" /\ request'[r].x = x
           /\ tier' \in [Assessments -> Tiers \cup {"absent", "deleted"}] /\ tier'[x] = t
           /\ \A y \in Assessments \ {x} : tier'[y] = tier[y]
           /\ links' = links /\ level' = level /\ adrift' = adrift
<1>1. [op |-> "update", x |-> x] \in Requests
  BY DEF Requests, TierUpdate
<1>2. Reached(x) \in SUBSET Assets
  BY ReachedAssets
<1>3. request[r] = NoRequest /\ Exists(x) /\ request' = Disturb(r, [op |-> "update", x |-> x], Reached(x))
      /\ tier' = [tier EXCEPT ![x] = t] /\ links' = links /\ level' = level /\ adrift' = adrift
  BY DEF UpdateAssessment
<1>4. request' \in [Clients -> Requests] /\ request'[r] = [op |-> "update", x |-> x]
      /\ Disturbed(Clients \ {r}, Reached(x))
  BY <1>1, <1>2, <1>3, DisturbedIsSo
<1>5. /\ tier' \in [Assessments -> Tiers \cup {"absent", "deleted"}] /\ tier'[x] = t
      /\ \A y \in Assessments \ {x} : tier'[y] = tier[y]
  BY <1>3 DEF ImpactTypeOK
<1>6. QED
  BY <1>3, <1>4, <1>5 DEF NoRequest

\* A commit writes what was computed and disturbs the others at the asset it linked or unlinked.
LEMMA CommitShape ==
    ASSUME ImpactTypeOK, NEW r \in Clients, CommitCreate(r) \/ CommitDelete(r) \/ CommitPropagate(r)
    PROVE  LET q == request[r] IN
           /\ q.op \in Kinds /\ request' \in [Clients -> Requests] /\ request'[r].op = "none"
           /\ Disturbed(Clients \ {r}, IF q.op = "propagate" THEN {} ELSE {q.a})
           /\ links' = Linked(q) /\ tier' = tier
           /\ level' \in [Assets -> ImpactLevels] /\ adrift' \in SUBSET Assets
           /\ q.stale \subseteq adrift'
           /\ \A a \in DOMAIN q.found : level'[a] = q.found[a]
           /\ \A a \in Assets \ DOMAIN q.found : level'[a] = level[a] /\ (a \in adrift => a \in adrift')
<1> DEFINE q == request[r]
<1>1. q.op \in Kinds /\ Overwrite(q) /\ tier' = tier
      /\ (q.op = "create" <=> CommitCreate(r)) /\ (q.op = "delete" <=> CommitDelete(r))
      /\ (q.op = "propagate" <=> CommitPropagate(r))
  BY DEF CommitCreate, CommitDelete, CommitPropagate, Kinds
<1>2. /\ q \in Transaction \cup Propagation /\ q.stale \in SUBSET Assets
      /\ DOMAIN q.found \in SUBSET Assets /\ \A b \in DOMAIN q.found : q.found[b] \in ImpactLevels
      /\ q.op # "propagate" => q.a \in Assets
  BY <1>1, FoundAreAssets
<1>3. /\ level' = [a \in Assets |-> IF a \in DOMAIN q.found THEN q.found[a] ELSE level[a]]
      /\ adrift' = (adrift \ DOMAIN q.found) \cup q.stale
  BY <1>1 DEF Overwrite
<1>4. level' \in [Assets -> ImpactLevels] /\ adrift' \in SUBSET Assets
  BY <1>2, <1>3 DEF ImpactTypeOK
<1>5. links' = Linked(q)
  BY <1>1 DEF CommitCreate, CommitDelete, CommitPropagate, Linked, Kinds
<1>6. CASE q.op # "propagate"
  <2>1. request' = Disturb(r, NoRequest, {q.a}) /\ {q.a} \in SUBSET Assets /\ NoRequest \in Requests
    BY <1>1, <1>2, <1>6 DEF CommitCreate, CommitDelete, Kinds, Requests
  <2>2. request' \in [Clients -> Requests] /\ request'[r] = NoRequest /\ Disturbed(Clients \ {r}, {q.a})
    BY <2>1, DisturbedIsSo
  <2>3. QED
    BY <1>1, <1>2, <1>3, <1>4, <1>5, <1>6, <2>2 DEF NoRequest
<1>7. CASE q.op = "propagate"
  <2>1. request' = [request EXCEPT ![r] = NoRequest]
    BY <1>1, <1>7 DEF CommitPropagate
  <2>2. request' \in [Clients -> Requests] /\ request'[r] = NoRequest
        /\ \A c \in Clients \ {r} : request'[c] = request[c]
    BY <2>1 DEF ImpactTypeOK, Requests
  <2>3. Disturbed(Clients \ {r}, {})
    BY <2>2 DEF Disturbed, Kinds
  <2>4. QED
    BY <1>1, <1>2, <1>3, <1>4, <1>5, <1>7, <2>2, <2>3 DEF NoRequest
<1>8. QED
  BY <1>6, <1>7

\* A request that fails is forgotten, and what it was told of with it.
LEMMA FailsShape ==
    ASSUME ImpactTypeOK, NEW r \in Clients, Fails(r)
    PROVE  /\ request' \in [Clients -> Requests] /\ request'[r].op = "none"
           /\ Disturbed(Clients \ {r}, {})
           /\ tier' = tier /\ links' = links /\ level' = level
           /\ adrift' \in SUBSET Assets /\ adrift \subseteq adrift'
           /\ request[r].op \in {"update", "propagate"} => Reached(request[r].x) \subseteq adrift'
<1>1. request' = [request EXCEPT ![r] = NoRequest] /\ tier' = tier /\ links' = links /\ level' = level
  BY DEF Fails
<1>2. adrift' = IF request[r].op \in {"update", "propagate"} THEN adrift \cup Reached(request[r].x) ELSE adrift
  BY DEF Fails
<1>3. Reached(request[r].x) \in SUBSET Assets
  BY ReachedAssets
<1>4. request' \in [Clients -> Requests] /\ request'[r] = NoRequest
      /\ \A c \in Clients \ {r} : request'[c] = request[c]
  BY <1>1 DEF ImpactTypeOK, Requests
<1>5. Disturbed(Clients \ {r}, {})
  BY <1>4 DEF Disturbed, Kinds
<1>6. QED
  BY <1>1, <1>2, <1>3, <1>4, <1>5 DEF ImpactTypeOK, NoRequest

\* An assessment that goes takes its links along.
LEMMA DeletionShape ==
    ASSUME ImpactTypeOK, NEW x \in Assessments, DeleteAssessment(x)
    PROVE  /\ request' \in [Clients -> Requests] /\ Disturbed(Clients, Reached(x))
           /\ tier' \in [Assessments -> Tiers \cup {"absent", "deleted"}]
           /\ \A y \in Assessments \ {x} : tier'[y] = tier[y]
           /\ links' = {l \in links : l[1] # x} /\ level' = level
           /\ adrift' = adrift \cup Reached(x) /\ adrift' \in SUBSET Assets
           /\ \A q \in Clients : request[q].op \in {"create", "delete"} => request[q].x # x
<1>1. /\ tier' = [tier EXCEPT ![x] = "deleted"] /\ links' = {l \in links : l[1] # x} /\ level' = level
      /\ adrift' = adrift \cup Reached(x)
      /\ \A q \in Clients : request[q].op \in {"create", "delete"} => request[q].x # x
      /\ request' = [q \in Clients |-> IF request[q].op \in {"create", "delete", "propagate"}
                       THEN [request[q] EXCEPT !.stale = @ \cup (Reached(x) \cap DOMAIN request[q].found)]
                       ELSE request[q]]
  BY DEF DeleteAssessment
<1>2. Reached(x) \in SUBSET Assets
  BY ReachedAssets
<1>3. \A q \in Clients : request[q].op \in Kinds =>
         /\ request'[q] = [request[q] EXCEPT !.stale = request[q].stale \cup (Reached(x) \cap DOMAIN request[q].found)]
         /\ request'[q] \in Requests
         /\ request'[q].op = request[q].op /\ request'[q].x = request[q].x
         /\ request'[q].a = request[q].a /\ request'[q].found = request[q].found
         /\ request'[q].stale = request[q].stale \cup (Reached(x) \cap DOMAIN request[q].found)
  BY <1>1, <1>2, StaleGrows DEF Kinds
<1>4. \A q \in Clients : request[q].op \notin Kinds => request'[q] = request[q] /\ request'[q] \in Requests
  BY <1>1 DEF Kinds, ImpactTypeOK
<1>5. request' \in [Clients -> Requests]
  BY <1>1, <1>3, <1>4
<1>6. Disturbed(Clients, Reached(x))
  BY <1>3, <1>4 DEF Disturbed, Kinds
<1>7. /\ tier' \in [Assessments -> Tiers \cup {"absent", "deleted"}]
      /\ \A y \in Assessments \ {x} : tier'[y] = tier[y]
  BY <1>1 DEF ImpactTypeOK
<1>8. adrift' \in SUBSET Assets
  BY <1>1, <1>2 DEF ImpactTypeOK
<1>9. QED
  BY <1>1, <1>5, <1>6, <1>7, <1>8

\* The links and tiers of the assets outside S are as they were.
SameElsewhere(S) ==
    \A a \in Assets \ S : \A x \in Assessments :
        /\ <<x, a>> \in links' <=> <<x, a>> \in links
        /\ <<x, a>> \in links => tier'[x] = tier[x]

\* What has been computed stays right, but for the assets it is told of.
LEMMA OthersStayRight ==
    ASSUME ImpactTypeOK, ComputedIsRight, NEW Q \in SUBSET Clients, NEW S \in SUBSET Assets,
           Disturbed(Q, S), SameElsewhere(S),
           \A q \in Q : request[q].op = "create" /\ request[q].a \notin S
                        => tier'[request[q].x] = tier[request[q].x]
    PROVE  \A q \in Q : RightAt(q)'
<1> SUFFICES ASSUME NEW q \in Q, request'[q].op \in Kinds,
                    NEW a \in DOMAIN request'[q].found \ request'[q].stale
             PROVE  request'[q].found[a] = Lev(tier', Linked(request[q])', a)
  BY DEF RightAt, Lev
<1>1. /\ request'[q].op = request[q].op /\ request'[q].x = request[q].x
      /\ request'[q].a = request[q].a /\ request'[q].found = request[q].found
      /\ request'[q].stale = request[q].stale \cup (S \cap DOMAIN request[q].found)
  BY DEF Disturbed
<1>2. DOMAIN request[q].found \in SUBSET Assets /\ request[q].x \in Assessments
  BY <1>1, FoundAreAssets
<1>3. a \in DOMAIN request[q].found \ request[q].stale /\ a \in Assets \ S
  BY <1>1, <1>2
<1>4. request[q].found[a] = Lev(tier, Linked(request[q]), a)
  BY <1>1, <1>3 DEF ComputedIsRight, RightAt
<1>5. ASSUME NEW x \in Assessments
      PROVE  /\ <<x, a>> \in Linked(request[q])' <=> <<x, a>> \in Linked(request[q])
             /\ <<x, a>> \in Linked(request[q]) => tier'[x] = tier[x]
  <2>1. /\ <<x, a>> \in links' <=> <<x, a>> \in links
        /\ <<x, a>> \in links => tier'[x] = tier[x]
    BY <1>3 DEF SameElsewhere
  <2>2. CASE request[q].op = "create"
    <3>1. Linked(request[q]) = links \cup {<<request[q].x, request[q].a>>}
          /\ Linked(request[q])' = links' \cup {<<request[q].x, request[q].a>>}
      BY <1>1, <2>2 DEF Linked
    <3>2. QED
      BY <1>3, <2>1, <2>2, <3>1
  <2>3. CASE request[q].op = "delete"
    <3>1. Linked(request[q]) = links \ {<<request[q].x, request[q].a>>}
          /\ Linked(request[q])' = links' \ {<<request[q].x, request[q].a>>}
      BY <1>1, <2>3 DEF Linked
    <3>2. QED
      BY <2>1, <3>1
  <2>4. CASE request[q].op = "propagate"
    <3>1. Linked(request[q]) = links /\ Linked(request[q])' = links'
      BY <1>1, <2>4 DEF Linked
    <3>2. QED
      BY <2>1, <3>1
  <2>5. QED
    BY <1>1, <2>2, <2>3, <2>4 DEF Kinds
<1>6. Lev(tier, Linked(request[q]), a) = Lev(tier', Linked(request[q])', a)
  BY <1>5, LevDepends
<1>7. QED
  BY <1>1, <1>4, <1>6

\* A request that has just computed is right.
LEMMA JustComputed ==
    ASSUME NEW r \in Clients, NEW op \in Kinds, NEW Written, NEW linked,
           HasComputed(r, op, Written, linked), tier' = tier, Linked(request[r])' = linked
    PROVE  RightAt(r)'
<1>1. Linked(request[r])' = linked /\ tier' = tier
  OBVIOUS
<1>2. \A b \in DOMAIN request'[r].found : request'[r].found[b] = Lev(tier, linked, b)
  BY DEF HasComputed
<1>3. QED
  BY <1>1, <1>2 DEF RightAt, Lev

\* An asset that no step touches stays settled while what it is owed stays owed.
LEMMA StaysSettled ==
    ASSUME NEW S, SameElsewhere(S), NEW a \in Assets \ S, Settled(a), level'[a] = level[a],
           a \in adrift => a \in adrift',
           StillOwed(a) => a \in adrift' \/ StillOwed(a)'
    PROVE  Settled(a)'
<1>1. Lev(tier, links, a) = Lev(tier', links', a)
  BY LevDepends DEF SameElsewhere
<1>2. QED
  BY <1>1 DEF Settled, Lev

\* What others owe an asset stays owed while one request works.
LEMMA StaysOwed ==
    ASSUME ImpactTypeOK, NEW Q \in SUBSET Clients, NEW S, Disturbed(Q, S), NEW a \in Assets,
           \A x \in Assessments : <<x, a>> \in links => <<x, a>> \in links',
           NEW q \in Q, request[q].op \in {"update", "propagate"}, <<request[q].x, a>> \in links,
           request[q].op = "propagate" => a \in DOMAIN request[q].found
    PROVE  StillOwed(a)'
<1>1. /\ request'[q].op = request[q].op /\ request'[q].x = request[q].x
      /\ request[q].op = "propagate" => request'[q].found = request[q].found
  BY DEF Disturbed, Kinds
<1>2. request[q].x \in Assessments
  BY DEF ImpactTypeOK, Requests, NoRequest, Transaction, Propagation, TierUpdate
<1>3. QED
  BY <1>1, <1>2 DEF StillOwed

\* What a request owes stays owed while the others work.
LEMMA OwedStays ==
    ASSUME ImpactTypeOK, NEW r \in Clients, NEW S, Disturbed(Clients \ {r}, S), links' = links,
           request[r].op = "none", NEW a \in Assets, StillOwed(a)
    PROVE  StillOwed(a)'
<1>1. PICK c \in Clients : /\ request[c].op \in {"update", "propagate"} /\ <<request[c].x, a>> \in links
                           /\ request[c].op = "propagate" => a \in DOMAIN request[c].found
  BY DEF StillOwed
<1>2. c \in Clients \ {r}
  BY <1>1
<1>3. QED
  BY <1>1, <1>2, StaysOwed

\* A commit links or unlinks one asset, one of those whose level it writes.
LEMMA CommitTouches ==
    ASSUME ImpactTypeOK, NEW r \in Clients, request[r].op \in Kinds,
           links' = Linked(request[r]), tier' = tier
    PROVE  SameElsewhere(IF request[r].op = "propagate" THEN {} ELSE {request[r].a})
<1>1. CASE request[r].op = "create"
  <2>1. links' = links \cup {<<request[r].x, request[r].a>>}
    BY <1>1 DEF Linked
  <2>2. QED
    BY <1>1, <2>1 DEF SameElsewhere
<1>2. CASE request[r].op = "delete"
  <2>1. links' = links \ {<<request[r].x, request[r].a>>}
    BY <1>2 DEF Linked
  <2>2. QED
    BY <1>2, <2>1 DEF SameElsewhere
<1>3. CASE request[r].op = "propagate"
  <2>1. links' = links
    BY <1>3 DEF Linked
  <2>2. QED
    BY <1>3, <2>1 DEF SameElsewhere
<1>4. QED
  BY <1>1, <1>2, <1>3 DEF Kinds

\* Types hold across every step.
LEMMA ImpactTypeStep ==
    ASSUME ImpactTypeOK, LinksExist, [ImpactNext]_impactVars
    PROVE  ImpactTypeOK'
<1>1. ASSUME NEW x \in Assessments, NEW t \in Tiers, CreateAssessment(x, t)
      PROVE  ImpactTypeOK'
  BY <1>1 DEF CreateAssessment, ImpactTypeOK
<1>2. ASSUME NEW r \in Clients, NEW x \in Assessments, NEW a \in Assets, CreateDependency(r, x, a)
      PROVE  ImpactTypeOK'
  BY <1>2, CreateShape DEF ImpactTypeOK
<1>3. ASSUME NEW r \in Clients, NEW x \in Assessments, NEW a \in Assets, DeleteDependency(r, x, a)
      PROVE  ImpactTypeOK'
  BY <1>3, DeleteShape DEF ImpactTypeOK
<1>4. ASSUME NEW r \in Clients, NEW x \in Assessments, NEW t \in Tiers, UpdateAssessment(r, x, t)
      PROVE  ImpactTypeOK'
  <2>1. request' \in [Clients -> Requests] /\ tier' \in [Assessments -> Tiers \cup {"absent", "deleted"}]
        /\ links' = links /\ level' = level /\ adrift' = adrift
    BY <1>4, TierChangeShape
  <2>2. QED
    BY <2>1 DEF ImpactTypeOK
<1>5. ASSUME NEW r \in Clients, CommitCreate(r) \/ CommitDelete(r) \/ CommitPropagate(r)
      PROVE  ImpactTypeOK'
  <2>1. /\ request' \in [Clients -> Requests] /\ request[r].op \in Kinds /\ tier' = tier
        /\ links' = Linked(request[r]) /\ level' \in [Assets -> ImpactLevels] /\ adrift' \in SUBSET Assets
    BY <1>5, CommitShape
  <2>2. Linked(request[r]) \subseteq Assessments \X Assets
    BY <2>1, FoundAreAssets DEF Linked, ImpactTypeOK, Kinds
  <2>3. QED
    BY <2>1, <2>2 DEF ImpactTypeOK
<1>6. ASSUME NEW r \in Clients, PropagateBIALevel(r)
      PROVE  ImpactTypeOK'
  BY <1>6, PropagateShape DEF ImpactTypeOK
<1>7. ASSUME NEW r \in Clients, Fails(r)
      PROVE  ImpactTypeOK'
  BY <1>7, FailsShape DEF ImpactTypeOK
<1>8. ASSUME NEW x \in Assessments, DeleteAssessment(x)
      PROVE  ImpactTypeOK'
  BY <1>8, DeletionShape DEF ImpactTypeOK
<1>9. ASSUME NEW a \in Assets, NEW l \in Tiers, UpdateAsset(a, l)
      PROVE  ImpactTypeOK'
  BY <1>9, TiersAssumption DEF UpdateAsset, ImpactTypeOK, ImpactLevels
<1>10. CASE UNCHANGED impactVars
  BY <1>10 DEF impactVars, ImpactTypeOK
<1>11. QED
  BY <1>1, <1>2, <1>3, <1>4, <1>5, <1>6, <1>7, <1>8, <1>9, <1>10 DEF ImpactNext

\* A deletion waits for those that link to the assessment, and takes its links along.
LEMMA LinksExistStep ==
    ASSUME ImpactTypeOK, LinksExist, [ImpactNext]_impactVars
    PROVE  LinksExist'
<1>1. ASSUME NEW x \in Assessments, NEW t \in Tiers, CreateAssessment(x, t)
      PROVE  LinksExist'
  BY <1>1 DEF CreateAssessment, ImpactTypeOK, LinksExist, Exists
<1>2. ASSUME NEW r \in Clients, NEW x \in Assessments, NEW a \in Assets, CreateDependency(r, x, a)
      PROVE  LinksExist'
  <2>1. /\ Exists(x) /\ Disturbed(Clients \ {r}, {}) /\ tier' = tier /\ links' = links
        /\ request'[r].x = x /\ request'[r].a = a
        /\ HasComputed(r, "create", {b \in Assets : <<x, b>> \in links \cup {<<x, a>>}}, links \cup {<<x, a>>})
    BY <1>2, CreateShape
  <2>2. request'[r].a \in DOMAIN request'[r].found
    BY <2>1 DEF HasComputed
  <2>3. QED
    BY <2>1, <2>2 DEF LinksExist, Exists, Disturbed, Kinds
<1>3. ASSUME NEW r \in Clients, NEW x \in Assessments, NEW a \in Assets, DeleteDependency(r, x, a)
      PROVE  LinksExist'
  <2>1. /\ Exists(x) /\ Disturbed(Clients \ {r}, {}) /\ tier' = tier /\ links' = links
        /\ request'[r].x = x /\ request'[r].a = a
        /\ HasComputed(r, "delete", {a}, links \ {<<x, a>>})
    BY <1>3, DeleteShape
  <2>2. request'[r].a \in DOMAIN request'[r].found
    BY <2>1 DEF HasComputed
  <2>3. QED
    BY <2>1, <2>2 DEF LinksExist, Exists, Disturbed, Kinds
<1>4. ASSUME NEW r \in Clients, NEW x \in Assessments, NEW t \in Tiers, UpdateAssessment(r, x, t)
      PROVE  LinksExist'
  <2>1. \A y \in Assessments : Exists(y) => Exists(y)'
    <3>1. tier' = [tier EXCEPT ![x] = t]
      BY <1>4 DEF UpdateAssessment
    <3>2. QED
      BY <3>1 DEF Exists, ImpactTypeOK
  <2>2. \A l \in links : l[1] \in Assessments
    BY DEF ImpactTypeOK
  <2>3. \A q \in Clients : request[q].op \in {"create", "delete"} => request[q].x \in Assessments
    BY FoundAreAssets DEF Kinds
  <2>4. links' = links /\ Disturbed(Clients \ {r}, Reached(x)) /\ request'[r].op = "update"
    BY <1>4, TierChangeShape
  <2>5. QED
    BY <2>1, <2>2, <2>3, <2>4 DEF LinksExist, Disturbed, Kinds
<1>5. ASSUME NEW r \in Clients, CommitCreate(r) \/ CommitDelete(r) \/ CommitPropagate(r)
      PROVE  LinksExist'
  <2> DEFINE S == IF request[r].op = "propagate" THEN {} ELSE {request[r].a}
  <2>1. /\ request'[r].op = "none" /\ Disturbed(Clients \ {r}, S) /\ request[r].op \in Kinds
        /\ links' = Linked(request[r]) /\ tier' = tier
    BY <1>5, CommitShape
  <2> HIDE DEF S
  <2>2. \A l \in links' : l \in links \/ (request[r].op = "create" /\ l = <<request[r].x, request[r].a>>)
    <3>1. CASE request[r].op = "create"
      <4>1. Linked(request[r]) = links \cup {<<request[r].x, request[r].a>>}
        BY <3>1 DEF Linked
      <4>2. QED
        BY <2>1, <3>1, <4>1
    <3>2. CASE request[r].op # "create"
      <4>1. Linked(request[r]) \subseteq links
        BY <3>2 DEF Linked
      <4>2. QED
        BY <2>1, <4>1
    <3>3. QED
      BY <3>1, <3>2
  <2>3. QED
    BY <2>1, <2>2 DEF LinksExist, Exists, Disturbed, Kinds
<1>6. ASSUME NEW r \in Clients, PropagateBIALevel(r)
      PROVE  LinksExist'
  BY <1>6, PropagateShape DEF LinksExist, Exists, Disturbed, Kinds, HasComputed
<1>7. ASSUME NEW r \in Clients, Fails(r)
      PROVE  LinksExist'
  BY <1>7, FailsShape DEF LinksExist, Exists, Disturbed, Kinds
<1>8. ASSUME NEW x \in Assessments, DeleteAssessment(x)
      PROVE  LinksExist'
  <2>1. /\ \A y \in Assessments \ {x} : tier'[y] = tier[y]
        /\ links' = {l \in links : l[1] # x} /\ Disturbed(Clients, Reached(x))
        /\ \A q \in Clients : request[q].op \in {"create", "delete"} => request[q].x # x
    BY <1>8, DeletionShape
  <2>2. \A l \in links : l[1] \in Assessments
    BY DEF ImpactTypeOK
  <2>3. \A l \in links' : Exists(l[1])'
    BY <2>1, <2>2 DEF LinksExist, Exists
  <2>4. \A q \in Clients : request[q].op \in {"create", "delete"} => request[q].x \in Assessments
    BY FoundAreAssets DEF Kinds
  <2>5. \A q \in Clients : request'[q].op \in {"create", "delete"} =>
              Exists(request[q].x)' /\ request'[q].a \in DOMAIN request'[q].found
    BY <2>1, <2>4 DEF LinksExist, Exists, Disturbed, Kinds
  <2>6. QED
    BY <2>3, <2>5 DEF LinksExist
<1>9. ASSUME NEW a \in Assets, NEW l \in Tiers, UpdateAsset(a, l)
      PROVE  LinksExist'
  BY <1>9 DEF UpdateAsset, LinksExist, Exists
<1>10. CASE UNCHANGED impactVars
  BY <1>10 DEF impactVars, LinksExist, Exists
<1>11. QED
  BY <1>1, <1>2, <1>3, <1>4, <1>5, <1>6, <1>7, <1>8, <1>9, <1>10 DEF ImpactNext

\* A commit changes links at one asset, and tells those who have computed its level.
LEMMA ComputedStep ==
    ASSUME ImpactTypeOK, LinksExist, ComputedIsRight, [ImpactNext]_impactVars
    PROVE  ComputedIsRight'
<1> USE DEF ComputedIsRight
<1>1. ASSUME NEW x \in Assessments, NEW t \in Tiers, CreateAssessment(x, t)
      PROVE  ComputedIsRight'
  <2>1. request' = request /\ links' = links /\ \A y \in Assessments : Exists(y) => tier'[y] = tier[y]
    BY <1>1, TiersAssumption DEF CreateAssessment, Exists
  <2>2. SameElsewhere({}) /\ Disturbed(Clients, {})
    BY <2>1 DEF SameElsewhere, LinksExist, Disturbed, Kinds
  <2>3. \A q \in Clients : request[q].op = "create" => tier'[request[q].x] = tier[request[q].x]
    BY <2>1, FoundAreAssets DEF LinksExist, Kinds
  <2>4. QED
    BY <2>2, <2>3, OthersStayRight
<1>2. ASSUME NEW r \in Clients, NEW x \in Assessments, NEW a \in Assets, CreateDependency(r, x, a)
      PROVE  ComputedIsRight'
  <2> DEFINE linked == links \cup {<<x, a>>}
  <2>1. /\ Disturbed(Clients \ {r}, {}) /\ tier' = tier /\ links' = links
        /\ request'[r].x = x /\ request'[r].a = a
        /\ HasComputed(r, "create", {b \in Assets : <<x, b>> \in linked}, linked)
    BY <1>2, CreateShape
  <2>2. \A q \in Clients \ {r} : RightAt(q)'
    BY <2>1, OthersStayRight DEF SameElsewhere
  <2>3. Linked(request[r])' = linked /\ "create" \in Kinds
    BY <2>1 DEF Linked, HasComputed, Kinds
  <2> HIDE DEF linked
  <2>4. RightAt(r)'
    BY <2>1, <2>3, JustComputed
  <2>5. QED
    BY <2>2, <2>4
<1>3. ASSUME NEW r \in Clients, NEW x \in Assessments, NEW a \in Assets, DeleteDependency(r, x, a)
      PROVE  ComputedIsRight'
  <2> DEFINE linked == links \ {<<x, a>>}
  <2>1. /\ Disturbed(Clients \ {r}, {}) /\ tier' = tier /\ links' = links
        /\ request'[r].x = x /\ request'[r].a = a
        /\ HasComputed(r, "delete", {a}, linked)
    BY <1>3, DeleteShape
  <2>2. \A q \in Clients \ {r} : RightAt(q)'
    BY <2>1, OthersStayRight DEF SameElsewhere
  <2>3. Linked(request[r])' = linked /\ "delete" \in Kinds
    BY <2>1 DEF Linked, HasComputed, Kinds
  <2> HIDE DEF linked
  <2>4. RightAt(r)'
    BY <2>1, <2>3, JustComputed
  <2>5. QED
    BY <2>2, <2>4
<1>4. ASSUME NEW r \in Clients, NEW x \in Assessments, NEW t \in Tiers, UpdateAssessment(r, x, t)
      PROVE  ComputedIsRight'
  <2>1. /\ Disturbed(Clients \ {r}, Reached(x)) /\ links' = links /\ request'[r].op = "update"
        /\ \A y \in Assessments \ {x} : tier'[y] = tier[y]
    BY <1>4, TierChangeShape
  <2>2. SameElsewhere(Reached(x)) /\ Reached(x) \in SUBSET Assets
    BY <2>1, ReachedAssets DEF SameElsewhere, Reached
  <2>3. \A q \in Clients \ {r} : request[q].op = "create" /\ request[q].a \notin Reached(x)
                                 => tier'[request[q].x] = tier[request[q].x]
    BY <2>1, FoundAreAssets DEF Reached, Kinds
  <2>4. \A q \in Clients \ {r} : RightAt(q)'
    BY <2>1, <2>2, <2>3, OthersStayRight
  <2>5. RightAt(r)'
    BY <2>1 DEF RightAt, Kinds
  <2>6. QED
    BY <2>4, <2>5
<1>5. ASSUME NEW r \in Clients, CommitCreate(r) \/ CommitDelete(r) \/ CommitPropagate(r)
      PROVE  ComputedIsRight'
  <2> DEFINE S == IF request[r].op = "propagate" THEN {} ELSE {request[r].a}
  <2>1. /\ request'[r].op = "none" /\ Disturbed(Clients \ {r}, S) /\ request[r].op \in Kinds
        /\ links' = Linked(request[r]) /\ tier' = tier
    BY <1>5, CommitShape
  <2>2. SameElsewhere(S) /\ S \in SUBSET Assets
    BY <2>1, CommitTouches, FoundAreAssets
  <2> HIDE DEF S
  <2>3. \A q \in Clients \ {r} : RightAt(q)'
    BY <2>1, <2>2, OthersStayRight
  <2>4. RightAt(r)'
    BY <2>1 DEF RightAt, Kinds
  <2>5. QED
    BY <2>3, <2>4
<1>6. ASSUME NEW r \in Clients, PropagateBIALevel(r)
      PROVE  ComputedIsRight'
  <2> DEFINE W == {b \in Assets : <<request[r].x, b>> \in links}
  <2>1. /\ Disturbed(Clients \ {r}, {}) /\ tier' = tier /\ links' = links
        /\ HasComputed(r, "propagate", W, links)
    BY <1>6, PropagateShape
  <2> HIDE DEF W
  <2>2. \A q \in Clients \ {r} : RightAt(q)'
    BY <2>1, OthersStayRight DEF SameElsewhere
  <2>3. Linked(request[r])' = links /\ "propagate" \in Kinds
    BY <2>1 DEF Linked, HasComputed, Kinds
  <2>4. RightAt(r)'
    BY <2>1, <2>3, JustComputed
  <2>5. QED
    BY <2>2, <2>4
<1>7. ASSUME NEW r \in Clients, Fails(r)
      PROVE  ComputedIsRight'
  <2>1. Disturbed(Clients \ {r}, {}) /\ tier' = tier /\ links' = links /\ request'[r].op = "none"
    BY <1>7, FailsShape
  <2>2. \A q \in Clients \ {r} : RightAt(q)'
    BY <2>1, OthersStayRight DEF SameElsewhere
  <2>3. QED
    BY <2>1, <2>2 DEF RightAt, Kinds
<1>8. ASSUME NEW x \in Assessments, DeleteAssessment(x)
      PROVE  ComputedIsRight'
  <2>1. /\ Disturbed(Clients, Reached(x)) /\ links' = {l \in links : l[1] # x}
        /\ \A y \in Assessments \ {x} : tier'[y] = tier[y]
        /\ \A q \in Clients : request[q].op \in {"create", "delete"} => request[q].x # x
    BY <1>8, DeletionShape
  <2>2. SameElsewhere(Reached(x)) /\ Reached(x) \in SUBSET Assets
    BY <2>1, ReachedAssets DEF SameElsewhere, Reached
  <2>3. \A q \in Clients : request[q].op = "create" => tier'[request[q].x] = tier[request[q].x]
    BY <2>1, FoundAreAssets DEF Kinds
  <2>4. QED
    BY <2>1, <2>2, <2>3, OthersStayRight
<1>9. CASE UNCHANGED <<tier, links, request>>
  <2>1. Disturbed(Clients, {}) /\ SameElsewhere({})
    BY <1>9 DEF Disturbed, SameElsewhere
  <2>2. QED
    BY <1>9, <2>1, OthersStayRight
<1>10. QED
  BY <1>1, <1>2, <1>3, <1>4, <1>5, <1>6, <1>7, <1>8, <1>9 DEF ImpactNext, UpdateAsset, impactVars

\* An asset is settled by whoever writes its level last, is owed a propagation, or is adrift.
LEMMA SettledStep ==
    ASSUME ImpactInv, [ImpactNext]_impactVars
    PROVE  SettledOrOwed'
<1> USE DEF SettledOrOwed
<1>0. ImpactTypeOK /\ LinksExist /\ ComputedIsRight /\ SettledOrOwed
  BY DEF ImpactInv
<1>1. ASSUME NEW x \in Assessments, NEW t \in Tiers, CreateAssessment(x, t)
      PROVE  SettledOrOwed'
  <2>1. /\ request' = request /\ links' = links /\ level' = level /\ adrift' = adrift
        /\ \A y \in Assessments : Exists(y) => tier'[y] = tier[y]
    BY <1>1, TiersAssumption DEF CreateAssessment, Exists
  <2>2. SameElsewhere({})
    BY <1>0, <2>1 DEF SameElsewhere, LinksExist
  <2>3. \A a \in Assets : StillOwed(a) => StillOwed(a)'
    BY <2>1 DEF StillOwed
  <2>4. QED
    BY <1>0, <2>1, <2>2, <2>3, StaysSettled
<1>2. ASSUME NEW r \in Clients, NEW x \in Assessments, NEW b \in Assets,
             CreateDependency(r, x, b) \/ DeleteDependency(r, x, b)
      PROVE  SettledOrOwed'
  <2>1. /\ Disturbed(Clients \ {r}, {}) /\ tier' = tier /\ links' = links /\ level' = level
        /\ adrift' = adrift /\ request[r].op = "none"
    BY <1>0, <1>2, CreateShape, DeleteShape
  <2>2. \A a \in Assets : StillOwed(a) => StillOwed(a)'
    BY <1>0, <2>1, OwedStays
  <2>3. QED
    BY <1>0, <2>1, <2>2, StaysSettled DEF SameElsewhere
<1>3. ASSUME NEW r \in Clients, NEW x \in Assessments, NEW t \in Tiers, UpdateAssessment(r, x, t)
      PROVE  SettledOrOwed'
  <2>1. /\ Disturbed(Clients \ {r}, Reached(x)) /\ links' = links /\ level' = level /\ adrift' = adrift
        /\ request[r].op = "none" /\ request'[r].op = "update" /\ request'[r].x = x
        /\ \A y \in Assessments \ {x} : tier'[y] = tier[y]
    BY <1>0, <1>3, TierChangeShape
  <2>2. \A a \in Assets : StillOwed(a) => StillOwed(a)'
    BY <1>0, <2>1, OwedStays
  <2> DEFINE S == {a \in Assets : <<x, a>> \in links}
  <2>3. \A a \in S : StillOwed(a)'
    BY <2>1 DEF StillOwed
  <2>4. SameElsewhere(S)
    BY <2>1 DEF SameElsewhere
  <2>5. \A a \in Assets \ S : Settled(a)'
    BY <1>0, <2>1, <2>2, <2>4, StaysSettled
  <2>6. QED
    BY <2>3, <2>5 DEF Settled
<1>4. ASSUME NEW r \in Clients, CommitCreate(r) \/ CommitDelete(r) \/ CommitPropagate(r)
      PROVE  SettledOrOwed'
  <2> DEFINE q == request[r]
             S == IF q.op = "propagate" THEN {} ELSE {q.a}
  <2>1. /\ q.op \in Kinds /\ Disturbed(Clients \ {r}, S) /\ links' = Linked(q) /\ tier' = tier
        /\ q.stale \subseteq adrift'
        /\ \A a \in DOMAIN q.found : level'[a] = q.found[a]
        /\ \A a \in Assets \ DOMAIN q.found : level'[a] = level[a] /\ (a \in adrift => a \in adrift')
    BY <1>0, <1>4, CommitShape
  <2>2. ASSUME NEW a \in DOMAIN q.found
        PROVE  Settled(a)'
    <3>1. a \in q.stale \/ q.found[a] = Lev(tier, Linked(q), a)
      BY <1>0, <2>1 DEF ComputedIsRight, RightAt
    <3>2. CASE a \in q.stale
      BY <2>1, <3>2 DEF Settled
    <3>3. CASE q.found[a] = Lev(tier, Linked(q), a)
      <4>1. level'[a] = Lev(tier', links', a)
        BY <2>1, <3>3
      <4>2. QED
        BY <4>1 DEF Settled, Lev
    <3>4. QED
      BY <3>1, <3>2, <3>3
  <2>3. ASSUME NEW a \in Assets \ DOMAIN q.found
        PROVE  Settled(a)'
    <3>1. SameElsewhere(S) /\ a \notin S /\ \A y \in Assessments : <<y, a>> \in links' <=> <<y, a>> \in links
      <4>1. SameElsewhere(S)
        BY <1>0, <2>1, CommitTouches
      <4>2. a \notin S
        BY <1>0, <2>1, <2>3 DEF LinksExist, Kinds
      <4>3. QED
        BY <4>1, <4>2 DEF SameElsewhere
    <3>2. StillOwed(a) => StillOwed(a)'
      <4> SUFFICES ASSUME NEW c \in Clients, request[c].op \in {"update", "propagate"},
                          <<request[c].x, a>> \in links,
                          request[c].op = "propagate" => a \in DOMAIN request[c].found
                   PROVE  StillOwed(a)'
        BY DEF StillOwed
      <4>1. c \in Clients \ {r}
        BY <2>1, <2>3 DEF Kinds
      <4>2. QED
        BY <1>0, <2>1, <3>1, <4>1, StaysOwed
    <3>3. QED
      BY <1>0, <2>1, <2>3, <3>1, <3>2, StaysSettled
  <2>4. QED
    BY <2>2, <2>3
<1>5. ASSUME NEW r \in Clients, PropagateBIALevel(r)
      PROVE  SettledOrOwed'
  <2> DEFINE W == {b \in Assets : <<request[r].x, b>> \in links}
  <2>1. /\ Disturbed(Clients \ {r}, {}) /\ tier' = tier /\ links' = links /\ level' = level
        /\ adrift' = adrift /\ request[r].op = "update" /\ request'[r].x = request[r].x
        /\ HasComputed(r, "propagate", W, links)
    BY <1>0, <1>5, PropagateShape
  <2>2. \A a \in W : StillOwed(a)'
    BY <2>1 DEF StillOwed, HasComputed
  <2>3. ASSUME NEW a \in Assets \ W, StillOwed(a)
        PROVE  StillOwed(a)'
    <3>1. PICK c \in Clients : /\ request[c].op \in {"update", "propagate"} /\ <<request[c].x, a>> \in links
                               /\ request[c].op = "propagate" => a \in DOMAIN request[c].found
      BY <2>3 DEF StillOwed
    <3>2. c \in Clients \ {r}
      BY <3>1
    <3>3. QED
      BY <1>0, <2>1, <3>1, <3>2, StaysOwed
  <2>4. SameElsewhere({})
    BY <2>1 DEF SameElsewhere
  <2>5. \A a \in Assets \ W : Settled(a)'
    BY <1>0, <2>1, <2>3, <2>4, StaysSettled
  <2>6. \A a \in W : Settled(a)'
    BY <2>2 DEF Settled
  <2>7. QED
    BY <2>5, <2>6
<1>6. ASSUME NEW r \in Clients, Fails(r)
      PROVE  SettledOrOwed'
  <2>1. /\ Disturbed(Clients \ {r}, {}) /\ tier' = tier /\ links' = links /\ level' = level
        /\ adrift \subseteq adrift'
        /\ request[r].op \in {"update", "propagate"} => Reached(request[r].x) \subseteq adrift'
    BY <1>0, <1>6, FailsShape
  <2>2. ASSUME NEW a \in Assets, StillOwed(a)
        PROVE  a \in adrift' \/ StillOwed(a)'
    <3>1. PICK c \in Clients : /\ request[c].op \in {"update", "propagate"} /\ <<request[c].x, a>> \in links
                               /\ request[c].op = "propagate" => a \in DOMAIN request[c].found
      BY <2>2 DEF StillOwed
    <3>2. CASE c = r
      BY <2>1, <3>1, <3>2 DEF Reached
    <3>3. CASE c # r
      BY <1>0, <2>1, <3>1, <3>3, StaysOwed
    <3>4. QED
      BY <3>2, <3>3
  <2>3. SameElsewhere({})
    BY <2>1 DEF SameElsewhere
  <2>4. QED
    BY <1>0, <2>1, <2>2, <2>3, StaysSettled
<1>7. ASSUME NEW x \in Assessments, DeleteAssessment(x)
      PROVE  SettledOrOwed'
  <2>1. /\ Disturbed(Clients, Reached(x)) /\ links' = {l \in links : l[1] # x} /\ level' = level
        /\ adrift' = adrift \cup Reached(x)
        /\ \A y \in Assessments \ {x} : tier'[y] = tier[y]
    BY <1>0, <1>7, DeletionShape
  <2>2. SameElsewhere(Reached(x)) /\ \A a \in Assets \ Reached(x) : <<x, a>> \notin links
    BY <2>1 DEF SameElsewhere, Reached
  <2>3. ASSUME NEW a \in Assets \ Reached(x), StillOwed(a)
        PROVE  StillOwed(a)'
    <3>1. PICK c \in Clients : /\ request[c].op \in {"update", "propagate"} /\ <<request[c].x, a>> \in links
                               /\ request[c].op = "propagate" => a \in DOMAIN request[c].found
      BY <2>3 DEF StillOwed
    <3>2. \A y \in Assessments : <<y, a>> \in links => <<y, a>> \in links'
      BY <2>1, <2>2
    <3>3. QED
      BY <1>0, <2>1, <3>1, <3>2, StaysOwed
  <2>4. \A a \in Assets \ Reached(x) : Settled(a)'
    BY <1>0, <2>1, <2>2, <2>3, StaysSettled
  <2>5. QED
    BY <2>1, <2>4 DEF Settled
<1>8. ASSUME NEW b \in Assets, NEW l \in Tiers, UpdateAsset(b, l)
      PROVE  SettledOrOwed'
  <2>1. /\ tier' = tier /\ links' = links /\ request' = request /\ adrift' = adrift \cup {b}
        /\ \A a \in Assets \ {b} : level'[a] = level[a]
    BY <1>8 DEF UpdateAsset, ImpactTypeOK
  <2>2. SameElsewhere({b}) /\ \A a \in Assets : StillOwed(a) => StillOwed(a)'
    BY <2>1 DEF SameElsewhere, StillOwed
  <2>3. \A a \in Assets \ {b} : Settled(a)'
    BY <1>0, <2>1, <2>2, StaysSettled
  <2>4. QED
    BY <2>1, <2>3 DEF Settled
<1>9. CASE UNCHANGED impactVars
  BY <1>0, <1>9 DEF impactVars, Settled, StillOwed, Lev, Depending
<1>10. QED
  BY <1>1, <1>2, <1>3, <1>4, <1>5, <1>6, <1>7, <1>8, <1>9 DEF ImpactNext

\* The invariant that the levels rest on.
LEMMA ImpactInvariant == ImpactSpec => []ImpactInv
<1>1. ImpactInit => ImpactInv
  <2>1. ImpactInit => ImpactTypeOK /\ LinksExist /\ ComputedIsRight
    BY TiersAssumption DEF ImpactInit, ImpactTypeOK, ImpactLevels, Requests, NoRequest, LinksExist, ComputedIsRight,
       RightAt, Kinds
  <2>2. ASSUME ImpactInit, NEW a \in Assets
        PROVE  Settled(a)
    <3>1. Depending(links, a) = {} /\ level[a] = "normal"
      BY <2>2 DEF ImpactInit, Depending
    <3>2. Lev(tier, links, a) = MaxTier({})
      BY <3>1 DEF Lev
    <3>3. QED
      BY <3>1, <3>2 DEF Settled, MaxTier
  <2>3. QED
    BY <2>1, <2>2 DEF ImpactInv, SettledOrOwed
<1>2. ImpactInv /\ [ImpactNext]_impactVars => ImpactInv'
  BY ImpactTypeStep, LinksExistStep, ComputedStep, SettledStep DEF ImpactInv
<1>3. QED
  BY <1>1, <1>2, PTL DEF ImpactSpec

\* The level of every asset is the highest tier of the assessments it is linked to, unless a propagation is owed,
\* or requests have overlapped at it, however creations, deletions and changes of tiers interleave (bia/service.go).
THEOREM LevelsFollow == ImpactSpec => []LevelFollowsTiers
<1>1. ImpactInv => LevelFollowsTiers
  <2>1. \A a \in Assets : LevelOf(links, a) = Lev(tier, links, a)
    BY DEF LevelOf, Lev
  <2>2. \A a \in Assets : StillOwed(a) => Owed(a)
    BY DEF StillOwed, Owed
  <2>3. QED
    BY <2>1, <2>2 DEF ImpactInv, SettledOrOwed, Settled, LevelFollowsTiers
<1>2. QED
  BY <1>1, ImpactInvariant, PTL

------------------------------------------------------------------------------
(***************************************************************************)
(* Racks: no unit holds two assets, and an asset's rack is that of its     *)
(* slots, for any racks, assets, units and requests.                       *)
(*                                                                         *)
(* RackInv follows a request from its check to its last statement: what    *)
(* it has checked is free unless a slot has gone in since (CheckHolds),    *)
(* one that has met no other is alone at its asset and finds its slot      *)
(* (UnmetIsAlone, UnmetSlotIsThere), an asset in two racks is in doubt     *)
(* (OneRackEach), one that nobody has written at has the rack of its       *)
(* slots (QuietAgrees), and a removal on its own leaves the other slots    *)
(* where the rack_id says until there are none (RemovalIsOnItsWay).        *)
(***************************************************************************)

Slot == [id : Nat, rack : Racks, asset : Equipment, start : Units, end : Units, side : Sides, blind : BOOLEAN]
Creating == [op : {"create"}, at : {"checked", "inserted"}, slot : Slot, met : BOOLEAN]
Deleting == [op : {"delete"}, at : {"read", "deleted", "last"}, slot : Slot, met : BOOLEAN]

RackTypeOK ==
    /\ slots \subseteq Slot
    /\ rackOf \in [Equipment -> Racks \cup {NoRack}]
    /\ mount \in [Mounters -> {Free} \cup Creating \cup Deleting]
    /\ mounts \in Nat

\* What a request has checked is free while no other slot has gone in since.
CheckHolds ==
    \A m \in Mounters : mount[m].op = "create" /\ mount[m].at = "checked" /\ ~mount[m].slot.blind =>
        \A o \in slots : o.rack = mount[m].slot.rack /\ o.side = mount[m].slot.side
                        => ~Overlaps(o, mount[m].slot.start, mount[m].slot.end)

\* A request that has met no other is alone at its asset, and its slot is where it was.
UnmetIsAlone ==
    \A m \in Mounters, x \in Mounters : \A a \in Equipment :
        AtWork(m, a) /\ ~mount[m].met /\ AtWork(x, a) => x = m
UnmetSlotIsThere ==
    \A m \in Mounters : mount[m].op # "none" /\ mount[m].at \in {"inserted", "read"} /\ ~mount[m].met
        => mount[m].slot \in slots

\* An asset in two racks at once is in doubt.
OneRackEach == \A s \in slots, o \in slots : s.asset = o.asset /\ s.rack # o.rack => s.asset \in astray

Agrees(a) == \A r \in Racks : rackOf[a] = r <=> \E s \in slots : s.asset = a /\ s.rack = r

\* While no one has written, the rack of an asset not in doubt agrees.
QuietAgrees ==
    \A a \in Equipment :
        a \notin astray /\ (\A m \in Mounters : AtWork(m, a) => mount[m].at = "read") => Agrees(a)

\* A removal on its own leaves the rest of the asset's slots where its rack_id says, until
\* there are none.
RemovalIsOnItsWay ==
    \A m \in Mounters :
        LET s == mount[m].slot IN
        mount[m].op = "delete" /\ mount[m].at \in {"deleted", "last"} /\ ~mount[m].met /\ s.asset \notin astray =>
            /\ rackOf[s.asset] = s.rack
            /\ \A o \in slots : o.asset = s.asset => mount[m].at = "deleted" /\ o.rack = s.rack

RackInv == /\ RackTypeOK /\ CheckHolds /\ UnmetIsAlone /\ UnmetSlotIsThere /\ OneRackEach
           /\ QuietAgrees /\ RemovalIsOnItsWay /\ SlotsDisjointUnlessBlind

\* What a request that starts to work on an asset does to the requests: it meets, and is met
\* by, those at work there, and nothing else of them changes.
LEMMA BeginsShape ==
    ASSUME RackTypeOK, NEW m \in Mounters, NEW s \in Slot,
           NEW op \in {"create", "delete"}, NEW at \in {"inserted", "read"},
           op = "create" <=> at = "inserted"
    PROVE  LET b == Begins(m, Doing(op, at, s)) IN
           /\ b \in [Mounters -> {Free} \cup Creating \cup Deleting]
           /\ b[m].op = op /\ b[m].at = at /\ b[m].slot = s
           /\ b[m].met <=> \E x \in Mounters \ {m} : AtWork(x, s.asset)
           /\ \A x \in Mounters \ {m} : ~AtWork(x, s.asset) => b[x] = mount[x]
           /\ \A x \in Mounters \ {m} : AtWork(x, s.asset) =>
                  /\ b[x].op = mount[x].op /\ b[x].at = mount[x].at /\ b[x].slot = mount[x].slot
                  /\ b[x].met
<1> DEFINE b == Begins(m, Doing(op, at, s))
           d == Doing(op, at, s)
           others == {x \in Mounters \ {m} : AtWork(x, s.asset)}
<1>1. d = [op |-> op, at |-> at, slot |-> s, met |-> FALSE]
  BY DEF Doing
<1>2. \A x \in Mounters : b[x] = IF x = m THEN [d EXCEPT !.met = others # {}]
                                 ELSE IF x \in others THEN [mount[x] EXCEPT !.met = TRUE]
                                 ELSE mount[x]
  BY <1>1 DEF Begins
<1>3. b[m] = [op |-> op, at |-> at, slot |-> s, met |-> others # {}]
  <2>1. b[m] = [d EXCEPT !.met = others # {}]
    BY <1>2
  <2>2. QED
    BY <1>1, <2>1
<1>4. b[m] \in Creating \cup Deleting
  BY <1>3 DEF Creating, Deleting
<1>5. ASSUME NEW x \in others
      PROVE  /\ b[x] = [op |-> mount[x].op, at |-> mount[x].at, slot |-> mount[x].slot, met |-> TRUE]
             /\ b[x] \in Creating \cup Deleting
  <2>1. x \in Mounters /\ mount[x] \in Creating \cup Deleting
    BY DEF RackTypeOK, AtWork, Free
  <2>2. b[x] = [mount[x] EXCEPT !.met = TRUE]
    BY <1>2
  <2>3. QED
    BY <2>1, <2>2 DEF Creating, Deleting
<1>6. b \in [Mounters -> {Free} \cup Creating \cup Deleting]
  <2>1. \A x \in Mounters : b[x] \in {Free} \cup Creating \cup Deleting
    BY <1>2, <1>4, <1>5 DEF RackTypeOK
  <2>2. QED
    BY <2>1 DEF Begins
<1>7. \A x \in Mounters \ {m} : ~AtWork(x, s.asset) => b[x] = mount[x]
  BY <1>2
<1>8. b[m].op = op /\ b[m].at = at /\ b[m].slot = s /\ (b[m].met <=> others # {})
  <2>1. b[m].op = op /\ b[m].at = at /\ b[m].slot = s
    BY <1>3
  <2>2. b[m].met = (others # {})
    BY <1>3
  <2>3. QED
    BY <2>1, <2>2
<1>9. ASSUME NEW x \in Mounters \ {m}, AtWork(x, s.asset)
      PROVE  b[x].op = mount[x].op /\ b[x].at = mount[x].at /\ b[x].slot = mount[x].slot /\ b[x].met
  <2>1. x \in others
    BY <1>9
  <2>2. b[x] = [op |-> mount[x].op, at |-> mount[x].at, slot |-> mount[x].slot, met |-> TRUE]
    BY <1>5, <2>1
  <2>3. QED
    BY <2>2
<1>10. others # {} <=> \E x \in Mounters \ {m} : AtWork(x, s.asset)
  OBVIOUS
<1>11. QED
  BY <1>6, <1>7, <1>8, <1>9, <1>10

\* What an INSERT of a slot does: nothing, or the slot is there, the requests at work on the
\* asset have met it, and those that have only checked are blind to it.
LEMMA InsertShape ==
    ASSUME RackTypeOK, NEW m \in Mounters, CreateRackSlot(m)
    PROVE  LET s == mount[m].slot IN
           /\ mount[m].op = "create" /\ mount[m].at = "checked" /\ s \in Slot
           /\ mount' \in [Mounters -> {Free} \cup Creating \cup Deleting]
           /\ rackOf' = rackOf /\ racks' = racks /\ mounts' = mounts
           /\ \/ slots' = slots /\ astray' = astray /\ mount' = [mount EXCEPT ![m] = Free]
              \/ /\ slots' = slots \cup {s}
                 /\ astray' = IF MountedElsewhere(s.asset, s.rack) THEN astray \cup {s.asset} ELSE astray
                 /\ mount'[m].op = "create" /\ mount'[m].at = "inserted" /\ mount'[m].slot = s
                 /\ mount'[m].met <=> \E x \in Mounters \ {m} : AtWork(x, s.asset)
                 /\ \A x \in Mounters \ {m} :
                       /\ mount'[x].op = mount[x].op
                       /\ mount[x].op # "none" => mount'[x].at = mount[x].at
                       /\ mount[x].op # "none" /\ mount[x].at # "checked" => mount'[x].slot = mount[x].slot
                       /\ AtWork(x, s.asset) => mount'[x].met
                       /\ mount[x].op # "none" /\ ~AtWork(x, s.asset) => mount'[x].met = mount[x].met
                       /\ mount[x].op = "create" /\ mount[x].at = "checked" => mount'[x].slot.blind
<1> DEFINE s == mount[m].slot
           busy == Begins(m, Doing("create", "inserted", s))
<1>1. mount[m].op = "create" /\ mount[m].at = "checked" /\ s \in Slot
  BY DEF CreateRackSlot, RackTypeOK, Free, Creating, Deleting
<1>2. CASE slots' = slots /\ astray' = astray /\ mount' = [mount EXCEPT ![m] = Free]
  BY <1>1, <1>2 DEF CreateRackSlot, RackTypeOK
<1>3. CASE /\ slots' = slots \cup {s}
           /\ mount' = [x \in Mounters |->
                IF busy[x].op = "create" /\ busy[x].at = "checked"
                THEN [busy[x] EXCEPT !.slot.blind = TRUE] ELSE busy[x]]
           /\ astray' = IF MountedElsewhere(s.asset, s.rack) THEN astray \cup {s.asset} ELSE astray
  <2>1. /\ busy \in [Mounters -> {Free} \cup Creating \cup Deleting]
        /\ busy[m].op = "create" /\ busy[m].at = "inserted" /\ busy[m].slot = s
        /\ busy[m].met <=> \E x \in Mounters \ {m} : AtWork(x, s.asset)
        /\ \A x \in Mounters \ {m} : ~AtWork(x, s.asset) => busy[x] = mount[x]
        /\ \A x \in Mounters \ {m} : AtWork(x, s.asset) =>
               /\ busy[x].op = mount[x].op /\ busy[x].at = mount[x].at /\ busy[x].slot = mount[x].slot
               /\ busy[x].met
    BY <1>1, BeginsShape
  <2> HIDE DEF busy
  <2>2. \A x \in Mounters : ~(busy[x].op = "create" /\ busy[x].at = "checked") => mount'[x] = busy[x]
    BY <1>3
  <2>3. ASSUME NEW x \in Mounters, busy[x].op = "create" /\ busy[x].at = "checked"
        PROVE  /\ mount'[x] \in Creating
               /\ mount'[x].op = busy[x].op /\ mount'[x].at = busy[x].at /\ mount'[x].met = busy[x].met
               /\ mount'[x].slot.blind
    <3>1. busy[x] \in Creating
      BY <2>1, <2>3 DEF Free, Deleting
    <3>2. mount'[x] = [busy[x] EXCEPT !.slot.blind = TRUE]
      BY <1>3, <2>3
    <3>3. mount'[x] = [op |-> busy[x].op, at |-> busy[x].at,
                       slot |-> [busy[x].slot EXCEPT !.blind = TRUE], met |-> busy[x].met]
      BY <3>1, <3>2 DEF Creating
    <3>4. [busy[x].slot EXCEPT !.blind = TRUE] \in Slot /\ [busy[x].slot EXCEPT !.blind = TRUE].blind
      BY <3>1 DEF Creating, Slot
    <3>5. busy[x].op \in {"create"} /\ busy[x].at \in {"checked", "inserted"} /\ busy[x].met \in BOOLEAN
      BY <3>1 DEF Creating
    <3>6. mount'[x] \in Creating
      BY <3>3, <3>4, <3>5 DEF Creating
    <3>7. /\ mount'[x].op = busy[x].op /\ mount'[x].at = busy[x].at /\ mount'[x].met = busy[x].met
          /\ mount'[x].slot = [busy[x].slot EXCEPT !.blind = TRUE]
      BY <3>3
    <3>8. QED
      BY <3>4, <3>6, <3>7
  <2>4. mount' \in [Mounters -> {Free} \cup Creating \cup Deleting]
    <3>1. \A x \in Mounters : mount'[x] \in {Free} \cup Creating \cup Deleting
      BY <2>1, <2>2, <2>3
    <3>2. QED
      BY <1>3, <3>1
  <2>5. mount'[m].op = "create" /\ mount'[m].at = "inserted" /\ mount'[m].slot = s
        /\ (mount'[m].met <=> \E x \in Mounters \ {m} : AtWork(x, s.asset))
    BY <2>1, <2>2
  <2>6. ASSUME NEW x \in Mounters \ {m}
        PROVE  /\ mount'[x].op = mount[x].op
               /\ mount[x].op # "none" => mount'[x].at = mount[x].at
               /\ mount[x].op # "none" /\ mount[x].at # "checked" => mount'[x].slot = mount[x].slot
               /\ AtWork(x, s.asset) => mount'[x].met
               /\ mount[x].op # "none" /\ ~AtWork(x, s.asset) => mount'[x].met = mount[x].met
               /\ mount[x].op = "create" /\ mount[x].at = "checked" => mount'[x].slot.blind
    <3>1. CASE AtWork(x, s.asset)
      BY <2>1, <2>2, <3>1 DEF AtWork
    <3>2. CASE ~AtWork(x, s.asset)
      BY <2>1, <2>2, <2>3, <3>2
    <3>3. QED
      BY <3>1, <3>2
  <2>7. rackOf' = rackOf /\ racks' = racks /\ mounts' = mounts
    BY DEF CreateRackSlot
  <2>8. QED
    BY <1>1, <1>3, <2>4, <2>5, <2>6, <2>7
<1>4. QED
  BY <1>2, <1>3 DEF CreateRackSlot, Finishes

\* What the read of a removal does: nothing but begin.
LEMMA ReadShape ==
    ASSUME RackTypeOK, NEW m \in Mounters, NEW s \in slots, ReadSlot(m, s)
    PROVE  /\ s \in Slot /\ mount[m] = Free
           /\ racks' = racks /\ slots' = slots /\ rackOf' = rackOf /\ astray' = astray /\ mounts' = mounts
           /\ mount' \in [Mounters -> {Free} \cup Creating \cup Deleting]
           /\ mount'[m].op = "delete" /\ mount'[m].at = "read" /\ mount'[m].slot = s
           /\ mount'[m].met <=> \E x \in Mounters \ {m} : AtWork(x, s.asset)
           /\ \A x \in Mounters \ {m} : ~AtWork(x, s.asset) => mount'[x] = mount[x]
           /\ \A x \in Mounters \ {m} : AtWork(x, s.asset) =>
                  /\ mount'[x].op = mount[x].op /\ mount'[x].at = mount[x].at
                  /\ mount'[x].slot = mount[x].slot /\ mount'[x].met
<1>1. /\ s \in Slot /\ mount' = Begins(m, Doing("delete", "read", s))
      /\ racks' = racks /\ slots' = slots /\ rackOf' = rackOf /\ astray' = astray /\ mounts' = mounts
      /\ mount[m] = Free
  BY DEF ReadSlot, RackTypeOK
<1>2. QED
  BY <1>1, BeginsShape


\* The type of the rack rows, the slots and the requests holds across every step.
LEMMA RackTypeStep ==
    ASSUME RackTypeOK, [RackNext]_rackVars
    PROVE  RackTypeOK'
<1>1. ASSUME NEW m \in Mounters, NEW r \in Racks, NEW a \in Equipment, NEW first \in Units, NEW last \in Units, NEW side \in Sides, CheckSlot(m, r, a, first, last, side)
      PROVE  RackTypeOK'
  BY <1>1, RacksAssumption DEF CheckSlot, Doing, RackTypeOK, Slot, Creating, Deleting, Free
<1>2. ASSUME NEW m \in Mounters, CreateRackSlot(m)
      PROVE  RackTypeOK'
  BY <1>2, InsertShape DEF RackTypeOK
<1>3. ASSUME NEW m \in Mounters, SyncRackID(m)
      PROVE  RackTypeOK'
  BY <1>3, RacksAssumption DEF SyncRackID, Finishes, Free, InDoubt, MountedElsewhere,
     RackTypeOK, Slot, Creating, Deleting
<1>4. ASSUME NEW m \in Mounters, NEW s \in slots, ReadSlot(m, s)
      PROVE  RackTypeOK'
  BY <1>4, ReadShape DEF RackTypeOK
<1>5. ASSUME NEW m \in Mounters, DeleteRackSlot(m)
      PROVE  RackTypeOK'
  BY <1>5, RacksAssumption DEF DeleteRackSlot, RackTypeOK, Slot, Creating, Deleting, Free
<1>6. ASSUME NEW m \in Mounters, CountRemaining(m)
      PROVE  RackTypeOK'
  BY <1>6, RacksAssumption DEF CountRemaining, Finishes, Free, InDoubt, SlotsOf, RackTypeOK,
     Slot, Creating, Deleting
<1>7. ASSUME NEW m \in Mounters, ClearRackID(m)
      PROVE  RackTypeOK'
  BY <1>7, RacksAssumption DEF ClearRackID, Finishes, Free, InDoubt, RackTypeOK, Slot,
     Creating, Deleting
<1>8. ASSUME NEW m \in Mounters, CountFails(m)
      PROVE  RackTypeOK'
  BY <1>8, RacksAssumption DEF CountFails, RackTypeOK, Slot, Creating, Deleting, Free
<1>9. ASSUME NEW m \in Mounters, Lapse(m)
      PROVE  RackTypeOK'
  BY <1>9, RacksAssumption DEF Lapse, Finishes, Free, RackTypeOK, Slot, Creating, Deleting
<1>10. ASSUME NEW r \in Racks, NEW total \in Units, UpdateRack(r, total)
       PROVE  RackTypeOK'
  BY <1>10, RacksAssumption DEF UpdateRack, RackTypeOK, Slot, Creating, Deleting, Free
<1>11. ASSUME NEW r \in Racks, DeleteRack(r)
       PROVE  RackTypeOK'
  BY <1>11, RacksAssumption DEF DeleteRack, RackTypeOK, Slot, Creating, Deleting, Free
<1>12. ASSUME NEW a \in Equipment, NEW r \in Racks, SetRackByHand(a, r)
       PROVE  RackTypeOK'
  <2>1. ASSUME NEW m \in Mounters
        PROVE  mount'[m] \in {Free} \cup Creating \cup Deleting
    <3>1. mount'[m] = IF AtWork(m, a) THEN [mount[m] EXCEPT !.met = TRUE] ELSE mount[m]
      BY <1>12 DEF SetRackByHand
    <3>2. mount[m] \in {Free} \cup Creating \cup Deleting
      BY DEF RackTypeOK
    <3>3. AtWork(m, a) => mount[m].op # "none"
      BY DEF AtWork
    <3>4. QED
      BY <3>1, <3>2, <3>3 DEF Free, Creating, Deleting
  <2>2. QED
    BY <1>12, <2>1 DEF SetRackByHand, RackTypeOK
<1>13. CASE UNCHANGED rackVars
  BY <1>13 DEF rackVars, RackTypeOK, Slot, Creating, Deleting, Free
<1>14. QED
  BY <1>1, <1>2, <1>3, <1>4, <1>5, <1>6, <1>7, <1>8, <1>9, <1>10, <1>11, <1>12, <1>13 DEF
     RackNext

\* An INSERT marks every request that has only checked, and no other step adds a slot.
LEMMA CheckHoldsStep ==
    ASSUME RackTypeOK, CheckHolds, [RackNext]_rackVars
    PROVE  CheckHolds'
<1>1. ASSUME NEW m \in Mounters, NEW r \in Racks, NEW a \in Equipment, NEW first \in Units, NEW last \in Units, NEW side \in Sides, CheckSlot(m, r, a, first, last, side)
      PROVE  CheckHolds'
  BY <1>1, RacksAssumption DEF CheckSlot, Doing, RackTypeOK, Slot, Creating, Deleting, Free,
     CheckHolds, CheckSlotConflict
<1>2. ASSUME NEW m \in Mounters, CreateRackSlot(m)
      PROVE  CheckHolds'
  BY <1>2, InsertShape DEF CheckHolds, RackTypeOK, Free
<1>3. ASSUME NEW m \in Mounters, SyncRackID(m)
      PROVE  CheckHolds'
  BY <1>3, RacksAssumption DEF SyncRackID, Finishes, Free, InDoubt, MountedElsewhere,
     RackTypeOK, Slot, Creating, Deleting, CheckHolds, CheckSlotConflict
<1>4. ASSUME NEW m \in Mounters, NEW s \in slots, ReadSlot(m, s)
      PROVE  CheckHolds'
  BY <1>4, ReadShape DEF CheckHolds, AtWork, Free
<1>5. ASSUME NEW m \in Mounters, DeleteRackSlot(m)
      PROVE  CheckHolds'
  BY <1>5, RacksAssumption DEF DeleteRackSlot, RackTypeOK, Slot, Creating, Deleting, Free,
     CheckHolds, CheckSlotConflict
<1>6. ASSUME NEW m \in Mounters, CountRemaining(m)
      PROVE  CheckHolds'
  BY <1>6, RacksAssumption DEF CountRemaining, Finishes, Free, InDoubt, SlotsOf, RackTypeOK,
     Slot, Creating, Deleting, CheckHolds, CheckSlotConflict
<1>7. ASSUME NEW m \in Mounters, ClearRackID(m)
      PROVE  CheckHolds'
  BY <1>7, RacksAssumption DEF ClearRackID, Finishes, Free, InDoubt, RackTypeOK, Slot,
     Creating, Deleting, CheckHolds, CheckSlotConflict
<1>8. ASSUME NEW m \in Mounters, CountFails(m)
      PROVE  CheckHolds'
  BY <1>8, RacksAssumption DEF CountFails, RackTypeOK, Slot, Creating, Deleting, Free,
     CheckHolds, CheckSlotConflict
<1>9. ASSUME NEW m \in Mounters, Lapse(m)
      PROVE  CheckHolds'
  BY <1>9, RacksAssumption DEF Lapse, Finishes, Free, RackTypeOK, Slot, Creating, Deleting,
     CheckHolds, CheckSlotConflict
<1>10. ASSUME NEW r \in Racks, NEW total \in Units, UpdateRack(r, total)
       PROVE  CheckHolds'
  BY <1>10, RacksAssumption DEF UpdateRack, RackTypeOK, Slot, Creating, Deleting, Free,
     CheckHolds, CheckSlotConflict
<1>11. ASSUME NEW r \in Racks, DeleteRack(r)
       PROVE  CheckHolds'
  BY <1>11, RacksAssumption DEF DeleteRack, RackTypeOK, Slot, Creating, Deleting, Free,
     CheckHolds, CheckSlotConflict
<1>12. ASSUME NEW a \in Equipment, NEW r \in Racks, SetRackByHand(a, r)
       PROVE  CheckHolds'
  BY <1>12, RacksAssumption DEF SetRackByHand, RackTypeOK, Slot, Creating, Deleting, Free,
     CheckHolds, CheckSlotConflict
<1>13. CASE UNCHANGED rackVars
  BY <1>13 DEF rackVars, RackTypeOK, Slot, Creating, Deleting, Free, CheckHolds,
     CheckSlotConflict
<1>14. QED
  BY <1>1, <1>2, <1>3, <1>4, <1>5, <1>6, <1>7, <1>8, <1>9, <1>10, <1>11, <1>12, <1>13 DEF
     RackNext

\* A request that starts at an asset meets those at work there and is met by them.
LEMMA UnmetIsAloneStep ==
    ASSUME RackTypeOK, UnmetIsAlone, [RackNext]_rackVars
    PROVE  UnmetIsAlone'
<1>1. ASSUME NEW m \in Mounters, NEW r \in Racks, NEW a \in Equipment, NEW first \in Units, NEW last \in Units, NEW side \in Sides, CheckSlot(m, r, a, first, last, side)
      PROVE  UnmetIsAlone'
  BY <1>1, RacksAssumption DEF CheckSlot, Doing, RackTypeOK, Slot, Creating, Deleting, Free,
     UnmetIsAlone, AtWork
<1>2. ASSUME NEW m \in Mounters, CreateRackSlot(m)
      PROVE  UnmetIsAlone'
  BY <1>2, InsertShape DEF UnmetIsAlone, AtWork, RackTypeOK, Free
<1>3. ASSUME NEW m \in Mounters, SyncRackID(m)
      PROVE  UnmetIsAlone'
  BY <1>3, RacksAssumption DEF SyncRackID, Finishes, Free, InDoubt, MountedElsewhere,
     RackTypeOK, Slot, Creating, Deleting, UnmetIsAlone, AtWork
<1>4. ASSUME NEW m \in Mounters, NEW s \in slots, ReadSlot(m, s)
      PROVE  UnmetIsAlone'
  BY <1>4, ReadShape DEF UnmetIsAlone, AtWork, Free
<1>5. ASSUME NEW m \in Mounters, DeleteRackSlot(m)
      PROVE  UnmetIsAlone'
  BY <1>5, RacksAssumption DEF DeleteRackSlot, RackTypeOK, Slot, Creating, Deleting, Free,
     UnmetIsAlone, AtWork
<1>6. ASSUME NEW m \in Mounters, CountRemaining(m)
      PROVE  UnmetIsAlone'
  BY <1>6, RacksAssumption DEF CountRemaining, Finishes, Free, InDoubt, SlotsOf, RackTypeOK,
     Slot, Creating, Deleting, UnmetIsAlone, AtWork
<1>7. ASSUME NEW m \in Mounters, ClearRackID(m)
      PROVE  UnmetIsAlone'
  BY <1>7, RacksAssumption DEF ClearRackID, Finishes, Free, InDoubt, RackTypeOK, Slot,
     Creating, Deleting, UnmetIsAlone, AtWork
<1>8. ASSUME NEW m \in Mounters, CountFails(m)
      PROVE  UnmetIsAlone'
  BY <1>8, RacksAssumption DEF CountFails, RackTypeOK, Slot, Creating, Deleting, Free,
     UnmetIsAlone, AtWork
<1>9. ASSUME NEW m \in Mounters, Lapse(m)
      PROVE  UnmetIsAlone'
  BY <1>9, RacksAssumption DEF Lapse, Finishes, Free, RackTypeOK, Slot, Creating, Deleting,
     UnmetIsAlone, AtWork
<1>10. ASSUME NEW r \in Racks, NEW total \in Units, UpdateRack(r, total)
       PROVE  UnmetIsAlone'
  BY <1>10, RacksAssumption DEF UpdateRack, RackTypeOK, Slot, Creating, Deleting, Free,
     UnmetIsAlone, AtWork
<1>11. ASSUME NEW r \in Racks, DeleteRack(r)
       PROVE  UnmetIsAlone'
  BY <1>11, RacksAssumption DEF DeleteRack, RackTypeOK, Slot, Creating, Deleting, Free,
     UnmetIsAlone, AtWork
<1>12. ASSUME NEW a \in Equipment, NEW r \in Racks, SetRackByHand(a, r)
       PROVE  UnmetIsAlone'
  BY <1>12, RacksAssumption DEF SetRackByHand, RackTypeOK, Slot, Creating, Deleting, Free,
     UnmetIsAlone, AtWork
<1>13. CASE UNCHANGED rackVars
  BY <1>13 DEF rackVars, RackTypeOK, Slot, Creating, Deleting, Free, UnmetIsAlone, AtWork
<1>14. QED
  BY <1>1, <1>2, <1>3, <1>4, <1>5, <1>6, <1>7, <1>8, <1>9, <1>10, <1>11, <1>12, <1>13 DEF
     RackNext

\* Only a removal takes a slot away, and a request that works on the same asset has met it.
LEMMA UnmetSlotStep ==
    ASSUME RackTypeOK, UnmetIsAlone, UnmetSlotIsThere, [RackNext]_rackVars
    PROVE  UnmetSlotIsThere'
<1>1. ASSUME NEW m \in Mounters, NEW r \in Racks, NEW a \in Equipment, NEW first \in Units, NEW last \in Units, NEW side \in Sides, CheckSlot(m, r, a, first, last, side)
      PROVE  UnmetSlotIsThere'
  BY <1>1, RacksAssumption DEF CheckSlot, Doing, RackTypeOK, Slot, Creating, Deleting, Free,
     UnmetIsAlone, UnmetSlotIsThere, AtWork
<1>2. ASSUME NEW m \in Mounters, CreateRackSlot(m)
      PROVE  UnmetSlotIsThere'
  BY <1>2, InsertShape DEF UnmetSlotIsThere, AtWork, RackTypeOK, Free
<1>3. ASSUME NEW m \in Mounters, SyncRackID(m)
      PROVE  UnmetSlotIsThere'
  BY <1>3, RacksAssumption DEF SyncRackID, Finishes, Free, InDoubt, MountedElsewhere,
     RackTypeOK, Slot, Creating, Deleting, UnmetIsAlone, UnmetSlotIsThere, AtWork
<1>4. ASSUME NEW m \in Mounters, NEW s \in slots, ReadSlot(m, s)
      PROVE  UnmetSlotIsThere'
  BY <1>4, RacksAssumption DEF ReadSlot, Begins, Doing, Free, RackTypeOK, Slot, Creating,
     Deleting, UnmetIsAlone, UnmetSlotIsThere, AtWork
<1>5. ASSUME NEW m \in Mounters, DeleteRackSlot(m)
      PROVE  UnmetSlotIsThere'
  BY <1>5, RacksAssumption DEF DeleteRackSlot, RackTypeOK, Slot, Creating, Deleting, Free,
     UnmetIsAlone, UnmetSlotIsThere, AtWork
<1>6. ASSUME NEW m \in Mounters, CountRemaining(m)
      PROVE  UnmetSlotIsThere'
  BY <1>6, RacksAssumption DEF CountRemaining, Finishes, Free, InDoubt, SlotsOf, RackTypeOK,
     Slot, Creating, Deleting, UnmetIsAlone, UnmetSlotIsThere, AtWork
<1>7. ASSUME NEW m \in Mounters, ClearRackID(m)
      PROVE  UnmetSlotIsThere'
  BY <1>7, RacksAssumption DEF ClearRackID, Finishes, Free, InDoubt, RackTypeOK, Slot,
     Creating, Deleting, UnmetIsAlone, UnmetSlotIsThere, AtWork
<1>8. ASSUME NEW m \in Mounters, CountFails(m)
      PROVE  UnmetSlotIsThere'
  BY <1>8, RacksAssumption DEF CountFails, RackTypeOK, Slot, Creating, Deleting, Free,
     UnmetIsAlone, UnmetSlotIsThere, AtWork
<1>9. ASSUME NEW m \in Mounters, Lapse(m)
      PROVE  UnmetSlotIsThere'
  BY <1>9, RacksAssumption DEF Lapse, Finishes, Free, RackTypeOK, Slot, Creating, Deleting,
     UnmetIsAlone, UnmetSlotIsThere, AtWork
<1>10. ASSUME NEW r \in Racks, NEW total \in Units, UpdateRack(r, total)
       PROVE  UnmetSlotIsThere'
  BY <1>10, RacksAssumption DEF UpdateRack, RackTypeOK, Slot, Creating, Deleting, Free,
     UnmetIsAlone, UnmetSlotIsThere, AtWork
<1>11. ASSUME NEW r \in Racks, DeleteRack(r)
       PROVE  UnmetSlotIsThere'
  BY <1>11, RacksAssumption DEF DeleteRack, RackTypeOK, Slot, Creating, Deleting, Free,
     UnmetIsAlone, UnmetSlotIsThere, AtWork
<1>12. ASSUME NEW a \in Equipment, NEW r \in Racks, SetRackByHand(a, r)
       PROVE  UnmetSlotIsThere'
  BY <1>12, RacksAssumption DEF SetRackByHand, RackTypeOK, Slot, Creating, Deleting, Free,
     UnmetIsAlone, UnmetSlotIsThere, AtWork
<1>13. CASE UNCHANGED rackVars
  BY <1>13 DEF rackVars, RackTypeOK, Slot, Creating, Deleting, Free, UnmetIsAlone,
     UnmetSlotIsThere, AtWork
<1>14. QED
  BY <1>1, <1>2, <1>3, <1>4, <1>5, <1>6, <1>7, <1>8, <1>9, <1>10, <1>11, <1>12, <1>13 DEF
     RackNext

\* A slot in a second rack puts its asset in doubt when it goes in.
LEMMA OneRackStep ==
    ASSUME RackTypeOK, OneRackEach, UnmetSlotIsThere, [RackNext]_rackVars
    PROVE  OneRackEach'
<1>1. ASSUME NEW m \in Mounters, NEW r \in Racks, NEW a \in Equipment, NEW first \in Units, NEW last \in Units, NEW side \in Sides, CheckSlot(m, r, a, first, last, side)
      PROVE  OneRackEach'
  BY <1>1, RacksAssumption DEF CheckSlot, Doing, RackTypeOK, Slot, Creating, Deleting, Free,
     OneRackEach, MountedElsewhere
<1>2. ASSUME NEW m \in Mounters, CreateRackSlot(m)
      PROVE  OneRackEach'
  BY <1>2, RacksAssumption DEF CreateRackSlot, Begins, Doing, Finishes, Free, MountedElsewhere,
     RackTypeOK, Slot, Creating, Deleting, OneRackEach
<1>3. ASSUME NEW m \in Mounters, SyncRackID(m)
      PROVE  OneRackEach'
  BY <1>3, RacksAssumption DEF SyncRackID, Finishes, Free, InDoubt, MountedElsewhere,
     RackTypeOK, Slot, Creating, Deleting, OneRackEach
<1>4. ASSUME NEW m \in Mounters, NEW s \in slots, ReadSlot(m, s)
      PROVE  OneRackEach'
  BY <1>4, RacksAssumption DEF ReadSlot, Begins, Doing, Free, RackTypeOK, Slot, Creating,
     Deleting, OneRackEach, MountedElsewhere
<1>5. ASSUME NEW m \in Mounters, DeleteRackSlot(m)
      PROVE  OneRackEach'
  BY <1>5, RacksAssumption DEF DeleteRackSlot, RackTypeOK, Slot, Creating, Deleting, Free,
     OneRackEach, MountedElsewhere
<1>6. ASSUME NEW m \in Mounters, CountRemaining(m)
      PROVE  OneRackEach'
  BY <1>6, RacksAssumption DEF CountRemaining, Finishes, Free, InDoubt, SlotsOf, RackTypeOK,
     Slot, Creating, Deleting, OneRackEach, MountedElsewhere
<1>7. ASSUME NEW m \in Mounters, ClearRackID(m)
      PROVE  OneRackEach'
  BY <1>7, RacksAssumption DEF ClearRackID, Finishes, Free, InDoubt, RackTypeOK, Slot,
     Creating, Deleting, OneRackEach, MountedElsewhere
<1>8. ASSUME NEW m \in Mounters, CountFails(m)
      PROVE  OneRackEach'
  BY <1>8, RacksAssumption DEF CountFails, RackTypeOK, Slot, Creating, Deleting, Free,
     OneRackEach, MountedElsewhere
<1>9. ASSUME NEW m \in Mounters, Lapse(m)
      PROVE  OneRackEach'
  BY <1>9, RacksAssumption DEF Lapse, Finishes, Free, RackTypeOK, Slot, Creating, Deleting,
     OneRackEach, MountedElsewhere
<1>10. ASSUME NEW r \in Racks, NEW total \in Units, UpdateRack(r, total)
       PROVE  OneRackEach'
  BY <1>10, RacksAssumption DEF UpdateRack, RackTypeOK, Slot, Creating, Deleting, Free,
     OneRackEach, MountedElsewhere
<1>11. ASSUME NEW r \in Racks, DeleteRack(r)
       PROVE  OneRackEach'
  BY <1>11, RacksAssumption DEF DeleteRack, RackTypeOK, Slot, Creating, Deleting, Free,
     OneRackEach, MountedElsewhere
<1>12. ASSUME NEW a \in Equipment, NEW r \in Racks, SetRackByHand(a, r)
       PROVE  OneRackEach'
  BY <1>12, RacksAssumption DEF SetRackByHand, RackTypeOK, Slot, Creating, Deleting, Free,
     OneRackEach, MountedElsewhere
<1>13. CASE UNCHANGED rackVars
  BY <1>13 DEF rackVars, RackTypeOK, Slot, Creating, Deleting, Free, OneRackEach,
     MountedElsewhere
<1>14. QED
  BY <1>1, <1>2, <1>3, <1>4, <1>5, <1>6, <1>7, <1>8, <1>9, <1>10, <1>11, <1>12, <1>13 DEF
     RackNext

\* The last writer at an asset leaves its rack_id and its slots in agreement, or in doubt.
LEMMA QuietStep ==
    ASSUME RackInv, [RackNext]_rackVars
    PROVE  QuietAgrees'
<1>1. ASSUME NEW m \in Mounters, NEW r \in Racks, NEW a \in Equipment, NEW first \in Units, NEW last \in Units, NEW side \in Sides, CheckSlot(m, r, a, first, last, side)
      PROVE  QuietAgrees'
  BY <1>1, RacksAssumption DEF CheckSlot, Doing, RackTypeOK, Slot, Creating, Deleting, Free,
     RackInv, OneRackEach, UnmetIsAlone, UnmetSlotIsThere, QuietAgrees, RemovalIsOnItsWay,
     Agrees, AtWork
<1>2. ASSUME NEW m \in Mounters, CreateRackSlot(m)
      PROVE  QuietAgrees'
  BY <1>2, InsertShape DEF RackInv, QuietAgrees, Agrees, AtWork, RackTypeOK, Slot, Free
<1>3. ASSUME NEW m \in Mounters, SyncRackID(m)
      PROVE  QuietAgrees'
  BY <1>3, RacksAssumption DEF SyncRackID, Finishes, Free, InDoubt, MountedElsewhere,
     RackTypeOK, Slot, Creating, Deleting, RackInv, OneRackEach, UnmetIsAlone,
     UnmetSlotIsThere, QuietAgrees, RemovalIsOnItsWay, Agrees, AtWork
<1>4. ASSUME NEW m \in Mounters, NEW s \in slots, ReadSlot(m, s)
      PROVE  QuietAgrees'
  BY <1>4, RacksAssumption DEF ReadSlot, Begins, Doing, Free, RackTypeOK, Slot, Creating,
     Deleting, RackInv, OneRackEach, UnmetIsAlone, UnmetSlotIsThere, QuietAgrees,
     RemovalIsOnItsWay, Agrees, AtWork
<1>5. ASSUME NEW m \in Mounters, DeleteRackSlot(m)
      PROVE  QuietAgrees'
  BY <1>5, RacksAssumption DEF DeleteRackSlot, RackTypeOK, Slot, Creating, Deleting, Free,
     RackInv, OneRackEach, UnmetIsAlone, UnmetSlotIsThere, QuietAgrees, RemovalIsOnItsWay,
     Agrees, AtWork
<1>6. ASSUME NEW m \in Mounters, CountRemaining(m)
      PROVE  QuietAgrees'
  BY <1>6, RacksAssumption DEF CountRemaining, Finishes, Free, InDoubt, SlotsOf, RackTypeOK,
     Slot, Creating, Deleting, RackInv, OneRackEach, UnmetIsAlone, UnmetSlotIsThere,
     QuietAgrees, RemovalIsOnItsWay, Agrees, AtWork
<1>7. ASSUME NEW m \in Mounters, ClearRackID(m)
      PROVE  QuietAgrees'
  BY <1>7, RacksAssumption DEF ClearRackID, Finishes, Free, InDoubt, RackTypeOK, Slot,
     Creating, Deleting, RackInv, OneRackEach, UnmetIsAlone, UnmetSlotIsThere, QuietAgrees,
     RemovalIsOnItsWay, Agrees, AtWork
<1>8. ASSUME NEW m \in Mounters, CountFails(m)
      PROVE  QuietAgrees'
  BY <1>8, RacksAssumption DEF CountFails, RackTypeOK, Slot, Creating, Deleting, Free, RackInv,
     OneRackEach, UnmetIsAlone, UnmetSlotIsThere, QuietAgrees, RemovalIsOnItsWay, Agrees,
     AtWork
<1>9. ASSUME NEW m \in Mounters, Lapse(m)
      PROVE  QuietAgrees'
  BY <1>9, RacksAssumption DEF Lapse, Finishes, Free, RackTypeOK, Slot, Creating, Deleting,
     RackInv, OneRackEach, UnmetIsAlone, UnmetSlotIsThere, QuietAgrees, RemovalIsOnItsWay,
     Agrees, AtWork
<1>10. ASSUME NEW r \in Racks, NEW total \in Units, UpdateRack(r, total)
       PROVE  QuietAgrees'
  BY <1>10, RacksAssumption DEF UpdateRack, RackTypeOK, Slot, Creating, Deleting, Free,
     RackInv, OneRackEach, UnmetIsAlone, UnmetSlotIsThere, QuietAgrees, RemovalIsOnItsWay,
     Agrees, AtWork
<1>11. ASSUME NEW r \in Racks, DeleteRack(r)
       PROVE  QuietAgrees'
  BY <1>11, RacksAssumption DEF DeleteRack, RackTypeOK, Slot, Creating, Deleting, Free,
     RackInv, OneRackEach, UnmetIsAlone, UnmetSlotIsThere, QuietAgrees, RemovalIsOnItsWay,
     Agrees, AtWork
<1>12. ASSUME NEW a \in Equipment, NEW r \in Racks, SetRackByHand(a, r)
       PROVE  QuietAgrees'
  BY <1>12, RacksAssumption DEF SetRackByHand, RackTypeOK, Slot, Creating, Deleting, Free,
     RackInv, OneRackEach, UnmetIsAlone, UnmetSlotIsThere, QuietAgrees, RemovalIsOnItsWay,
     Agrees, AtWork
<1>13. CASE UNCHANGED rackVars
  BY <1>13 DEF rackVars, RackTypeOK, Slot, Creating, Deleting, Free, RackInv, OneRackEach,
     UnmetIsAlone, UnmetSlotIsThere, QuietAgrees, RemovalIsOnItsWay, Agrees, AtWork
<1>14. QED
  BY <1>1, <1>2, <1>3, <1>4, <1>5, <1>6, <1>7, <1>8, <1>9, <1>10, <1>11, <1>12, <1>13 DEF
     RackNext

\* Between its statements a removal that has met no other finds only what it left.
LEMMA RemovalStep ==
    ASSUME RackInv, [RackNext]_rackVars
    PROVE  RemovalIsOnItsWay'
<1>1. ASSUME NEW m \in Mounters, NEW r \in Racks, NEW a \in Equipment, NEW first \in Units, NEW last \in Units, NEW side \in Sides, CheckSlot(m, r, a, first, last, side)
      PROVE  RemovalIsOnItsWay'
  BY <1>1, RacksAssumption DEF CheckSlot, Doing, RackTypeOK, Slot, Creating, Deleting, Free,
     RackInv, UnmetIsAlone, UnmetSlotIsThere, QuietAgrees, RemovalIsOnItsWay, Agrees, AtWork
<1>2. ASSUME NEW m \in Mounters, CreateRackSlot(m)
      PROVE  RemovalIsOnItsWay'
  BY <1>2, InsertShape DEF RackInv, RemovalIsOnItsWay, UnmetIsAlone, AtWork, RackTypeOK, Slot, Free
<1>3. ASSUME NEW m \in Mounters, SyncRackID(m)
      PROVE  RemovalIsOnItsWay'
  BY <1>3, RacksAssumption DEF SyncRackID, Finishes, Free, InDoubt, MountedElsewhere,
     RackTypeOK, Slot, Creating, Deleting, RackInv, UnmetIsAlone, UnmetSlotIsThere,
     QuietAgrees, RemovalIsOnItsWay, Agrees, AtWork
<1>4. ASSUME NEW m \in Mounters, NEW s \in slots, ReadSlot(m, s)
      PROVE  RemovalIsOnItsWay'
  BY <1>4, RacksAssumption DEF ReadSlot, Begins, Doing, Free, RackTypeOK, Slot, Creating,
     Deleting, RackInv, UnmetIsAlone, UnmetSlotIsThere, QuietAgrees, RemovalIsOnItsWay, Agrees,
     AtWork
<1>5. ASSUME NEW m \in Mounters, DeleteRackSlot(m)
      PROVE  RemovalIsOnItsWay'
  BY <1>5, RacksAssumption DEF DeleteRackSlot, RackTypeOK, Slot, Creating, Deleting, Free,
     RackInv, UnmetIsAlone, UnmetSlotIsThere, QuietAgrees, RemovalIsOnItsWay, Agrees, AtWork
<1>6. ASSUME NEW m \in Mounters, CountRemaining(m)
      PROVE  RemovalIsOnItsWay'
  BY <1>6, RacksAssumption DEF CountRemaining, Finishes, Free, InDoubt, SlotsOf, RackTypeOK,
     Slot, Creating, Deleting, RackInv, UnmetIsAlone, UnmetSlotIsThere, QuietAgrees,
     RemovalIsOnItsWay, Agrees, AtWork
<1>7. ASSUME NEW m \in Mounters, ClearRackID(m)
      PROVE  RemovalIsOnItsWay'
  BY <1>7, RacksAssumption DEF ClearRackID, Finishes, Free, InDoubt, RackTypeOK, Slot,
     Creating, Deleting, RackInv, UnmetIsAlone, UnmetSlotIsThere, QuietAgrees,
     RemovalIsOnItsWay, Agrees, AtWork
<1>8. ASSUME NEW m \in Mounters, CountFails(m)
      PROVE  RemovalIsOnItsWay'
  BY <1>8, RacksAssumption DEF CountFails, RackTypeOK, Slot, Creating, Deleting, Free, RackInv,
     UnmetIsAlone, UnmetSlotIsThere, QuietAgrees, RemovalIsOnItsWay, Agrees, AtWork
<1>9. ASSUME NEW m \in Mounters, Lapse(m)
      PROVE  RemovalIsOnItsWay'
  BY <1>9, RacksAssumption DEF Lapse, Finishes, Free, RackTypeOK, Slot, Creating, Deleting,
     RackInv, UnmetIsAlone, UnmetSlotIsThere, QuietAgrees, RemovalIsOnItsWay, Agrees, AtWork
<1>10. ASSUME NEW r \in Racks, NEW total \in Units, UpdateRack(r, total)
       PROVE  RemovalIsOnItsWay'
  BY <1>10, RacksAssumption DEF UpdateRack, RackTypeOK, Slot, Creating, Deleting, Free,
     RackInv, UnmetIsAlone, UnmetSlotIsThere, QuietAgrees, RemovalIsOnItsWay, Agrees, AtWork
<1>11. ASSUME NEW r \in Racks, DeleteRack(r)
       PROVE  RemovalIsOnItsWay'
  BY <1>11, RacksAssumption DEF DeleteRack, RackTypeOK, Slot, Creating, Deleting, Free,
     RackInv, UnmetIsAlone, UnmetSlotIsThere, QuietAgrees, RemovalIsOnItsWay, Agrees, AtWork
<1>12. ASSUME NEW a \in Equipment, NEW r \in Racks, SetRackByHand(a, r)
       PROVE  RemovalIsOnItsWay'
  BY <1>12, RacksAssumption DEF SetRackByHand, RackTypeOK, Slot, Creating, Deleting, Free,
     RackInv, UnmetIsAlone, UnmetSlotIsThere, QuietAgrees, RemovalIsOnItsWay, Agrees, AtWork
<1>13. CASE UNCHANGED rackVars
  BY <1>13 DEF rackVars, RackTypeOK, Slot, Creating, Deleting, Free, RackInv, UnmetIsAlone,
     UnmetSlotIsThere, QuietAgrees, RemovalIsOnItsWay, Agrees, AtWork
<1>14. QED
  BY <1>1, <1>2, <1>3, <1>4, <1>5, <1>6, <1>7, <1>8, <1>9, <1>10, <1>11, <1>12, <1>13 DEF
     RackNext

\* A slot that went in behind no other's back lies where its check found room.
LEMMA DisjointStep ==
    ASSUME RackTypeOK, CheckHolds, SlotsDisjointUnlessBlind, [RackNext]_rackVars
    PROVE  SlotsDisjointUnlessBlind'
<1>1. ASSUME NEW m \in Mounters, NEW r \in Racks, NEW a \in Equipment, NEW first \in Units, NEW last \in Units, NEW side \in Sides, CheckSlot(m, r, a, first, last, side)
      PROVE  SlotsDisjointUnlessBlind'
  BY <1>1, RacksAssumption DEF CheckSlot, Doing, RackTypeOK, Slot, Creating, Deleting, Free,
     CheckHolds, SlotsDisjointUnlessBlind, Overlaps, Units
<1>2. ASSUME NEW m \in Mounters, CreateRackSlot(m)
      PROVE  SlotsDisjointUnlessBlind'
  BY <1>2, RacksAssumption DEF CreateRackSlot, Begins, Doing, Finishes, Free, MountedElsewhere,
     RackTypeOK, Slot, Creating, Deleting, CheckHolds, SlotsDisjointUnlessBlind, Overlaps,
     Units
<1>3. ASSUME NEW m \in Mounters, SyncRackID(m)
      PROVE  SlotsDisjointUnlessBlind'
  BY <1>3, RacksAssumption DEF SyncRackID, Finishes, Free, InDoubt, MountedElsewhere,
     RackTypeOK, Slot, Creating, Deleting, CheckHolds, SlotsDisjointUnlessBlind, Overlaps,
     Units
<1>4. ASSUME NEW m \in Mounters, NEW s \in slots, ReadSlot(m, s)
      PROVE  SlotsDisjointUnlessBlind'
  BY <1>4, RacksAssumption DEF ReadSlot, Begins, Doing, Free, RackTypeOK, Slot, Creating,
     Deleting, CheckHolds, SlotsDisjointUnlessBlind, Overlaps, Units
<1>5. ASSUME NEW m \in Mounters, DeleteRackSlot(m)
      PROVE  SlotsDisjointUnlessBlind'
  BY <1>5, RacksAssumption DEF DeleteRackSlot, RackTypeOK, Slot, Creating, Deleting, Free,
     CheckHolds, SlotsDisjointUnlessBlind, Overlaps, Units
<1>6. ASSUME NEW m \in Mounters, CountRemaining(m)
      PROVE  SlotsDisjointUnlessBlind'
  BY <1>6, RacksAssumption DEF CountRemaining, Finishes, Free, InDoubt, SlotsOf, RackTypeOK,
     Slot, Creating, Deleting, CheckHolds, SlotsDisjointUnlessBlind, Overlaps, Units
<1>7. ASSUME NEW m \in Mounters, ClearRackID(m)
      PROVE  SlotsDisjointUnlessBlind'
  BY <1>7, RacksAssumption DEF ClearRackID, Finishes, Free, InDoubt, RackTypeOK, Slot,
     Creating, Deleting, CheckHolds, SlotsDisjointUnlessBlind, Overlaps, Units
<1>8. ASSUME NEW m \in Mounters, CountFails(m)
      PROVE  SlotsDisjointUnlessBlind'
  BY <1>8, RacksAssumption DEF CountFails, RackTypeOK, Slot, Creating, Deleting, Free,
     CheckHolds, SlotsDisjointUnlessBlind, Overlaps, Units
<1>9. ASSUME NEW m \in Mounters, Lapse(m)
      PROVE  SlotsDisjointUnlessBlind'
  BY <1>9, RacksAssumption DEF Lapse, Finishes, Free, RackTypeOK, Slot, Creating, Deleting,
     CheckHolds, SlotsDisjointUnlessBlind, Overlaps, Units
<1>10. ASSUME NEW r \in Racks, NEW total \in Units, UpdateRack(r, total)
       PROVE  SlotsDisjointUnlessBlind'
  BY <1>10, RacksAssumption DEF UpdateRack, RackTypeOK, Slot, Creating, Deleting, Free,
     CheckHolds, SlotsDisjointUnlessBlind, Overlaps, Units
<1>11. ASSUME NEW r \in Racks, DeleteRack(r)
       PROVE  SlotsDisjointUnlessBlind'
  BY <1>11, RacksAssumption DEF DeleteRack, RackTypeOK, Slot, Creating, Deleting, Free,
     CheckHolds, SlotsDisjointUnlessBlind, Overlaps, Units
<1>12. ASSUME NEW a \in Equipment, NEW r \in Racks, SetRackByHand(a, r)
       PROVE  SlotsDisjointUnlessBlind'
  BY <1>12, RacksAssumption DEF SetRackByHand, RackTypeOK, Slot, Creating, Deleting, Free,
     CheckHolds, SlotsDisjointUnlessBlind, Overlaps, Units
<1>13. CASE UNCHANGED rackVars
  BY <1>13 DEF rackVars, RackTypeOK, Slot, Creating, Deleting, Free, CheckHolds,
     SlotsDisjointUnlessBlind, Overlaps, Units
<1>14. QED
  BY <1>1, <1>2, <1>3, <1>4, <1>5, <1>6, <1>7, <1>8, <1>9, <1>10, <1>11, <1>12, <1>13 DEF
     RackNext

\* The invariant that the placements rest on.
LEMMA RackInvariant == RackSpec => []RackInv
<1>1. RackInit => RackInv
  BY RacksAssumption DEF RackInit, RackInv, RackTypeOK, CheckHolds, UnmetIsAlone, UnmetSlotIsThere, OneRackEach,
     QuietAgrees, Agrees, RemovalIsOnItsWay, SlotsDisjointUnlessBlind, Free, AtWork
<1>2. RackInv /\ [RackNext]_rackVars => RackInv'
  BY RackTypeStep, CheckHoldsStep, UnmetIsAloneStep, UnmetSlotStep, OneRackStep, QuietStep, RemovalStep,
     DisjointStep DEF RackInv
<1>3. QED
  BY <1>1, <1>2, PTL DEF RackSpec

\* No unit of a rack holds two assets, and an asset's rack is that of its slots, unless two requests overlapped at the
\* asset or one was cut short between its statements (topology/service.go).
THEOREM SoundPlacements == RackSpec => []PlacementsAreSound
<1>1. RackInv => PlacementsAreSound
  BY DEF RackInv, RackTypeOK, PlacementsAreSound, RackAgreesWithSlots, QuietAgrees, Agrees, SlotsOf
<1>2. QED
  BY <1>1, RackInvariant, PTL

------------------------------------------------------------------------------
(***************************************************************************)
(* Services and their members, for any services, assets and requests:      *)
(* MembershipInv says that a membership's service has a row, possibly a    *)
(* soft-deleted one, that its asset exists, and that a pair occurs once.   *)
(***************************************************************************)

\* A request that has found its service names a row, which may be soft-deleted but stays.
AttachTypeOK ==
    /\ attach = [q \in Attachers |-> attach[q]]
    /\ \A q \in Attachers : attach[q].at \in {"service", "asset"} =>
          AskedMember(q) \in ServiceAsset /\ attach[q].service \in ServiceRows

\* A membership's service is a row, its asset exists, and no other one has the two.
MembersAreReal ==
    /\ members \subseteq ServiceAsset
    /\ \A m \in members : m.service \in ServiceRows /\ AssetExists(m.asset)
    /\ \A m, n \in members : m.service = n.service /\ m.asset = n.asset => m = n

MembershipInv == AttachTypeOK /\ MembersAreReal

\* Every asset has a status.
CarriersKnown == DOMAIN carrier = Carriers

\* A service found is a row from then on.
LEMMA AttachStep ==
    ASSUME AttachTypeOK, [ServiceNext]_serviceVars
    PROVE  AttachTypeOK'
<1>1. ASSUME NEW i \in ServiceIds, NEW code \in Codes, NEW name \in ServiceNames, NEW grade \in validTiers, CreateService(i, code, name, grade)
      PROVE  AttachTypeOK'
  BY <1>1 DEF CreateService, AttachTypeOK, AskedMember, AttachAt, ServiceRows, ServiceAlive
<1>2. ASSUME NEW i \in ServiceIds, NEW ask \in ValidAsks, UpdateService(i, ask)
      PROVE  AttachTypeOK'
  BY <1>2 DEF UpdateService, AttachTypeOK, AskedMember, AttachAt, ServiceRows, ServiceAlive
<1>3. ASSUME NEW i \in ServiceIds, SoftDeleteService(i)
      PROVE  AttachTypeOK'
  BY <1>3 DEF SoftDeleteService, AttachTypeOK, AskedMember, AttachAt, ServiceRows, ServiceAlive
<1>4. ASSUME NEW q \in Attachers, NEW m \in ServiceAsset, GetByID(q, m)
      PROVE  AttachTypeOK'
  <2>1. attach' = [attach EXCEPT ![q] = [at |-> "service", service |-> m.service, asset |-> m.asset,
                                         role |-> m.role, isCritical |-> m.isCritical]]
        /\ m.service \in ServiceRows /\ services' = services
    BY <1>4 DEF GetByID, ServiceAlive
  <2>2. m = [service |-> m.service, asset |-> m.asset, role |-> m.role, isCritical |-> m.isCritical]
    BY DEF ServiceAsset
  <2>3. QED
    BY <2>1, <2>2 DEF AttachTypeOK, AskedMember, ServiceRows
<1>5. ASSUME NEW q \in Attachers, CheckAsset(q)
      PROVE  AttachTypeOK'
  BY <1>5 DEF CheckAsset, AttachTypeOK, AskedMember, AttachAt, ServiceRows, ServiceAlive
<1>6. ASSUME NEW q \in Attachers, AddServiceAsset(q)
      PROVE  AttachTypeOK'
  BY <1>6 DEF AddServiceAsset, AttachTypeOK, AskedMember, AttachAt, ServiceRows, ServiceAlive
<1>7. ASSUME NEW i \in ServiceIds, NEW a \in Carriers, RemoveServiceAsset(i, a)
      PROVE  AttachTypeOK'
  BY <1>7 DEF RemoveServiceAsset, AttachTypeOK, AskedMember, AttachAt, ServiceRows, ServiceAlive
<1>8. ASSUME NEW a \in Carriers, NEW status \in {"operational", "maintenance", "deleted"}, CarrierChanges(a, status)
      PROVE  AttachTypeOK'
  BY <1>8 DEF CarrierChanges, AttachTypeOK, AskedMember, AttachAt, ServiceRows, ServiceAlive
<1>9. CASE UNCHANGED serviceVars
  BY <1>9 DEF serviceVars, AttachTypeOK, AskedMember, AttachAt, ServiceRows, ServiceAlive
<1>10. QED
  BY <1>1, <1>2, <1>3, <1>4, <1>5, <1>6, <1>7, <1>8, <1>9 DEF ServiceNext

\* The insert looks for the pair and for the asset, and a deleted asset takes its memberships along.
LEMMA MembersStep ==
    ASSUME MembershipInv, [ServiceNext]_serviceVars
    PROVE  MembersAreReal'
<1>1. ASSUME NEW i \in ServiceIds, NEW code \in Codes, NEW name \in ServiceNames, NEW grade \in validTiers, CreateService(i, code, name, grade)
      PROVE  MembersAreReal'
  BY <1>1 DEF CreateService, MembersAreReal, ServiceRows, ServiceAlive, AssetExists,
     MembershipInv
<1>2. ASSUME NEW i \in ServiceIds, NEW ask \in ValidAsks, UpdateService(i, ask)
      PROVE  MembersAreReal'
  BY <1>2 DEF UpdateService, MembersAreReal, ServiceRows, ServiceAlive, AssetExists,
     MembershipInv
<1>3. ASSUME NEW i \in ServiceIds, SoftDeleteService(i)
      PROVE  MembersAreReal'
  BY <1>3 DEF SoftDeleteService, MembersAreReal, ServiceRows, ServiceAlive, AssetExists,
     MembershipInv
<1>4. ASSUME NEW q \in Attachers, NEW m \in ServiceAsset, GetByID(q, m)
      PROVE  MembersAreReal'
  BY <1>4 DEF GetByID, MembersAreReal, ServiceRows, ServiceAlive, AssetExists, MembershipInv
<1>5. ASSUME NEW q \in Attachers, CheckAsset(q)
      PROVE  MembersAreReal'
  BY <1>5 DEF CheckAsset, MembersAreReal, ServiceRows, ServiceAlive, AssetExists, MembershipInv
<1>6. ASSUME NEW q \in Attachers, AddServiceAsset(q)
      PROVE  MembersAreReal'
  <2> DEFINE m == AskedMember(q)
             taken == \E x \in members : x.service = m.service /\ x.asset = m.asset
  <2>1. m \in ServiceAsset /\ m.service \in ServiceRows
    BY <1>6 DEF MembershipInv, AddServiceAsset, AttachAt, AttachTypeOK, AskedMember
  <2>2. services' = services /\ carrier' = carrier
    BY <1>6 DEF AddServiceAsset
  <2>3. CASE taken \/ ~AssetExists(m.asset)
    BY <1>6, <2>2, <2>3 DEF AddServiceAsset, MembershipInv, MembersAreReal, ServiceRows, AssetExists
  <2>4. CASE ~taken /\ AssetExists(m.asset)
    <3>1. members' = members \cup {m}
      BY <1>6, <2>4 DEF AddServiceAsset
    <3> HIDE DEF m
    <3>2. QED
      BY <2>1, <2>2, <2>4, <3>1 DEF MembershipInv, MembersAreReal, ServiceRows, AssetExists
  <2>5. QED
    BY <2>3, <2>4
<1>7. ASSUME NEW i \in ServiceIds, NEW a \in Carriers, RemoveServiceAsset(i, a)
      PROVE  MembersAreReal'
  BY <1>7 DEF RemoveServiceAsset, MembersAreReal, ServiceRows, ServiceAlive, AssetExists,
     MembershipInv
<1>8. ASSUME NEW a \in Carriers, NEW status \in {"operational", "maintenance", "deleted"}, CarrierChanges(a, status)
      PROVE  MembersAreReal'
  BY <1>8 DEF CarrierChanges, MembersAreReal, ServiceRows, ServiceAlive, AssetExists,
     MembershipInv
<1>9. CASE UNCHANGED serviceVars
  BY <1>9 DEF serviceVars, MembersAreReal, ServiceRows, ServiceAlive, AssetExists,
     MembershipInv
<1>10. QED
  BY <1>1, <1>2, <1>3, <1>4, <1>5, <1>6, <1>7, <1>8, <1>9 DEF ServiceNext

\* The references the tables enforce and the pair they keep unique, with services
\* soft-deleted, assets deleted and requests interleaved as they may.
THEOREM NoMembershipDangles == ServiceSpec => []MembersAreReal
<1>1. ServiceInit => MembershipInv
  BY DEF ServiceInit, MembershipInv, AttachTypeOK, MembersAreReal
<1>2. MembershipInv /\ [ServiceNext]_serviceVars => MembershipInv'
  BY AttachStep, MembersStep DEF MembershipInv
<1>3. MembershipInv => MembersAreReal
  BY DEF MembershipInv
<1>4. QED
  BY <1>1, <1>2, <1>3, PTL DEF ServiceSpec

SurvivalStep ==
    /\ \A m \in members \ members' : RemoveServiceAsset(m.service, m.asset) \/ carrier'[m.asset] = "deleted"
    /\ \A m \in members' \ members, x \in members : ~(x.service = m.service /\ x.asset = m.asset)


\* Of the steps only these two take memberships away.
LEMMA SurvivalStepHolds ==
    ASSUME CarriersKnown, [ServiceNext]_serviceVars
    PROVE  SurvivalStep
<1>1. ASSUME NEW i \in ServiceIds, NEW code \in Codes, NEW name \in ServiceNames, NEW grade \in validTiers, CreateService(i, code, name, grade)
      PROVE  SurvivalStep
  BY <1>1 DEF CreateService, SurvivalStep, AskedMember
<1>2. ASSUME NEW i \in ServiceIds, NEW ask \in ValidAsks, UpdateService(i, ask)
      PROVE  SurvivalStep
  BY <1>2 DEF UpdateService, SurvivalStep, AskedMember
<1>3. ASSUME NEW i \in ServiceIds, SoftDeleteService(i)
      PROVE  SurvivalStep
  BY <1>3 DEF SoftDeleteService, SurvivalStep, AskedMember
<1>4. ASSUME NEW q \in Attachers, NEW m \in ServiceAsset, GetByID(q, m)
      PROVE  SurvivalStep
  BY <1>4 DEF GetByID, SurvivalStep, AskedMember
<1>5. ASSUME NEW q \in Attachers, CheckAsset(q)
      PROVE  SurvivalStep
  BY <1>5 DEF CheckAsset, SurvivalStep, AskedMember
<1>6. ASSUME NEW q \in Attachers, AddServiceAsset(q)
      PROVE  SurvivalStep
  BY <1>6 DEF AddServiceAsset, SurvivalStep, AskedMember
<1>7. ASSUME NEW i \in ServiceIds, NEW a \in Carriers, RemoveServiceAsset(i, a)
      PROVE  SurvivalStep
  <2>1. ASSUME NEW m \in members \ members' PROVE RemoveServiceAsset(m.service, m.asset)
    <3>1. m.service = i /\ m.asset = a
      BY <1>7, <2>1 DEF RemoveServiceAsset
    <3>2. QED
      BY <1>7, <3>1
  <2>2. members' \ members = {}
    BY <1>7 DEF RemoveServiceAsset
  <2>3. QED
    BY <2>1, <2>2 DEF SurvivalStep
<1>8. ASSUME NEW a \in Carriers, NEW status \in {"operational", "maintenance", "deleted"}, CarrierChanges(a, status)
      PROVE  SurvivalStep
  <2>1. ASSUME NEW m \in members \ members' PROVE carrier'[m.asset] = "deleted"
    BY <1>8, <2>1 DEF CarrierChanges, ServiceAsset, CarriersKnown
  <2>2. members' \ members = {}
    BY <1>8 DEF CarrierChanges
  <2>3. QED
    BY <2>1, <2>2 DEF SurvivalStep
<1>9. CASE UNCHANGED serviceVars
  BY <1>9 DEF serviceVars, SurvivalStep, AskedMember
<1>10. QED
  BY <1>1, <1>2, <1>3, <1>4, <1>5, <1>6, <1>7, <1>8, <1>9 DEF ServiceNext

\* "service_assets rows remain": a membership outlives its service and is replaced by no
\* later request.
THEOREM MembershipsSurvive == ServiceSpec => MembershipSurvives
<1>1. ServiceInit => CarriersKnown
  BY DEF ServiceInit, CarriersKnown
<1>2. CarriersKnown /\ [ServiceNext]_serviceVars => CarriersKnown'
  BY DEF CarriersKnown, ServiceNext, serviceVars, CreateService, UpdateService, SoftDeleteService, GetByID,
     CheckAsset, AddServiceAsset, RemoveServiceAsset, CarrierChanges
<1>3. CarriersKnown /\ [ServiceNext]_serviceVars => [SurvivalStep]_serviceVars
  BY SurvivalStepHolds
<1>4. QED
  BY <1>1, <1>2, <1>3, PTL DEF ServiceSpec, MembershipSurvives, SurvivalStep

------------------------------------------------------------------------------
(***************************************************************************)
(* Recursion on the number of rounds: the function that such a definition  *)
(* chooses exists, and has what its first round and its step keep.         *)
(* Locations and dependencies are both searched in rounds.                 *)
(***************************************************************************)

\* Induction over the naturals, for a set of them.
LEMMA SetInduction ==
    ASSUME NEW S, 0 \in S, \A n \in Nat : n \in S => n + 1 \in S
    PROVE  Nat \subseteq S
<1> DEFINE R == {ss \in Nat \X Nat : ss[1] < ss[2]}
           T == Nat \ S
<1>1. IsWellFoundedOn(R, Nat)
  BY NatLessThanWellFounded DEF OpToRel
<1>2. T \subseteq Nat
  OBVIOUS
<1>3. \A x, y \in Nat : x < y => <<x, y>> \in R
  OBVIOUS
<1> SUFFICES ASSUME T # {} PROVE FALSE
  OBVIOUS
<1> HIDE DEF R
<1>4. PICK x \in T : \A y \in T : <<y, x>> \notin R
  <2> HIDE DEF T
  <2>1. QED
    BY <1>1, <1>2, WFMin
<1>5. x \in Nat /\ x # 0
  BY <1>4
<1>6. x - 1 \in Nat /\ x - 1 < x /\ (x - 1) + 1 = x
  BY <1>5
<1>7. x - 1 \notin T
  BY <1>3, <1>4, <1>5, <1>6
<1>8. QED
  BY <1>4, <1>6, <1>7

\* The values a step takes one after another: what a definition by recursion on the
\* number of steps is made of.
Rounds(f, step, first, n) ==
    /\ f \in [0..n -> DOMAIN step]
    /\ f[0] = first
    /\ \A k \in 1..n : f[k] = step[f[k - 1]]

LEMMA RoundsExist ==
    ASSUME NEW V, NEW step \in [V -> V], NEW first \in V, NEW n \in Nat
    PROVE  \E f : Rounds(f, step, first, n)
<1> DEFINE S == {m \in Nat : \E f : Rounds(f, step, first, m)}
<1>1. 0 \in S
  <2> DEFINE g == [k \in 0..0 |-> first]
  <2>1. Rounds(g, step, first, 0)
    BY DEF Rounds
  <2>2. QED
    BY <2>1
<1>2. ASSUME NEW m \in Nat, m \in S PROVE m + 1 \in S
  <2>1. PICK f : Rounds(f, step, first, m)
    BY <1>2
  <2> DEFINE g == [k \in 0..(m + 1) |-> IF k = m + 1 THEN step[f[m]] ELSE f[k]]
  <2>2. /\ DOMAIN step = V /\ f \in [0..m -> V] /\ f[0] = first
        /\ \A k \in 1..m : f[k] = step[f[k - 1]]
        /\ \A v \in V : step[v] \in V
    BY <2>1 DEF Rounds
  <2>3. g \in [0..(m + 1) -> V] /\ g[0] = first
    BY <2>2
  <2>4. \A k \in 0..m : g[k] = f[k]
    OBVIOUS
  <2>5. g[m + 1] = step[f[m]]
    OBVIOUS
  <2>6. ASSUME NEW k \in 1..(m + 1) PROVE g[k] = step[g[k - 1]]
    <3> HIDE DEF g
    <3>1. CASE k = m + 1
      BY <2>4, <2>5, <3>1
    <3>2. CASE k # m + 1
      <4>1. k \in 1..m /\ k \in 0..m /\ k - 1 \in 0..m
        BY <3>2
      <4>2. QED
        BY <2>2, <2>4, <4>1
    <3>3. QED
      BY <3>1, <3>2
  <2>7. Rounds(g, step, first, m + 1)
    <3> HIDE DEF g
    <3>1. QED
      BY <2>2, <2>3, <2>6 DEF Rounds
  <2>8. QED
    BY <2>7
<1> HIDE DEF S
<1>3. n \in S
  BY <1>1, <1>2, SetInduction
<1>4. QED
  BY <1>3 DEF S

------------------------------------------------------------------------------
(***************************************************************************)
(* The tree of locations, for any rows, slugs, racks and deletions.        *)
(* TreeInv: a path extends the parent's, by something unless both are      *)
(* empty (PathsGrow), a rack's location is there, and a deletion has its   *)
(* root's path.  As many rounds of Subtree as there are locations leave    *)
(* nothing to add (DownStops), and from a location below a path the way up *)
(* shortens until it meets the path or a dotted slug (DownReaches).        *)
(***************************************************************************)

LocationRow == [parent : There \cup {NoParent}, path : Seq(Labels), slug : Slugs, level : Levels]
PathOf(m) == locations[m].path
ParentOf(m) == locations[m].parent

\* A location's path is its parent's with the slug's labels.
GrowsFrom(path, above) ==
    /\ Len(above) <= Len(path)
    /\ Len(above) = Len(path) => Len(path) = 0
    /\ \A i \in 1..Len(above) : path[i] = above[i]

PathsGrow ==
    /\ There \subseteq LocationIds /\ IsFiniteSet(There)
    /\ \A m \in There :
          /\ locations[m] \in LocationRow
          /\ ParentOf(m) # NoParent => GrowsFrom(PathOf(m), PathOf(ParentOf(m)))

RacksHaveLocations == placed \in [RackNames -> [at : There \cup {NoParent}, gone : BOOLEAN]]

\* A deletion remembers the path of its root, which stays the root's as long as it is there.
RootsKeepTheirPath ==
    /\ deletion \in [Surveyors -> {Waiting} \cup [op : {"tree", "one"}, root : LocationIds, path : Seq(Labels)]]
    /\ \A d \in Surveyors :
          deletion[d] # Waiting /\ deletion[d].root \in There =>
              PathOf(deletion[d].root) = deletion[d].path

TreeInv == PathsGrow /\ RacksHaveLocations /\ RootsKeepTheirPath

------------------------------------------------------------------------------
\* The prefix order, element by element.
LEMMA BelowIs ==
    ASSUME NEW s \in Seq(Labels), NEW t \in Seq(Labels)
    PROVE  AtOrBelow(t, s) <=> Len(s) <= Len(t) /\ \A i \in 1..Len(s) : s[i] = t[i]
<1>1. ASSUME Len(s) <= Len(t)
      PROVE  SubSeq(s, 1, Len(s)) = SubSeq(t, 1, Len(s)) <=> \A i \in 1..Len(s) : s[i] = t[i]
  <2>1. SubSeq(s, 1, Len(s)) = [i \in 1..Len(s) |-> s[i]]
    OBVIOUS
  <2>2. SubSeq(t, 1, Len(s)) = [i \in 1..Len(s) |-> t[i]]
    BY <1>1
  <2>3. QED
    BY <2>1, <2>2
<1>2. QED
  BY <1>1 DEF AtOrBelow, IsPrefix

LEMMA PathTypes ==
    ASSUME PathsGrow, NEW m \in There
    PROVE  /\ PathOf(m) \in Seq(Labels) /\ Len(PathOf(m)) \in Nat
           /\ ParentOf(m) = NoParent <=> ParentOf(m) \notin There
<1>1. PathOf(m) \in Seq(Labels) /\ ParentOf(m) \in There \cup {NoParent}
  BY DEF PathsGrow, LocationRow, PathOf, ParentOf
<1>2. NoParent \notin There
  BY NoParentAssumption DEF PathsGrow
<1>3. QED
  BY <1>1, <1>2

------------------------------------------------------------------------------
\* The locations found within a number of steps down from one.
Deeper == [T \in SUBSET There |-> T \cup {m \in There : ParentOf(m) \in T}]
Down(l) ==
    LET below[k \in 0..Cardinality(There)] ==
          IF k = 0 THEN {l} ELSE below[k - 1] \cup {m \in There : locations[m].parent \in below[k - 1]}
    IN below

LEMMA DownIs ==
    ASSUME PathsGrow, NEW l \in There
    PROVE  /\ Cardinality(There) \in Nat
           /\ \A k \in 0..Cardinality(There) : Down(l)[k] \in SUBSET There
           /\ Down(l)[0] = {l}
           /\ \A k \in 1..Cardinality(There) :
                 Down(l)[k] = Down(l)[k - 1] \cup {m \in There : ParentOf(m) \in Down(l)[k - 1]}
           /\ Subtree(l) = Down(l)[Cardinality(There)]
<1> DEFINE N == Cardinality(There)
           Follows(f) == f = [k \in 0..N |->
              IF k = 0 THEN {l} ELSE f[k - 1] \cup {m \in There : locations[m].parent \in f[k - 1]}]
<1>1. N \in Nat
  BY FS_CardinalityType DEF PathsGrow
<1>2. Deeper \in [SUBSET There -> SUBSET There] /\ DOMAIN Deeper = SUBSET There
  BY DEF Deeper
<1>3. PICK f : Rounds(f, Deeper, {l}, N)
  <2>1. {l} \in SUBSET There
    OBVIOUS
  <2>2. QED
    BY <1>1, <1>2, <2>1, RoundsExist
<1>4. f \in [0..N -> SUBSET There] /\ f[0] = {l} /\ \A k \in 1..N : f[k] = Deeper[f[k - 1]]
  BY <1>2, <1>3 DEF Rounds
<1>5. ASSUME NEW k \in 1..N
      PROVE  f[k] = f[k - 1] \cup {m \in There : locations[m].parent \in f[k - 1]}
  <2>1. f[k] = Deeper[f[k - 1]] /\ f[k - 1] \in SUBSET There
    BY <1>1, <1>4
  <2>2. QED
    BY <2>1 DEF Deeper, ParentOf
<1> HIDE DEF N
<1>6. Follows(f)
  <2>1. ASSUME NEW k \in 0..N
        PROVE  f[k] = IF k = 0 THEN {l}
                   ELSE f[k - 1] \cup {m \in There : locations[m].parent \in f[k - 1]}
    BY <1>1, <1>4, <1>5
  <2>2. f = [k \in 0..N |-> f[k]]
    BY <1>4
  <2>3. QED
    BY <2>1, <2>2, Zenon
<1>7. Down(l) = CHOOSE g : Follows(g)
  BY Zenon DEF Down, N
<1>8. Follows(Down(l))
  <2> HIDE DEF Follows
  <2>1. QED
    BY <1>6, <1>7
<1>9. /\ DOMAIN Down(l) = 0..N /\ Down(l)[0] = {l}
      /\ \A k \in 1..N : Down(l)[k] = Down(l)[k - 1] \cup {m \in There : ParentOf(m) \in Down(l)[k - 1]}
  <2>1. ASSUME NEW k \in 0..N
        PROVE  Down(l)[k] = IF k = 0 THEN {l}
                   ELSE Down(l)[k - 1] \cup {m \in There : locations[m].parent \in Down(l)[k - 1]}
    BY <1>8
  <2>2. DOMAIN Down(l) = 0..N
    BY <1>8
  <2>3. QED
    BY <1>1, <2>1, <2>2 DEF ParentOf
<1>10. \A k \in 0..N : Down(l)[k] \in SUBSET There
  <2> DEFINE S == {k \in Nat : k <= N => Down(l)[k] \in SUBSET There}
  <2>1. 0 \in S
    BY <1>9
  <2>2. ASSUME NEW k \in Nat, k \in S PROVE k + 1 \in S
    <3>1. CASE k + 1 <= N
      <4>1. k + 1 \in 1..N /\ (k + 1) - 1 = k /\ k <= N
        BY <1>1, <3>1
      <4>2. Down(l)[k + 1] = Down(l)[k] \cup {m \in There : ParentOf(m) \in Down(l)[k]}
        BY <1>9, <4>1
      <4>3. QED
        BY <2>2, <4>1, <4>2
    <3>2. CASE ~(k + 1 <= N)
      BY <3>2
    <3>3. QED
      BY <3>1, <3>2
  <2> HIDE DEF S
  <2>3. Nat \subseteq S
    BY <2>1, <2>2, SetInduction
  <2>4. QED
    BY <1>1, <2>3 DEF S
<1>11. Subtree(l) = Down(l)[N]
  BY Zenon DEF Subtree, Down, N
<1>12. QED
  BY <1>1, <1>9, <1>10, <1>11 DEF N

\* What is found downwards lies at or below the path of the start.
LEMMA DownStaysBelow ==
    ASSUME PathsGrow, NEW l \in There, NEW m \in Subtree(l)
    PROVE  m \in There /\ AtOrBelow(PathOf(m), PathOf(l))
<1> DEFINE N == Cardinality(There)
           S == {k \in Nat : k <= N => \A n \in Down(l)[k] : AtOrBelow(PathOf(n), PathOf(l))}
<1>1. 0 \in S
  <2>1. AtOrBelow(PathOf(l), PathOf(l))
    BY PathTypes, BelowIs
  <2>2. QED
    BY <2>1, DownIs
<1>2. ASSUME NEW k \in Nat, k \in S PROVE k + 1 \in S
  <2>1. SUFFICES ASSUME k + 1 <= N, NEW n \in Down(l)[k + 1]
                 PROVE  AtOrBelow(PathOf(n), PathOf(l))
    OBVIOUS
  <2>2. k + 1 \in 1..N /\ (k + 1) - 1 = k /\ k \in 0..N /\ k + 1 \in 0..N
    BY <2>1, DownIs
  <2>3. n \in There /\ (n \in Down(l)[k] \/ ParentOf(n) \in Down(l)[k]) /\ Down(l)[k] \subseteq There
    BY <2>1, <2>2, DownIs
  <2>4. CASE n \in Down(l)[k]
    BY <1>2, <2>2, <2>4
  <2>5. CASE ParentOf(n) \in Down(l)[k]
    <3>1. AtOrBelow(PathOf(ParentOf(n)), PathOf(l)) /\ ParentOf(n) \in There
      BY <1>2, <2>2, <2>3, <2>5
    <3>2. PathOf(n) \in Seq(Labels) /\ PathOf(ParentOf(n)) \in Seq(Labels) /\ PathOf(l) \in Seq(Labels) /\ ParentOf(n) # NoParent
      BY <2>3, <3>1, PathTypes
    <3>3. GrowsFrom(PathOf(n), PathOf(ParentOf(n)))
      BY <2>3, <3>2 DEF PathsGrow
    <3>4. Len(PathOf(l)) <= Len(PathOf(ParentOf(n))) /\ \A i \in 1..Len(PathOf(l)) : PathOf(l)[i] = PathOf(ParentOf(n))[i]
      BY <3>1, <3>2, BelowIs
    <3>5. Len(PathOf(l)) <= Len(PathOf(n)) /\ \A i \in 1..Len(PathOf(l)) : PathOf(l)[i] = PathOf(n)[i]
      <4>1. Len(PathOf(l)) \in Nat /\ Len(PathOf(n)) \in Nat /\ Len(PathOf(ParentOf(n))) \in Nat
        BY <3>2
      <4>2. QED
        BY <3>3, <3>4, <4>1 DEF GrowsFrom
    <3>6. QED
      BY <3>2, <3>5, BelowIs
  <2>6. QED
    BY <2>3, <2>4, <2>5
<1> HIDE DEF S
<1>3. N \in S
  BY <1>1, <1>2, SetInduction, DownIs
<1>4. QED
  BY <1>3, DownIs DEF S

LEMMA DownGrows ==
    ASSUME PathsGrow, NEW l \in There, NEW j \in 0..Cardinality(There)
    PROVE  Down(l)[j] \subseteq Subtree(l)
<1> DEFINE N == Cardinality(There)
           S == {k \in Nat : j + k <= N => Down(l)[j] \subseteq Down(l)[j + k]}
<1>0. N \in Nat /\ j \in Nat /\ j <= N
  BY DownIs
<1>1. 0 \in S
  BY <1>0
<1>2. ASSUME NEW k \in Nat, k \in S PROVE k + 1 \in S
  <2>1. SUFFICES ASSUME j + (k + 1) <= N PROVE Down(l)[j] \subseteq Down(l)[j + (k + 1)]
    OBVIOUS
  <2>2. j + k <= N /\ j + (k + 1) \in 1..N /\ (j + (k + 1)) - 1 = j + k
    BY <1>0, <2>1
  <2>3. Down(l)[j + k] \subseteq Down(l)[j + (k + 1)]
    BY <2>2, DownIs
  <2>4. QED
    BY <1>2, <2>2, <2>3
<1> HIDE DEF S
<1>3. N - j \in Nat /\ j + (N - j) = N
  BY <1>0
<1>4. N - j \in S
  BY <1>1, <1>2, <1>3, SetInduction
<1>5. QED
  BY <1>3, <1>4, DownIs DEF S

\* A round that adds nothing is the last that could, and there are too few locations
\* for every round to add one: what Subtree has found is all there is below.
Closed(T) == \A m \in There : ParentOf(m) \in T => m \in T

LEMMA DownStops ==
    ASSUME PathsGrow, NEW l \in There
    PROVE  Closed(Subtree(l)) /\ l \in Subtree(l)
<1> DEFINE N == Cardinality(There)
           S == {k \in Nat : k <= N => Closed(Down(l)[k]) \/ Cardinality(Down(l)[k]) > k}
<1>0. IsFiniteSet(There) /\ N \in Nat
  BY DownIs DEF PathsGrow
<1>1. ASSUME NEW k \in 0..N
      PROVE  IsFiniteSet(Down(l)[k]) /\ Cardinality(Down(l)[k]) \in Nat /\ Cardinality(Down(l)[k]) <= N
  <2>1. Down(l)[k] \in SUBSET There
    BY DownIs
  <2>2. QED
    BY <1>0, <2>1, FS_Subset, FS_CardinalityType
<1>2. 0 \in S
  <2>1. Cardinality(Down(l)[0]) = 1
    BY DownIs, FS_Singleton
  <2>2. QED
    BY <2>1
<1>3. ASSUME NEW k \in Nat, k \in S PROVE k + 1 \in S
  <2>1. SUFFICES ASSUME k + 1 <= N
                 PROVE  Closed(Down(l)[k + 1]) \/ Cardinality(Down(l)[k + 1]) > k + 1
    OBVIOUS
  <2>2. k + 1 \in 1..N /\ (k + 1) - 1 = k /\ k \in 0..N /\ k + 1 \in 0..N
    BY <1>0, <2>1
  <2>3. Down(l)[k + 1] = Down(l)[k] \cup {m \in There : ParentOf(m) \in Down(l)[k]}
    BY <2>2, DownIs
  <2>4. CASE Closed(Down(l)[k])
    <3>1. Down(l)[k + 1] = Down(l)[k]
      BY <2>3, <2>4 DEF Closed
    <3>2. QED
      BY <2>4, <3>1
  <2>5. CASE ~Closed(Down(l)[k])
    <3>1. Cardinality(Down(l)[k]) > k
      BY <1>3, <2>2, <2>5
    <3>2. PICK m \in There : ParentOf(m) \in Down(l)[k] /\ m \notin Down(l)[k]
      BY <2>5 DEF Closed
    <3>3. Cardinality(Down(l)[k] \cup {m}) = Cardinality(Down(l)[k]) + 1
      BY <1>1, <2>2, <3>2, FS_AddElement
    <3>4. Down(l)[k] \cup {m} \in SUBSET Down(l)[k + 1]
      BY <2>3, <3>2
    <3>5. Cardinality(Down(l)[k] \cup {m}) <= Cardinality(Down(l)[k + 1])
      BY <1>1, <2>2, <3>4, FS_Subset
    <3>6. Cardinality(Down(l)[k]) \in Nat /\ Cardinality(Down(l)[k + 1]) \in Nat
      BY <1>1, <2>2
    <3> HIDE DEF S, N
    <3>7. QED
      BY <3>1, <3>3, <3>5, <3>6
  <2>6. QED
    BY <2>4, <2>5
<1> HIDE DEF S
<1>4. N \in S
  BY <1>0, <1>2, <1>3, SetInduction
<1>5. N \in 0..N /\ 0 \in 0..N
  BY <1>0
<1>6. Closed(Down(l)[N]) \/ Cardinality(Down(l)[N]) > N
  BY <1>0, <1>4 DEF S
<1>7. Cardinality(Down(l)[N]) \in Nat /\ Cardinality(Down(l)[N]) <= N
  BY <1>1, <1>5
<1>8. Closed(Down(l)[N])
  BY <1>0, <1>6, <1>7
<1>9. l \in Subtree(l)
  BY <1>5, DownGrows, DownIs
<1>10. QED
  BY <1>8, <1>9, DownIs

\* What lies below a location that is misled is misled.
LEMMA MisledBelow ==
    ASSUME PathsGrow, NEW m \in There, ParentOf(m) \in Misled
    PROVE  m \in Misled
<1>1. PICK q \in Dotted : ParentOf(m) \in Subtree(q)
  BY DEF Misled
<1>2. m \in Subtree(q)
  BY <1>1, DownStops DEF Closed, Dotted
<1>3. QED
  BY <1>1, <1>2 DEF Misled

\* Whatever lies at or below a path is found downwards from a location that has it,
\* or below a dotted slug.
LEMMA DownReaches ==
    ASSUME PathsGrow, NEW path \in Seq(Labels), path # <<>>,
           NEW m \in There, AtOrBelow(PathOf(m), path)
    PROVE  m \in Misled \/ \E n \in There : PathOf(n) = path /\ m \in Subtree(n)
<1> DEFINE Found(x) == x \in Misled \/ \E n \in There : PathOf(n) = path /\ x \in Subtree(n)
           S == {k \in Nat : \A x \in There :
                    AtOrBelow(PathOf(x), path) /\ Len(PathOf(x)) <= k => Found(x)}
<1>0. Len(path) \in Nat /\ Len(path) > 0
  OBVIOUS
<1>1. 0 \in S
  <2>1. ASSUME NEW x \in There, AtOrBelow(PathOf(x), path) PROVE ~(Len(PathOf(x)) <= 0)
    BY <1>0, <2>1, PathTypes, BelowIs
  <2>2. QED
    BY <2>1
<1>2. ASSUME NEW k \in Nat, k \in S PROVE k + 1 \in S
  <2>1. SUFFICES ASSUME NEW x \in There, AtOrBelow(PathOf(x), path), Len(PathOf(x)) <= k + 1
                 PROVE  Found(x)
    OBVIOUS
  <2> DEFINE p == ParentOf(x)
  <2>2. PathOf(x) \in Seq(Labels) /\ Len(PathOf(x)) \in Nat
    BY PathTypes
  <2>3. Len(path) <= Len(PathOf(x)) /\ \A i \in 1..Len(path) : path[i] = PathOf(x)[i]
    BY <2>1, <2>2, BelowIs
  <2>4. CASE Len(PathOf(x)) = Len(path)
    <3>1. PathOf(x) = path
      BY <2>2, <2>3, <2>4
    <3>2. x \in Subtree(x)
      BY DownStops
    <3>3. QED
      BY <3>1, <3>2
  <2>5. CASE x \in Dotted
    <3>1. x \in Subtree(x)
      BY DownStops
    <3>2. QED
      BY <2>5, <3>1 DEF Misled
  <2>6. CASE Len(PathOf(x)) # Len(path) /\ x \notin Dotted
    <3>1. ~(Len(PathOf(x)) > Len(Above(p)) + 1)
      BY <2>6 DEF Dotted, PathOf, ParentOf
    <3>2. p # NoParent
      <4>1. CASE p = NoParent
        <5>1. Len(Above(p)) = 0
          BY <4>1 DEF Above
        <5>2. QED
          BY <1>0, <2>2, <2>3, <2>6, <3>1, <5>1
      <4>2. QED
        BY <4>1
    <3>3. p \in There /\ Above(p) = PathOf(p)
      BY <3>2, PathTypes DEF Above, PathOf
    <3>4. PathOf(p) \in Seq(Labels) /\ Len(PathOf(p)) \in Nat
      BY <3>3, PathTypes
    <3>5. GrowsFrom(PathOf(x), PathOf(p))
      BY <3>2 DEF PathsGrow
    <3> HIDE DEF p
    <3>6. Len(PathOf(p)) < Len(PathOf(x)) /\ Len(path) <= Len(PathOf(p))
      BY <1>0, <2>2, <2>3, <2>6, <3>1, <3>3, <3>4, <3>5 DEF GrowsFrom
    <3>7. \A i \in 1..Len(path) : path[i] = PathOf(p)[i]
      BY <1>0, <2>3, <3>4, <3>5, <3>6 DEF GrowsFrom
    <3>8. AtOrBelow(PathOf(p), path)
      BY <3>4, <3>6, <3>7, BelowIs
    <3>9. Len(PathOf(p)) <= k
      BY <2>1, <2>2, <3>4, <3>6
    <3>10. Found(p)
      BY <1>2, <3>3, <3>8, <3>9
    <3>11. CASE p \in Misled
      BY <3>11, MisledBelow DEF p
    <3>12. CASE \E n \in There : PathOf(n) = path /\ p \in Subtree(n)
      <4>1. PICK n \in There : PathOf(n) = path /\ p \in Subtree(n)
        BY <3>12
      <4>2. x \in Subtree(n)
        BY <4>1, DownStops DEF Closed, p
      <4>3. QED
        BY <4>1, <4>2
    <3>13. QED
      BY <3>10, <3>11, <3>12
  <2>7. QED
    BY <2>4, <2>5, <2>6
<1> HIDE DEF S
<1>3. Len(PathOf(m)) \in Nat /\ Len(PathOf(m)) \in S
  BY <1>1, <1>2, SetInduction, PathTypes
<1>4. QED
  BY <1>3 DEF S

\* The paths and the tree answer alike, but for what is misled.
LEMMA FamilyIsBelow ==
    ASSUME PathsGrow, NEW path
    PROVE  Family(path) \subseteq ListDescendants(path)
<1>1. SUFFICES ASSUME NEW m \in Family(path) PROVE m \in ListDescendants(path)
  OBVIOUS
<1>2. PICK n \in There : locations[n].path = path /\ m \in Subtree(n)
  BY DEF Family
<1>3. m \in There /\ AtOrBelow(PathOf(m), path)
  BY <1>2, DownStaysBelow DEF PathOf
<1>4. QED
  BY <1>3 DEF ListDescendants, PathOf

LEMMA FamilyIsAll ==
    ASSUME PathsGrow, NEW path \in Seq(Labels), path # <<>>
    PROVE  ListDescendants(path) \subseteq Family(path) \cup Misled
<1>1. SUFFICES ASSUME NEW m \in ListDescendants(path) PROVE m \in Family(path) \cup Misled
  OBVIOUS
<1>2. m \in There /\ AtOrBelow(PathOf(m), path)
  BY DEF ListDescendants, PathOf
<1>3. m \in Misled \/ \E n \in There : PathOf(n) = path /\ m \in Subtree(n)
  BY <1>2, DownReaches
<1>4. QED
  BY <1>3 DEF Family, PathOf

LEMMA PathsAnswer == ASSUME TreeInv PROVE PathsFollowTheTree
<1>1. ASSUME NEW l \in There
      PROVE  /\ Family(PathOf(l)) \subseteq ListDescendants(PathOf(l))
             /\ PathOf(l) # <<>> => ListDescendants(PathOf(l)) \subseteq Family(PathOf(l)) \cup Misled
  BY PathTypes, FamilyIsBelow, FamilyIsAll DEF TreeInv
<1>2. ASSUME NEW l \in There, NEW a \in ListAncestors(PathOf(l)), PathOf(a) # <<>>
      PROVE  l \in Family(PathOf(a)) \cup Misled
  <2>1. a \in There /\ l \in ListDescendants(PathOf(a))
    BY <1>2 DEF ListAncestors, ListDescendants, PathOf
  <2>2. QED
    BY <1>1, <1>2, <2>1
<1>3. ASSUME NEW l \in There, PathOf(l) # <<>>, ListDescendants(PathOf(l)) \cap Misled = {}
      PROVE  CountRacksUnderLocation(l) =
                Cardinality({r \in RackNames : placed[r].at \in Family(PathOf(l)) /\ ~placed[r].gone})
  <2>1. ListDescendants(PathOf(l)) = Family(PathOf(l))
    BY <1>1, <1>3
  <2>2. ListRacksByLocation(l) = {r \in RackNames : placed[r].at \in Family(PathOf(l)) /\ ~placed[r].gone}
    BY <2>1 DEF ListRacksByLocation, PathOf
  <2>3. QED
    BY <2>2 DEF CountRacksUnderLocation
<1>4. QED
  BY <1>1, <1>2, <1>3, Zenon DEF PathsFollowTheTree, PathOf

------------------------------------------------------------------------------
LEMMA TreeStart == LocationInit => TreeInv
<1> SUFFICES ASSUME LocationInit PROVE TreeInv
  OBVIOUS
<1>1. There = {}
  BY DEF LocationInit, There
<1>2. PathsGrow
  BY <1>1, FS_EmptySet DEF PathsGrow
<1>3. RacksHaveLocations
  BY DEF LocationInit, RacksHaveLocations, Unplaced
<1>4. RootsKeepTheirPath
  BY DEF LocationInit, RootsKeepTheirPath
<1>5. QED
  BY <1>2, <1>3, <1>4 DEF TreeInv

LEMMA CreateKeepsTree ==
    ASSUME TreeInv, NEW l \in LocationIds, NEW parent \in LocationIds \cup {NoParent},
           NEW slug \in Slugs, NEW grade \in Levels, CreateLocation(l, parent, slug, grade)
    PROVE  TreeInv'
<1> DEFINE path == Above(parent) \o slug
           row == [parent |-> parent, path |-> path, slug |-> slug, level |-> grade]
<1>1. /\ l \notin There /\ There' = There \cup {l}
      /\ parent \in There \cup {NoParent}
      /\ locations'[l] = row /\ \A m \in There : locations'[m] = locations[m]
      /\ slug = <<>> => Above(parent) = <<>>
      /\ UNCHANGED <<placed, deletion>>
      /\ \A d \in Surveyors : deletion[d] # Waiting => deletion[d].root # l
  BY DEF CreateLocation, There
<1>2. NoParent \notin There /\ NoParent # l
  BY NoParentAssumption DEF TreeInv, PathsGrow
<1>3. path \in Seq(Labels) /\ (parent # NoParent => GrowsFrom(path, PathOf(parent)))
  <2>1. slug \in Seq(Labels)
    BY SlugAssumption
  <2>2. CASE parent = NoParent
    <3>1. Above(parent) = <<>>
      BY <2>2 DEF Above
    <3>2. QED
      BY <2>1, <2>2, <3>1
  <2>3. CASE parent # NoParent
    <3>1. PathOf(parent) \in Seq(Labels) /\ parent \in There
      BY <1>1, <2>3, PathTypes DEF TreeInv
    <3>2. path = PathOf(parent) \o slug /\ (slug = <<>> => PathOf(parent) = <<>>)
      BY <1>1, <2>3 DEF PathOf, Above
    <3> HIDE DEF path
    <3>3. path \in Seq(Labels) /\ Len(path) = Len(PathOf(parent)) + Len(slug)
          /\ \A i \in 1..Len(PathOf(parent)) : path[i] = PathOf(parent)[i]
      BY <2>1, <3>1, <3>2
    <3>4. Len(slug) \in Nat /\ Len(PathOf(parent)) \in Nat /\ (Len(slug) = 0 => slug = <<>>)
      BY <2>1, <3>1
    <3>5. Len(slug) = 0 => Len(PathOf(parent)) = 0
      BY <3>2, <3>4
    <3>6. QED
      BY <3>3, <3>4, <3>5 DEF GrowsFrom
  <2>4. QED
    BY <2>2, <2>3
<1> HIDE DEF path
<1>4. /\ PathOf(l)' = path /\ ParentOf(l)' = parent /\ \A m \in There : PathOf(m)' = PathOf(m) /\ ParentOf(m)' = ParentOf(m)
  BY <1>1 DEF PathOf, ParentOf
<1>5. PathsGrow'
  <2>1. (There \subseteq LocationIds)' /\ IsFiniteSet(There)'
    BY <1>1, FS_AddElement DEF TreeInv, PathsGrow
  <2>2. ASSUME NEW m \in There'
        PROVE  /\ (locations[m] \in LocationRow)'
               /\ (ParentOf(m) # NoParent => GrowsFrom(PathOf(m), PathOf(ParentOf(m))))'
    <3>1. CASE m = l
      <4>1. (locations[m] \in LocationRow)'
        BY <1>1, <1>3, <3>1 DEF LocationRow
      <4>2. parent # NoParent => PathOf(parent)' = PathOf(parent)
        BY <1>1, <1>4
      <4>3. QED
        BY <1>3, <1>4, <3>1, <4>1, <4>2 DEF GrowsFrom
    <3>2. CASE m # l
      <4>1. m \in There
        BY <1>1, <3>2
      <4>2. locations[m] \in LocationRow /\ locations'[m] = locations[m]
        BY <1>1, <4>1 DEF TreeInv, PathsGrow
      <4>3. (locations[m] \in LocationRow)'
        BY <1>1, <4>2 DEF LocationRow
      <4>4. ParentOf(m) # NoParent => ParentOf(m) \in There
        BY <4>2 DEF ParentOf, LocationRow
      <4>5. QED
        BY <1>4, <4>1, <4>3, <4>4 DEF TreeInv, PathsGrow, GrowsFrom
    <3>3. QED
      BY <3>1, <3>2
  <2>3. QED
    BY <2>1, <2>2 DEF PathsGrow
<1>6. RacksHaveLocations'
  BY <1>1 DEF TreeInv, RacksHaveLocations
<1>7. RootsKeepTheirPath'
  BY <1>1, <1>4 DEF TreeInv, RootsKeepTheirPath
<1>8. QED
  BY <1>5, <1>6, <1>7 DEF TreeInv

LEMMA UpdateKeepsTree ==
    ASSUME TreeInv, NEW l \in LocationIds, NEW slug \in Slugs, NEW grade \in Levels, UpdateLocation(l, slug, grade)
    PROVE  TreeInv'
<1>1. There' = There /\ UNCHANGED <<placed, deletion>>
  BY DEF UpdateLocation, There
<1>2. ASSUME NEW m \in There
      PROVE  /\ locations'[m] \in LocationRow
             /\ locations'[m].path = locations[m].path /\ locations'[m].parent = locations[m].parent
  <2>1. locations[m] \in LocationRow
    BY DEF TreeInv, PathsGrow
  <2>2. CASE m = l
    <3>1. locations'[m] = [locations[m] EXCEPT !.slug = slug, !.level = grade]
      BY <2>2 DEF UpdateLocation, There
    <3>2. QED
      BY <2>1, <3>1 DEF LocationRow
  <2>3. CASE m # l
    BY <2>1, <2>3 DEF UpdateLocation, There
  <2>4. QED
    BY <2>2, <2>3
<1>3. \A m \in There : PathOf(m)' = PathOf(m) /\ ParentOf(m)' = ParentOf(m) /\ (ParentOf(m) # NoParent => ParentOf(m) \in There)
  <2>1. ASSUME NEW m \in There PROVE locations[m] \in LocationRow
    BY DEF TreeInv, PathsGrow
  <2>2. QED
    BY <1>2, <2>1 DEF PathOf, ParentOf, LocationRow
<1>4. LocationRow' = LocationRow
  BY <1>1 DEF LocationRow
<1>5. PathsGrow'
  <2>1. (There \subseteq LocationIds)' /\ IsFiniteSet(There)'
    BY <1>1 DEF TreeInv, PathsGrow
  <2>2. \A m \in There' : /\ (locations[m] \in LocationRow)'
               /\ (ParentOf(m) # NoParent => GrowsFrom(PathOf(m), PathOf(ParentOf(m))))'
    BY <1>1, <1>2, <1>3, <1>4 DEF TreeInv, PathsGrow, GrowsFrom
  <2>3. QED
    BY <2>1, <2>2 DEF PathsGrow
<1>6. RacksHaveLocations'
  BY <1>1 DEF TreeInv, RacksHaveLocations
<1>7. RootsKeepTheirPath'
  BY <1>1, <1>3 DEF TreeInv, RootsKeepTheirPath
<1>8. QED
  BY <1>5, <1>6, <1>7 DEF TreeInv

\* Removing locations that nothing outside refers to keeps the rest a tree.
LEMMA RemovalKeepsTree ==
    ASSUME TreeInv, NEW S \in SUBSET There, Deletable(S), TakeAway(S), UNCHANGED placed
    PROVE  PathsGrow' /\ RacksHaveLocations' /\ There' = There \ S /\ \A m \in There' : PathOf(m)' = PathOf(m) /\ ParentOf(m)' = ParentOf(m)
<1>1. There' = There \ S /\ \A m \in There' : locations'[m] = locations[m]
  BY DEF TakeAway, There
<1>2. \A m \in There' : PathOf(m)' = PathOf(m) /\ ParentOf(m)' = ParentOf(m)
  BY <1>1 DEF PathOf, ParentOf
<1>3. ASSUME NEW m \in There'
      PROVE  /\ (locations[m] \in LocationRow)'
             /\ (ParentOf(m) # NoParent => GrowsFrom(PathOf(m), PathOf(ParentOf(m))))'
  <2>1. locations[m] \in LocationRow /\ m \in There
    BY <1>1 DEF TreeInv, PathsGrow
  <2>2. ParentOf(m) \in There' \cup {NoParent}
    BY <1>1, <2>1 DEF Deletable, ParentOf, LocationRow
  <2>3. (locations[m] \in LocationRow)'
    BY <1>1, <2>1, <2>2 DEF ParentOf, LocationRow
  <2>4. QED
    BY <1>2, <2>1, <2>2, <2>3 DEF TreeInv, PathsGrow, GrowsFrom
<1>4. (There \subseteq LocationIds)' /\ IsFiniteSet(There)'
  BY <1>1, FS_Subset DEF TreeInv, PathsGrow
<1>5. PathsGrow'
  BY <1>3, <1>4 DEF PathsGrow
<1>6. RacksHaveLocations'
  BY <1>1 DEF TreeInv, RacksHaveLocations, Deletable
<1>7. QED
  BY <1>1, <1>2, <1>5, <1>6

LEMMA DescendantsKeepTree ==
    ASSUME TreeInv, NEW d \in Surveyors, DeleteDescendantLocations(d)
    PROVE  TreeInv'
<1> DEFINE S == ListDescendants(deletion[d].path) \ {deletion[d].root}
<1>0. S \in SUBSET There
  BY DEF ListDescendants
<1>1. CASE Deletable(S)
  <2>1. TakeAway(S) /\ deletion' = [deletion EXCEPT ![d].op = "one"] /\ UNCHANGED placed /\ deletion[d].op = "tree"
    BY <1>1 DEF DeleteDescendantLocations
  <2> HIDE DEF S
  <2>2. PathsGrow' /\ RacksHaveLocations' /\ There' \subseteq There /\ \A m \in There' : PathOf(m)' = PathOf(m)
    BY <1>0, <1>1, <2>1, RemovalKeepsTree
  <2>3. deletion[d] \in [op : {"tree", "one"}, root : LocationIds, path : Seq(Labels)]
    BY <2>1 DEF TreeInv, RootsKeepTheirPath, Waiting
  <2>4. /\ deletion'[d] = [deletion[d] EXCEPT !.op = "one"]
        /\ \A e \in Surveyors \ {d} : deletion'[e] = deletion[e]
        /\ deletion' = [e \in Surveyors |-> deletion'[e]]
    BY <2>1 DEF TreeInv, RootsKeepTheirPath
  <2>5. /\ deletion'[d] \in [op : {"tree", "one"}, root : LocationIds, path : Seq(Labels)]
        /\ deletion'[d].path = deletion[d].path /\ deletion'[d].root = deletion[d].root
        /\ deletion[d] # Waiting
    BY <2>1, <2>3, <2>4 DEF Waiting
  <2>6. RootsKeepTheirPath'
    BY <2>2, <2>4, <2>5 DEF TreeInv, RootsKeepTheirPath, Waiting
  <2>7. QED
    BY <2>2, <2>6 DEF TreeInv
<1>2. CASE ~Deletable(S)
  <2>1. deletion' = [deletion EXCEPT ![d] = Waiting] /\ UNCHANGED <<locations, placed>>
    BY <1>2 DEF DeleteDescendantLocations
  <2>2. There' = There /\ \A m \in There : PathOf(m)' = PathOf(m) /\ ParentOf(m)' = ParentOf(m)
    BY <2>1 DEF There, PathOf, ParentOf
  <2>3. PathsGrow'
    BY <2>1 DEF TreeInv, PathsGrow, LocationRow, There, GrowsFrom, PathOf, ParentOf
  <2>4. RootsKeepTheirPath'
    BY <2>1, <2>2 DEF TreeInv, RootsKeepTheirPath, Waiting
  <2>5. RacksHaveLocations'
    BY <2>1, <2>2 DEF TreeInv, RacksHaveLocations
  <2>6. QED
    BY <2>3, <2>4, <2>5 DEF TreeInv
<1>3. QED
  BY <1>1, <1>2

LEMMA LocationKeepsTree ==
    ASSUME TreeInv, NEW d \in Surveyors, DeleteLocation(d)
    PROVE  TreeInv'
<1> DEFINE S == {deletion[d].root} \cap There
<1>1. deletion' = [deletion EXCEPT ![d] = Waiting] /\ UNCHANGED placed
  BY DEF DeleteLocation
<1>2. PathsGrow' /\ RacksHaveLocations' /\ There' \subseteq There /\ \A m \in There' : PathOf(m)' = PathOf(m)
  <2>1. CASE Deletable(S)
    <3>1. TakeAway(S) /\ S \in SUBSET There
      BY <2>1 DEF DeleteLocation
    <3> HIDE DEF S
    <3>2. QED
      BY <1>1, <2>1, <3>1, RemovalKeepsTree
  <2>2. CASE ~Deletable(S)
    <3>1. UNCHANGED locations
      BY <2>2 DEF DeleteLocation
    <3>2. QED
      BY <1>1, <3>1 DEF TreeInv, PathsGrow, RacksHaveLocations, LocationRow, There, GrowsFrom, PathOf, ParentOf
  <2>3. QED
    BY <2>1, <2>2
<1>3. RootsKeepTheirPath'
  BY <1>1, <1>2 DEF TreeInv, RootsKeepTheirPath, Waiting
<1>4. QED
  BY <1>2, <1>3 DEF TreeInv

LEMMA OthersKeepTree ==
    ASSUME TreeInv, UNCHANGED locations,
           \/ \E r \in RackNames, l \in LocationIds : PlaceRack(r, l)
           \/ \E r \in RackNames : RemoveRack(r)
           \/ \E d \in Surveyors, l \in LocationIds, recursive \in BOOLEAN : PreflightDeleteLocation(d, l, recursive)
           \/ UNCHANGED locationVars
    PROVE  TreeInv'
<1>1. There' = There /\ \A m \in There : PathOf(m)' = PathOf(m)
  BY DEF There, PathOf
<1>2. PathsGrow'
  BY DEF TreeInv, PathsGrow, LocationRow, There, GrowsFrom, PathOf, ParentOf
<1>3. CASE \E r \in RackNames, l \in LocationIds : PlaceRack(r, l)
  <2>1. RacksHaveLocations'
    BY <1>1, <1>3 DEF PlaceRack, TreeInv, RacksHaveLocations
  <2>2. UNCHANGED deletion
    BY <1>3 DEF PlaceRack
  <2>3. RootsKeepTheirPath'
    BY <1>1, <2>2 DEF TreeInv, RootsKeepTheirPath
  <2>4. QED
    BY <1>2, <2>1, <2>3 DEF TreeInv
<1>4. CASE \E r \in RackNames : RemoveRack(r)
  <2>1. RacksHaveLocations'
    BY <1>1, <1>4 DEF RemoveRack, TreeInv, RacksHaveLocations
  <2>2. UNCHANGED deletion
    BY <1>4 DEF RemoveRack
  <2>3. RootsKeepTheirPath'
    BY <1>1, <2>2 DEF TreeInv, RootsKeepTheirPath
  <2>4. QED
    BY <1>2, <2>1, <2>3 DEF TreeInv
<1>5. CASE \E d \in Surveyors, l \in LocationIds, recursive \in BOOLEAN : PreflightDeleteLocation(d, l, recursive)
  <2>1. PICK d \in Surveyors, l \in LocationIds, recursive \in BOOLEAN : PreflightDeleteLocation(d, l, recursive)
    BY <1>5
  <2> DEFINE started == [op |-> IF recursive THEN "tree" ELSE "one", root |-> l, path |-> locations[l].path]
  <2>2. deletion' = [deletion EXCEPT ![d] = started] /\ l \in There /\ UNCHANGED placed
    BY <2>1 DEF PreflightDeleteLocation
  <2>3. PathOf(l) \in Seq(Labels)
    BY <2>2, PathTypes DEF TreeInv
  <2>4. started \in [op : {"tree", "one"}, root : LocationIds, path : Seq(Labels)] /\ started.path = PathOf(l) /\ started.root = l
    BY <2>3 DEF PathOf
  <2> HIDE DEF started
  <2>5. RootsKeepTheirPath'
    BY <1>1, <2>2, <2>3, <2>4 DEF TreeInv, RootsKeepTheirPath
  <2>6. RacksHaveLocations'
    BY <1>1, <2>2 DEF TreeInv, RacksHaveLocations
  <2>7. QED
    BY <1>2, <2>5, <2>6 DEF TreeInv
<1>6. CASE UNCHANGED locationVars
  BY <1>1, <1>2, <1>6 DEF locationVars, TreeInv, RacksHaveLocations, RootsKeepTheirPath
<1>7. QED
  BY <1>3, <1>4, <1>5, <1>6

LEMMA TreeStep == ASSUME TreeInv, [LocationNext]_locationVars PROVE TreeInv'
<1>1. CASE \E l \in LocationIds, p \in LocationIds \cup {NoParent}, slug \in Slugs, grade \in Levels :
              CreateLocation(l, p, slug, grade)
  BY <1>1, CreateKeepsTree
<1>2. CASE \E l \in LocationIds, slug \in Slugs, grade \in Levels : UpdateLocation(l, slug, grade)
  BY <1>2, UpdateKeepsTree
<1>3. CASE \E r \in RackNames, l \in LocationIds : PlaceRack(r, l)
  BY <1>3, OthersKeepTree DEF PlaceRack
<1>4. CASE \E r \in RackNames : RemoveRack(r)
  BY <1>4, OthersKeepTree DEF RemoveRack
<1>5. CASE \E d \in Surveyors, l \in LocationIds, recursive \in BOOLEAN : PreflightDeleteLocation(d, l, recursive)
  BY <1>5, OthersKeepTree DEF PreflightDeleteLocation
<1>6. CASE \E d \in Surveyors : DeleteDescendantLocations(d)
  BY <1>6, DescendantsKeepTree
<1>7. CASE \E d \in Surveyors : DeleteLocation(d)
  BY <1>7, LocationKeepsTree
<1>8. CASE UNCHANGED locationVars
  BY <1>8, OthersKeepTree DEF locationVars
<1>9. QED
  BY <1>1, <1>2, <1>3, <1>4, <1>5, <1>6, <1>7, <1>8 DEF LocationNext

------------------------------------------------------------------------------
\* What a deletion takes away was below its root, and nothing that stays names it.
LEMMA RemovalStaysBelow ==
    ASSUME TreeInv, NEW d \in Surveyors, deletion[d] # Waiting, NEW S \in SUBSET There,
           deletion[d].path = <<>> \/ S \subseteq Family(deletion[d].path) \cup Misled, Deletable(S), TakeAway(S), UNCHANGED placed
    PROVE  /\ \E e \in Surveyors : deletion[e] # Waiting /\ (deletion[e].path = <<>> \/ There \ There' \subseteq Family(deletion[e].path) \cup Misled)
           /\ \A m \in There' : locations[m].parent \in There' \cup {NoParent}
           /\ \A r \in RackNames : placed[r].at \in There' \cup {NoParent}
<1>1. There' = There \ S /\ There \ There' = S
  BY DEF TakeAway, There
<1>2. ASSUME NEW m \in There' PROVE locations[m].parent \in There' \cup {NoParent}
  BY <1>1 DEF TreeInv, PathsGrow, LocationRow, Deletable
<1>3. ASSUME NEW r \in RackNames PROVE placed[r].at \in There' \cup {NoParent}
  BY <1>1 DEF TreeInv, RacksHaveLocations, Deletable
<1>4. QED
  BY <1>1, <1>2, <1>3

LEMMA DeletionsStayBelow ==
    ASSUME TreeInv, [LocationNext]_locationVars, ~(There \subseteq There')
    PROVE  /\ \E d \in Surveyors : deletion[d] # Waiting /\ (deletion[d].path = <<>> \/ There \ There' \subseteq Family(deletion[d].path) \cup Misled)
           /\ \A m \in There' : locations[m].parent \in There' \cup {NoParent}
           /\ \A r \in RackNames : placed[r].at \in There' \cup {NoParent}
<1>1. CASE \E d \in Surveyors : DeleteDescendantLocations(d)
  <2>1. PICK d \in Surveyors : DeleteDescendantLocations(d)
    BY <1>1
  <2> DEFINE S == ListDescendants(deletion[d].path) \ {deletion[d].root}
  <2>2. deletion[d] # Waiting /\ Deletable(S) /\ TakeAway(S) /\ UNCHANGED placed
    BY <2>1 DEF DeleteDescendantLocations, There, Waiting
  <2>3. deletion[d].path \in Seq(Labels)
    BY <2>2 DEF TreeInv, RootsKeepTheirPath
  <2>4. S \in SUBSET There /\ (deletion[d].path = <<>> \/ S \subseteq Family(deletion[d].path) \cup Misled)
    BY <2>3, FamilyIsAll DEF TreeInv, ListDescendants
  <2> HIDE DEF S
  <2>5. QED
    BY <2>2, <2>4, RemovalStaysBelow
<1>2. CASE \E d \in Surveyors : DeleteLocation(d)
  <2>1. PICK d \in Surveyors : DeleteLocation(d)
    BY <1>2
  <2> DEFINE S == {deletion[d].root} \cap There
  <2>2. deletion[d] # Waiting /\ Deletable(S) /\ TakeAway(S) /\ UNCHANGED placed
    BY <2>1 DEF DeleteLocation, There, Waiting
  <2>3. deletion[d].path \in Seq(Labels)
    BY <2>2 DEF TreeInv, RootsKeepTheirPath
  <2>4. ASSUME NEW m \in S PROVE m \in ListDescendants(deletion[d].path)
    <3>1. m \in There /\ PathOf(m) = deletion[d].path /\ PathOf(m) \in Seq(Labels)
      BY <2>2, PathTypes DEF TreeInv, RootsKeepTheirPath
    <3>2. AtOrBelow(PathOf(m), deletion[d].path)
      BY <3>1, BelowIs
    <3>3. QED
      BY <3>1, <3>2 DEF ListDescendants, PathOf
  <2>5. S \in SUBSET There /\ (deletion[d].path = <<>> \/ S \subseteq Family(deletion[d].path) \cup Misled)
    BY <2>3, <2>4, FamilyIsAll DEF TreeInv
  <2> HIDE DEF S
  <2>6. QED
    BY <2>2, <2>5, RemovalStaysBelow
<1>3. CASE ~(\E d \in Surveyors : DeleteDescendantLocations(d)) /\ ~(\E d \in Surveyors : DeleteLocation(d))
  <2>1. There \subseteq There'
    <3>1. CASE UNCHANGED locations
      BY <3>1 DEF There
    <3>2. CASE \E l \in LocationIds, p \in LocationIds \cup {NoParent}, slug \in Slugs, grade \in Levels :
                  CreateLocation(l, p, slug, grade)
      BY <3>2 DEF CreateLocation, There
    <3>3. CASE \E l \in LocationIds, slug \in Slugs, grade \in Levels : UpdateLocation(l, slug, grade)
      BY <3>3 DEF UpdateLocation, There
    <3>4. QED
      BY <1>3, <3>1, <3>2, <3>3 DEF LocationNext, PlaceRack, RemoveRack, PreflightDeleteLocation, locationVars
  <2>2. QED
    BY <2>1
<1>4. QED
  BY <1>1, <1>2, <1>3

\* What the topology service asks of the stored paths is what the tree of parents says,
\* however locations are renamed, and a deletion goes no further than the subtrees of
\* the path it read (domain/topology/service.go:223), but for what a dotted slug has
\* put below another location's path, and for questions about an empty path.
THEOREM TheTreeStands == LocationSpec => LocationTreeIsSound
<1>1. TreeInv => PathsFollowTheTree
  BY PathsAnswer
<1>2. TreeInv /\ [LocationNext]_locationVars =>
         (~(There \subseteq There') =>
            /\ \E d \in Surveyors :
                  /\ deletion[d] # Waiting
                  /\ \/ deletion[d].path = <<>>
                     \/ There \ There' \subseteq Family(deletion[d].path) \cup Misled
            /\ \A m \in There' : locations[m].parent \in There' \cup {NoParent}
            /\ \A r \in RackNames : placed[r].at \in There' \cup {NoParent})
  BY DeletionsStayBelow
<1>3. QED
  BY <1>1, <1>2, TreeStart, TreeStep, PTL DEF LocationSpec, LocationTreeIsSound, DeleteStaysBelow

------------------------------------------------------------------------------
(***************************************************************************)
(* The history of the dependency graph, for any assets, edges and          *)
(* requests: DependencyInv says that an edge began in the past, and is     *)
(* open or ended in the past, and that an edge that has its row has its    *)
(* source, so that what is true of a past moment stays true of it.         *)
(***************************************************************************)

\* A row of the table, and what a request that creates one has so far.
Edge == [src : AssetIds, tgt : AssetIds, from : Nat, to : Nat, blind : BOOLEAN, erased : BOOLEAN]
Creation == {NotCreating} \cup [at : {"checked"}, src : AssetIds, tgt : AssetIds, blind : BOOLEAN]

DependencyTypeOK ==
    /\ live \subseteq AssetIds
    /\ dependencies \in Seq(Edge)
    /\ clock \in 0..MaxTime
    /\ creating \in [Callers -> Creation]

\* An edge began in the past, and is open or ended in the past.
EdgeIsPast(i) == dependencies[i].from <= clock /\ (dependencies[i].to = Open \/ dependencies[i].to <= clock)

\* The source of an edge that has a row has one too: what the foreign key's cascade keeps.
SourceIsThere(i) == ~dependencies[i].erased => dependencies[i].src \in live

DependencyInv == DependencyTypeOK /\ \A i \in DOMAIN dependencies : EdgeIsPast(i) /\ SourceIsThere(i)

\* What a creation's INSERT does to the table: nothing, or an open edge from now on at its end.
LEMMA InsertAppends ==
    ASSUME DependencyInv, NEW c \in Callers, CreateAssetDependency(c), dependencies' # dependencies
    PROVE  \E e \in Edge : /\ dependencies' = Append(dependencies, e)
                           /\ e.from = clock /\ e.to = Open /\ e.src \in live
<1> DEFINE d == creating[c]
           e == [src |-> d.src, tgt |-> d.tgt, from |-> clock, to |-> Open, blind |-> d.blind, erased |-> FALSE]
<1>1. d.at = "checked" /\ d \in Creation
  BY DEF CreateAssetDependency, DependencyInv, DependencyTypeOK
<1>2. d.src \in AssetIds /\ d.tgt \in AssetIds /\ d.blind \in BOOLEAN
  BY <1>1 DEF Creation, NotCreating
<1>3. dependencies' = Append(dependencies, e) /\ e.src \in live
  BY DEF CreateAssetDependency
<1>4. clock \in Nat /\ Open \in Nat
  BY DependencyAssumption DEF DependencyInv, DependencyTypeOK, Open
<1>5. e \in Edge /\ e.from = clock /\ e.to = Open
  BY <1>2, <1>4 DEF Edge
<1>6. QED
  BY <1>3, <1>5

\* What the other writes leave of each row: the row as it was, closed now, or without its source.
LEMMA RowsStay ==
    ASSUME DependencyInv, [WriteDependencies \/ GetTopologyGraph \/ ClockTicks]_dependencyVars,
           ~\E c \in Callers : CreateAssetDependency(c)
    PROVE  /\ dependencies' \in Seq(Edge) /\ DOMAIN dependencies' = DOMAIN dependencies
           /\ \A i \in DOMAIN dependencies :
                 /\ dependencies'[i].src = dependencies[i].src /\ dependencies'[i].tgt = dependencies[i].tgt
                 /\ dependencies'[i].from = dependencies[i].from /\ dependencies'[i].blind = dependencies[i].blind
                 /\ \/ dependencies'[i].to = dependencies[i].to
                    \/ dependencies[i].to = Open /\ dependencies'[i].to = clock
                 /\ dependencies'[i].erased <=> dependencies[i].erased \/ dependencies[i].src \notin live'
<1>0. dependencies \in Seq(Edge) /\ clock \in Nat
  BY DEF DependencyInv, DependencyTypeOK
<1>1. ASSUME NEW i \in DOMAIN dependencies, DeleteAssetDependency(i)
      PROVE  /\ dependencies' \in Seq(Edge) /\ DOMAIN dependencies' = DOMAIN dependencies
             /\ dependencies[i].to = Open /\ dependencies'[i].to = clock /\ live' = live
             /\ dependencies'[i].src = dependencies[i].src /\ dependencies'[i].from = dependencies[i].from
             /\ dependencies'[i].tgt = dependencies[i].tgt /\ dependencies'[i].blind = dependencies[i].blind
             /\ dependencies'[i].erased = dependencies[i].erased
             /\ \A j \in DOMAIN dependencies \ {i} : dependencies'[j] = dependencies[j]
  <2> DEFINE e == [dependencies[i] EXCEPT !.to = clock]
  <2>1. dependencies[i] \in Edge /\ dependencies[i].to = Open /\ dependencies' = [dependencies EXCEPT ![i] = e]
    BY <1>0, <1>1 DEF DeleteAssetDependency, IsOpen
  <2>2. e \in Edge /\ e.to = clock /\ e.src = dependencies[i].src /\ e.from = dependencies[i].from
        /\ e.erased = dependencies[i].erased /\ e.tgt = dependencies[i].tgt /\ e.blind = dependencies[i].blind
    BY <1>0, <2>1 DEF Edge
  <2> HIDE DEF e
  <2>3. QED
    BY <1>0, <1>1, <2>1, <2>2 DEF DeleteAssetDependency
<1>2. ASSUME NEW a \in AssetIds, DeleteAsset(a)
      PROVE  /\ dependencies' \in Seq(Edge) /\ DOMAIN dependencies' = DOMAIN dependencies /\ live' = live \ {a}
             /\ \A i \in DOMAIN dependencies :
                   /\ dependencies'[i].src = dependencies[i].src /\ dependencies'[i].tgt = dependencies[i].tgt
                   /\ dependencies'[i].from = dependencies[i].from /\ dependencies'[i].blind = dependencies[i].blind
                   /\ dependencies'[i].to = dependencies[i].to
                   /\ dependencies'[i].erased <=> dependencies[i].erased \/ dependencies[i].src = a
  <2>1. ASSUME NEW i \in DOMAIN dependencies
        PROVE  LET e == [dependencies[i] EXCEPT !.erased = TRUE] IN
               /\ e \in Edge /\ e.src = dependencies[i].src /\ e.from = dependencies[i].from
               /\ e.tgt = dependencies[i].tgt /\ e.blind = dependencies[i].blind
               /\ e.to = dependencies[i].to /\ e.erased
    <3>1. dependencies[i] \in Edge
      BY <1>0
    <3>2. QED
      BY <3>1 DEF Edge
  <2>2. /\ live' = live \ {a} /\ DOMAIN dependencies' = DOMAIN dependencies
        /\ \A i \in DOMAIN dependencies :
              dependencies'[i] = IF dependencies[i].src = a THEN [dependencies[i] EXCEPT !.erased = TRUE]
                                 ELSE dependencies[i]
    BY <1>2 DEF DeleteAsset
  <2>3. dependencies' \in Seq(Edge)
    <3>1. dependencies' = [i \in 1..Len(dependencies) |-> dependencies'[i]]
      BY <1>0, <1>2 DEF DeleteAsset
    <3>2. \A i \in 1..Len(dependencies) : dependencies'[i] \in Edge
      BY <1>0, <2>1, <2>2
    <3>3. QED
      BY <1>0, <3>1, <3>2
  <2>4. QED
    BY <1>0, <2>1, <2>2, <2>3
<1>3. CASE dependencies' = dependencies /\ live' = live
  BY <1>0, <1>3 DEF DependencyInv, SourceIsThere
<1>4. (\E i \in DOMAIN dependencies : DeleteAssetDependency(i)) \/ (\E a \in AssetIds : DeleteAsset(a))
      \/ (dependencies' = dependencies /\ live' = live)
  BY DEF WriteDependencies, GetTopologyGraph, CycleCheck, FetchAssets, FetchEdges, FetchExternal, ClockTicks, dependencyVars
<1>5. \A i \in DOMAIN dependencies : ~dependencies[i].erased => dependencies[i].src \in live
  BY DEF DependencyInv, SourceIsThere
<1>6. QED
  BY <1>1, <1>2, <1>3, <1>4, <1>5

\* Every step keeps what is known of the edges, and changes no answer about the past but by a
\* source that goes.
LEMMA DependencyStep ==
    ASSUME DependencyInv, [WriteDependencies \/ GetTopologyGraph \/ ClockTicks]_dependencyVars
    PROVE  /\ DependencyInv'
           /\ \A t \in 0..(clock - 1) : EdgesAt(t)' = {i \in EdgesAt(t) : dependencies[i].src \in live'}
<1>0. /\ dependencies \in Seq(Edge) /\ clock \in Nat /\ Open \in Nat /\ clock < Open
      /\ \A i \in DOMAIN dependencies : EdgeIsPast(i) /\ SourceIsThere(i) /\ dependencies[i] \in Edge
  BY DependencyAssumption DEF DependencyInv, DependencyTypeOK, Open
<1>1. /\ live' \subseteq AssetIds /\ clock' \in 0..MaxTime /\ clock <= clock'
      /\ creating' \in [Callers -> Creation]
  <2>1. ASSUME NEW c \in Callers, NEW s \in AssetIds, NEW t \in AssetIds, CycleCheck(c, s, t)
        PROVE  live' = live /\ clock' = clock /\ creating' \in [Callers -> Creation]
    BY <2>1 DEF CycleCheck, Checked, Creation, DependencyInv, DependencyTypeOK
  <2>2. ASSUME NEW c \in Callers, CreateAssetDependency(c)
        PROVE  live' = live /\ clock' = clock /\ creating' \in [Callers -> Creation]
    <3>1. /\ NotCreating \in Creation
          /\ \A x \in Callers : creating[x] # NotCreating => [creating[x] EXCEPT !.blind = TRUE] \in Creation
      <4>1. ASSUME NEW x \in Callers, creating[x] # NotCreating PROVE [creating[x] EXCEPT !.blind = TRUE] \in Creation
        <5>1. creating[x] \in [at : {"checked"}, src : AssetIds, tgt : AssetIds, blind : BOOLEAN]
          BY <4>1 DEF DependencyInv, DependencyTypeOK, Creation
        <5>2. QED
          BY <5>1 DEF Creation
      <4>2. QED
        BY <4>1 DEF Creation
    <3>2. \/ creating' = [x \in Callers |-> IF x = c \/ creating[x] = NotCreating THEN (IF x = c THEN NotCreating ELSE creating[x])
                                            ELSE [creating[x] EXCEPT !.blind = TRUE]]
          \/ creating' = [creating EXCEPT ![c] = NotCreating]
      BY <2>2 DEF CreateAssetDependency
    <3>3. creating \in [Callers -> Creation]
      BY DEF DependencyInv, DependencyTypeOK
    <3>4. creating' \in [Callers -> Creation]
      BY <3>1, <3>2, <3>3
    <3>5. QED
      BY <2>2, <3>4 DEF CreateAssetDependency
  <2>3. ASSUME NEW i, DeleteAssetDependency(i)
        PROVE  live' = live /\ clock' = clock /\ creating' = creating
    BY <2>3 DEF DeleteAssetDependency
  <2>4. ASSUME NEW a, DeleteAsset(a)
        PROVE  live' \subseteq live /\ clock' = clock /\ creating' = creating
    BY <2>4 DEF DeleteAsset
  <2>5. GetTopologyGraph \/ UNCHANGED dependencyVars => live' = live /\ clock' = clock /\ creating' = creating
    BY DEF GetTopologyGraph, FetchAssets, FetchEdges, FetchExternal, dependencyVars
  <2>6. CASE ClockTicks
    BY <2>6, DependencyAssumption DEF ClockTicks, DependencyInv, DependencyTypeOK
  <2>7. QED
    BY <1>0, <2>1, <2>2, <2>3, <2>4, <2>5, <2>6 DEF WriteDependencies, DependencyInv, DependencyTypeOK
<1>2. ASSUME NEW c \in Callers, CreateAssetDependency(c), dependencies' # dependencies
      PROVE  /\ DependencyInv'
             /\ \A t \in 0..(clock - 1) : EdgesAt(t)' = {i \in EdgesAt(t) : dependencies[i].src \in live'}
  <2>1. PICK e \in Edge : dependencies' = Append(dependencies, e) /\ e.from = clock /\ e.to = Open /\ e.src \in live
    BY <1>2, InsertAppends
  <2>2. clock' = clock /\ live' = live
    BY <1>2 DEF CreateAssetDependency
  <2> DEFINE k == Len(dependencies) + 1
  <2>3. /\ dependencies' \in Seq(Edge) /\ DOMAIN dependencies' = DOMAIN dependencies \cup {k}
        /\ dependencies'[k] = e /\ k \notin DOMAIN dependencies
        /\ \A i \in DOMAIN dependencies : dependencies'[i] = dependencies[i]
    BY <1>0, <2>1
  <2> HIDE DEF k
  <2>4. \A i \in DOMAIN dependencies' : (EdgeIsPast(i) /\ SourceIsThere(i))'
    BY <1>0, <2>1, <2>2, <2>3 DEF EdgeIsPast, SourceIsThere, Open
  <2>5. DependencyInv'
    BY <1>1, <2>3, <2>4 DEF DependencyInv, DependencyTypeOK
  <2>6. ASSUME NEW t \in 0..(clock - 1)
        PROVE  EdgesAt(t)' = {i \in EdgesAt(t) : dependencies[i].src \in live'}
    <3>1. t # Now /\ t < clock /\ t \in Nat
      BY <1>0, DependencyAssumption
    <3>2. /\ EdgesAt(t) = {i \in DOMAIN dependencies : ~dependencies[i].erased /\ dependencies[i].from <= t /\ t < dependencies[i].to}
          /\ EdgesAt(t)' = {i \in DOMAIN dependencies' : ~dependencies'[i].erased /\ dependencies'[i].from <= t /\ t < dependencies'[i].to}
      BY <3>1 DEF EdgesAt, InEffect, Rows
    <3>3. ~(e.from <= t)
      BY <1>0, <2>1, <3>1
    <3>4. \A i \in EdgesAt(t) : dependencies[i].src \in live'
      BY <1>0, <2>2, <3>2 DEF SourceIsThere
    <3>5. QED
      BY <2>3, <3>2, <3>3, <3>4
  <2>7. QED
    BY <2>5, <2>6
<1>3. CASE ~\E c \in Callers : CreateAssetDependency(c) /\ dependencies' # dependencies
  <2>1. /\ dependencies' \in Seq(Edge) /\ DOMAIN dependencies' = DOMAIN dependencies
        /\ \A i \in DOMAIN dependencies :
              /\ dependencies'[i].src = dependencies[i].src
              /\ dependencies'[i].from = dependencies[i].from
              /\ \/ dependencies'[i].to = dependencies[i].to
                 \/ dependencies[i].to = Open /\ dependencies'[i].to = clock
              /\ dependencies'[i].erased <=> dependencies[i].erased \/ dependencies[i].src \notin live'
    <3>1. CASE \E c \in Callers : CreateAssetDependency(c)
      <4>1. dependencies' = dependencies /\ live' = live
        BY <1>3, <3>1 DEF CreateAssetDependency
      <4>2. QED
        BY <1>0, <4>1 DEF SourceIsThere
    <3>2. QED
      BY <3>1, RowsStay
  <2>2. \A i \in DOMAIN dependencies' : (EdgeIsPast(i) /\ SourceIsThere(i))'
    <3> SUFFICES ASSUME NEW i \in DOMAIN dependencies PROVE EdgeIsPast(i)' /\ SourceIsThere(i)'
      BY <2>1
    <3>1. /\ clock' \in Nat /\ clock <= clock' /\ Open' = Open
          /\ dependencies[i].from \in Nat /\ dependencies[i].to \in Nat
      BY <1>0, <1>1, DependencyAssumption DEF Edge, Open
    <3>2. EdgeIsPast(i)'
      BY <1>0, <2>1, <3>1 DEF EdgeIsPast
    <3>3. SourceIsThere(i)'
      BY <2>1 DEF SourceIsThere
    <3>4. QED
      BY <3>2, <3>3
  <2>3. DependencyInv'
    BY <1>1, <2>1, <2>2 DEF DependencyInv, DependencyTypeOK
  <2>4. ASSUME NEW t \in 0..(clock - 1)
        PROVE  EdgesAt(t)' = {i \in EdgesAt(t) : dependencies[i].src \in live'}
    <3>1. t # Now /\ t < clock /\ t \in Nat
      BY <1>0, DependencyAssumption
    <3>2. /\ EdgesAt(t) = {i \in DOMAIN dependencies : ~dependencies[i].erased /\ dependencies[i].from <= t /\ t < dependencies[i].to}
          /\ EdgesAt(t)' = {i \in DOMAIN dependencies' : ~dependencies'[i].erased /\ dependencies'[i].from <= t /\ t < dependencies'[i].to}
      BY <3>1 DEF EdgesAt, InEffect, Rows
    <3>3. \A i \in DOMAIN dependencies : t < dependencies'[i].to <=> t < dependencies[i].to
      BY <1>0, <2>1, <3>1
    <3>4. QED
      BY <2>1, <3>2, <3>3
  <2>5. QED
    BY <2>3, <2>4
<1>4. QED
  BY <1>2, <1>3

\* The edges' history is consistent at every moment.
LEMMA DependencyInvariant == DependencySpec => []DependencyInv
<1>1. DependencyInit => DependencyInv
  <2> SUFFICES ASSUME DependencyInit PROVE DependencyInv
    OBVIOUS
  <2>1. DependencyTypeOK /\ DOMAIN dependencies = {}
    BY DependencyAssumption DEF DependencyInit, DependencyTypeOK, Creation
  <2>2. QED
    BY <2>1 DEF DependencyInv
<1>2. DependencyInv /\ [WriteDependencies \/ GetTopologyGraph \/ ClockTicks]_dependencyVars => DependencyInv'
  BY DependencyStep
<1>3. QED
  BY <1>1, <1>2, PTL DEF DependencySpec

\* An instant gone by is answered the same for good, but for the edges out of an asset that was
\* deleted (migration 000057).
THEOREM StableHistory == DependencySpec => HistoryIsStable
<1>1. DependencyInv /\ [WriteDependencies \/ GetTopologyGraph \/ ClockTicks]_dependencyVars =>
        [\A t \in 0..(clock - 1) :
            EdgesAt(t)' = {i \in EdgesAt(t) : dependencies[i].src \in live'}]_dependencyVars
  BY DependencyStep
<1>2. QED
  BY <1>1, DependencyInvariant, PTL DEF DependencySpec, HistoryIsStable

------------------------------------------------------------------------------
(***************************************************************************)
(* Dependencies as a graph: the capped recursive query returns the walks   *)
(* that meet no asset twice, and their ends are what breadth-first search  *)
(* reaches.                                                                *)
(***************************************************************************)

\* A path along hops that meets no asset twice.
IsWalk(hops, root, p) ==
    /\ p \in Seq(AssetIds) /\ Len(p) > 1 /\ p[1] = root
    /\ \A i \in 1..(Len(p) - 1) : <<p[i], p[i + 1]>> \in hops
    /\ \A i, j \in 1..Len(p) : i # j => p[i] # p[j]

\* No edge joins an asset with itself.
Joining(hops) == hops \subseteq AssetIds \X AssetIds /\ \A h \in hops : h[1] # h[2]

\* The rounds of the recursive query.
Longer(hops) ==
    [T \in SUBSET Seq(AssetIds) |->
        {Append(w[1], w[2][2]) : w \in {v \in T \X hops : v[2][1] = Last(v[1]) /\ v[2][2] \notin Range(v[1])}}]

Tree(hops, root, d) ==
    LET tree[k \in 1..d] ==
          IF k = 1 THEN {h \in hops : h[1] = root}
          ELSE {Append(w[1], w[2][2]) :
                  w \in {v \in tree[k - 1] \X hops :
                           /\ v[2][1] = Last(v[1])
                           /\ v[2][2] \notin Range(v[1])}}
    IN tree

LEMMA LongerType ==
    ASSUME NEW hops, Joining(hops)
    PROVE  /\ Longer(hops) \in [SUBSET Seq(AssetIds) -> SUBSET Seq(AssetIds)]
           /\ \A T \in SUBSET Seq(AssetIds) : Longer(hops)[T] =
                 {Append(w[1], w[2][2]) : w \in {v \in T \X hops : v[2][1] = Last(v[1]) /\ v[2][2] \notin Range(v[1])}}
<1>1. ASSUME NEW T \in SUBSET Seq(AssetIds), NEW w \in T \X hops PROVE Append(w[1], w[2][2]) \in Seq(AssetIds)
  <2>1. w[1] \in Seq(AssetIds) /\ w[2][2] \in AssetIds
    BY DEF Joining
  <2>2. QED
    BY <2>1
<1>2. ASSUME NEW T \in SUBSET Seq(AssetIds)
      PROVE  {Append(w[1], w[2][2]) : w \in {v \in T \X hops : v[2][1] = Last(v[1]) /\ v[2][2] \notin Range(v[1])}}
                \in SUBSET Seq(AssetIds)
  BY <1>1
<1>3. QED
  BY <1>2 DEF Longer

LEMMA TreeIs ==
    ASSUME NEW hops, Joining(hops), NEW root \in AssetIds, NEW d \in Nat, d > 0
    PROVE  /\ DOMAIN Tree(hops, root, d) = 1..d
           /\ Tree(hops, root, d)[1] = {h \in hops : h[1] = root}
           /\ \A k \in 2..d : Tree(hops, root, d)[k] = Longer(hops)[Tree(hops, root, d)[k - 1]]
           /\ \A k \in 1..d : Tree(hops, root, d)[k] \in SUBSET Seq(AssetIds)
<1> DEFINE V == SUBSET Seq(AssetIds)
           first == {h \in hops : h[1] = root}
           more(T) == {Append(w[1], w[2][2]) : w \in {v \in T \X hops : v[2][1] = Last(v[1]) /\ v[2][2] \notin Range(v[1])}}
           Follows(f) == f = [k \in 1..d |-> IF k = 1 THEN first ELSE more(f[k - 1])]
<1>1. first \in V
  <2>1. ASSUME NEW h \in hops PROVE h \in Seq(AssetIds)
    <3>1. PICK a \in AssetIds, b \in AssetIds : h = <<a, b>>
      BY DEF Joining
    <3>2. QED
      BY <3>1
  <2>2. QED
    BY <2>1
<1> HIDE DEF first, more
<1>2. /\ Longer(hops) \in [V -> V] /\ DOMAIN Longer(hops) = V
      /\ \A T \in V : Longer(hops)[T] = more(T)
  BY LongerType DEF more
<1> HIDE DEF V
<1>3. PICK f : Rounds(f, Longer(hops), first, d - 1)
  <2>1. d - 1 \in Nat
    OBVIOUS
  <2>2. QED
    BY <1>1, <1>2, <2>1, RoundsExist
<1>4. f \in [0..(d - 1) -> V] /\ f[0] = first /\ \A k \in 1..(d - 1) : f[k] = Longer(hops)[f[k - 1]]
  BY <1>2, <1>3 DEF Rounds
<1> DEFINE g == [k \in 1..d |-> f[k - 1]]
<1>5. Follows(g)
  <2>1. ASSUME NEW k \in 1..d PROVE g[k] = IF k = 1 THEN first ELSE more(g[k - 1])
    <3>1. CASE k = 1
      BY <1>4, <3>1
    <3>2. CASE k # 1
      <4>1. k - 1 \in 1..(d - 1) /\ k - 1 \in 1..d /\ (k - 1) - 1 \in 0..(d - 1)
        BY <3>2
      <4>2. g[k] = f[k - 1] /\ g[k - 1] = f[(k - 1) - 1]
        BY <4>1
      <4> HIDE DEF g
      <4>3. f[k - 1] = Longer(hops)[f[(k - 1) - 1]] /\ f[(k - 1) - 1] \in V
        BY <1>4, <4>1
      <4>4. QED
        BY <1>2, <3>2, <4>2, <4>3
    <3>3. QED
      BY <3>1, <3>2
  <2>2. g = [k \in 1..d |-> g[k]]
    OBVIOUS
  <2> HIDE DEF g
  <2>3. QED
    BY <2>1, <2>2, Zenon
<1>6. Tree(hops, root, d) = CHOOSE h : Follows(h)
  BY Zenon DEF Tree, more, first
<1>7. Follows(Tree(hops, root, d))
  <2> HIDE DEF Follows, g
  <2>1. QED
    BY <1>5, <1>6
<1> DEFINE tree == Tree(hops, root, d)
<1>8. DOMAIN tree = 1..d /\ \A k \in 1..d : tree[k] = IF k = 1 THEN first ELSE more(tree[k - 1])
  <2> HIDE DEF tree
  <2>1. Follows(tree)
    BY <1>7 DEF tree
  <2>2. QED
    BY <2>1
<1> HIDE DEF tree, Follows, g
<1>9. \A k \in 1..d : tree[k] \in V
  <2> DEFINE S == {k \in Nat : k + 1 <= d => tree[k + 1] \in V}
  <2>1. 0 \in S
    BY <1>1, <1>8
  <2>2. ASSUME NEW k \in Nat, k \in S PROVE k + 1 \in S
    <3>1. SUFFICES ASSUME (k + 1) + 1 <= d PROVE tree[(k + 1) + 1] \in V
      OBVIOUS
    <3>2. (k + 1) + 1 \in 1..d /\ (k + 1) + 1 # 1 /\ ((k + 1) + 1) - 1 = k + 1 /\ k + 1 <= d
      BY <3>1
    <3>3. tree[(k + 1) + 1] = more(tree[k + 1]) /\ tree[k + 1] \in V
      BY <1>8, <2>2, <3>2
    <3>4. QED
      BY <1>2, <3>3
  <2> HIDE DEF S
  <2>3. Nat \subseteq S
    BY <2>1, <2>2, SetInduction
  <2>4. ASSUME NEW k \in 1..d PROVE tree[k] \in V
    <3>1. k - 1 \in S /\ (k - 1) + 1 = k /\ k <= d
      BY <2>3
    <3>2. QED
      BY <3>1 DEF S
  <2>5. QED
    BY <2>4
<1>10. \A k \in 2..d : tree[k] = Longer(hops)[tree[k - 1]]
  BY <1>2, <1>8, <1>9
<1>11. tree[1] = first
  BY <1>8
<1>12. QED
  BY <1>8, <1>9, <1>10, <1>11 DEF tree, first, V

\* A walk with one asset more.
LEMMA WalkGrows ==
    ASSUME NEW hops, Joining(hops), NEW root \in AssetIds, NEW w, IsWalk(hops, root, w), NEW x \in AssetIds,
           <<w[Len(w)], x>> \in hops, x \notin Range(w)
    PROVE  IsWalk(hops, root, Append(w, x)) /\ Len(Append(w, x)) = Len(w) + 1
<1> DEFINE p == Append(w, x)
<1>1. w \in Seq(AssetIds) /\ Len(w) \in Nat /\ Len(w) > 1
  BY DEF IsWalk
<1>2. /\ p \in Seq(AssetIds) /\ Len(p) = Len(w) + 1 /\ p[Len(w) + 1] = x
      /\ \A i \in 1..Len(w) : p[i] = w[i]
  BY <1>1
<1>3. \A i \in 1..Len(w) : w[i] # x
  BY <1>1 DEF Range
<1> HIDE DEF p
<1>4. ASSUME NEW i \in 1..(Len(p) - 1) PROVE <<p[i], p[i + 1]>> \in hops
  <2>1. CASE i = Len(w)
    BY <1>1, <1>2, <2>1
  <2>2. CASE i # Len(w)
    <3>1. i \in 1..(Len(w) - 1) /\ i \in 1..Len(w) /\ i + 1 \in 1..Len(w)
      BY <1>1, <1>2, <2>2
    <3>2. QED
      BY <1>2, <3>1 DEF IsWalk
  <2>3. QED
    BY <2>1, <2>2
<1>5. ASSUME NEW i \in 1..Len(p), NEW j \in 1..Len(p), i # j PROVE p[i] # p[j]
  <2>1. i \in 1..Len(w) \/ i = Len(w) + 1
    BY <1>1, <1>2
  <2>2. j \in 1..Len(w) \/ j = Len(w) + 1
    BY <1>1, <1>2
  <2>3. QED
    BY <1>2, <1>3, <1>5, <2>1, <2>2 DEF IsWalk
<1>6. p[1] = root
  BY <1>1, <1>2 DEF IsWalk
<1>7. QED
  BY <1>1, <1>2, <1>4, <1>5, <1>6 DEF IsWalk, p

\* The beginning of a walk.
LEMMA WalkShrinks ==
    ASSUME NEW hops, NEW root, NEW p, IsWalk(hops, root, p), NEW n \in 2..Len(p)
    PROVE  /\ IsWalk(hops, root, SubSeq(p, 1, n)) /\ Len(SubSeq(p, 1, n)) = n
           /\ \A i \in 1..n : SubSeq(p, 1, n)[i] = p[i]
<1> DEFINE w == SubSeq(p, 1, n)
<1>1. p \in Seq(AssetIds) /\ Len(p) \in Nat
  BY DEF IsWalk
<1>2. w \in Seq(AssetIds) /\ Len(w) = n /\ \A i \in 1..n : w[i] = p[i]
  BY <1>1
<1> HIDE DEF w
<1>3. \A i \in 1..(n - 1) : <<w[i], w[i + 1]>> \in hops
  BY <1>1, <1>2 DEF IsWalk
<1>4. \A i, j \in 1..n : i # j => w[i] # w[j]
  BY <1>1, <1>2 DEF IsWalk
<1>5. w[1] = root
  BY <1>1, <1>2 DEF IsWalk
<1>6. QED
  BY <1>2, <1>3, <1>4, <1>5 DEF IsWalk, w

\* The k-th round finds the walks of k hops.
LEMMA LayerIs ==
    ASSUME NEW hops, Joining(hops), NEW root \in AssetIds, NEW d \in Nat, d > 0, NEW k \in 1..d, NEW p
    PROVE  p \in Tree(hops, root, d)[k] <=> IsWalk(hops, root, p) /\ Len(p) = k + 1
<1> DEFINE tree == Tree(hops, root, d)
           S == {n \in Nat : n + 1 <= d =>
                    \A q : q \in tree[n + 1] <=> IsWalk(hops, root, q) /\ Len(q) = n + 2}
<1>1. 0 \in S
  <2>1. ASSUME NEW q, q \in tree[1] PROVE IsWalk(hops, root, q) /\ Len(q) = 2
    <3>1. q \in hops /\ q[1] = root
      BY <2>1, TreeIs
    <3>2. PICK a \in AssetIds, b \in AssetIds : q = <<a, b>> /\ a # b
      BY <3>1 DEF Joining
    <3>3. QED
      BY <3>1, <3>2 DEF IsWalk
  <2>2. ASSUME NEW q, IsWalk(hops, root, q), Len(q) = 2 PROVE q \in tree[1]
    <3>1. q \in Seq(AssetIds) /\ q[1] = root /\ <<q[1], q[1 + 1]>> \in hops
      BY <2>2 DEF IsWalk
    <3>2. q = <<q[1], q[2]>>
      BY <2>2, <3>1
    <3>3. q \in hops
      BY <3>1, <3>2
    <3>4. QED
      BY <3>1, <3>3, TreeIs
  <2>3. QED
    BY <2>1, <2>2
<1>2. ASSUME NEW n \in Nat, n \in S PROVE n + 1 \in S
  <2>1. SUFFICES ASSUME (n + 1) + 1 <= d, NEW q
                 PROVE  q \in tree[(n + 1) + 1] <=> IsWalk(hops, root, q) /\ Len(q) = (n + 1) + 2
    OBVIOUS
  <2>2. \A v : v \in tree[n + 1] <=> IsWalk(hops, root, v) /\ Len(v) = n + 2
    BY <1>2, <2>1
  <2>3. (n + 1) + 1 \in 2..d /\ ((n + 1) + 1) - 1 = n + 1 /\ n + 1 \in 1..d
    BY <2>1
  <2>4. tree[(n + 1) + 1] = Longer(hops)[tree[n + 1]] /\ tree[n + 1] \in SUBSET Seq(AssetIds)
    BY <2>3, TreeIs
  <2> HIDE DEF tree, S
  <2>5. tree[(n + 1) + 1] = {Append(w[1], w[2][2]) :
            w \in {v \in tree[n + 1] \X hops : v[2][1] = Last(v[1]) /\ v[2][2] \notin Range(v[1])}}
    BY <2>4, LongerType
  <2>6. ASSUME q \in tree[(n + 1) + 1] PROVE IsWalk(hops, root, q) /\ Len(q) = (n + 1) + 2
    <3>1. PICK w \in tree[n + 1], h \in hops : q = Append(w, h[2]) /\ h[1] = Last(w) /\ h[2] \notin Range(w)
      BY <2>5, <2>6
    <3>2. IsWalk(hops, root, w) /\ Len(w) = n + 2
      BY <2>2
    <3>3. h[2] \in AssetIds /\ <<w[Len(w)], h[2]>> \in hops
      BY <3>1 DEF Last, Joining
    <3>4. QED
      BY <3>1, <3>2, <3>3, WalkGrows
  <2>7. ASSUME IsWalk(hops, root, q), Len(q) = (n + 1) + 2 PROVE q \in tree[(n + 1) + 1]
    <3> DEFINE w == SubSeq(q, 1, n + 2)
               h == <<q[n + 2], q[n + 3]>>
    <3>1. q \in Seq(AssetIds) /\ n + 2 \in 2..Len(q)
      BY <2>7 DEF IsWalk
    <3>2. IsWalk(hops, root, w) /\ Len(w) = n + 2 /\ \A i \in 1..(n + 2) : w[i] = q[i]
      BY <2>7, <3>1, WalkShrinks
    <3>3. w \in tree[n + 1]
      BY <2>2, <3>2
    <3>4. h \in hops /\ h[2] = q[n + 3] /\ h[1] = Last(w)
      <4>1. n + 2 \in 1..(Len(q) - 1) /\ (n + 2) + 1 = n + 3
        BY <2>7
      <4>2. h \in hops
        BY <2>7, <4>1 DEF IsWalk
      <4>3. Last(w) = q[n + 2]
        BY <3>2 DEF Last
      <4>4. QED
        BY <4>2, <4>3
    <3>5. w \in Seq(AssetIds)
      BY <3>2 DEF IsWalk
    <3> HIDE DEF w, h
    <3>6. q[n + 3] \notin Range(w)
      BY <2>7, <3>2, <3>5 DEF IsWalk, Range
    <3>7. q = Append(w, q[n + 3])
      <4>1. Append(w, q[n + 3]) \in Seq(AssetIds) /\ Len(Append(w, q[n + 3])) = n + 3
        <5>1. q[n + 3] \in AssetIds
          BY <2>7, <3>1
        <5>2. QED
          BY <3>2, <3>5, <5>1
      <4>2. \A i \in 1..(n + 3) : Append(w, q[n + 3])[i] = q[i]
        BY <3>2, <3>5
      <4>3. QED
        BY <2>7, <3>1, <4>1, <4>2
    <3>8. <<w, h>> \in {v \in tree[n + 1] \X hops : v[2][1] = Last(v[1]) /\ v[2][2] \notin Range(v[1])}
      BY <3>3, <3>4, <3>6
    <3>9. q = Append(<<w, h>>[1], <<w, h>>[2][2])
      BY <3>4, <3>7
    <3>10. QED
      BY <2>5, <3>8, <3>9
  <2>8. QED
    BY <2>6, <2>7
<1> HIDE DEF S, tree
<1>3. k - 1 \in Nat /\ (k - 1) + 1 = k /\ k <= d /\ (k - 1) + 2 = k + 1
  OBVIOUS
<1>4. k - 1 \in S
  BY <1>1, <1>2, <1>3, SetInduction
<1>5. QED
  BY <1>3, <1>4 DEF S, tree

\* The recursive query answers with the walks of at most d hops.
LEMMA WalksAre ==
    ASSUME NEW hops, Joining(hops), NEW root \in AssetIds, NEW d \in Nat, NEW p
    PROVE  p \in Walks(hops, root, d) <=> IsWalk(hops, root, p) /\ Len(p) <= d + 1
<1>1. Walks(hops, root, d) = UNION {Tree(hops, root, d)[k] : k \in 1..d}
  BY Zenon DEF Walks, Tree
<1>2. p \in Walks(hops, root, d) <=> \E k \in 1..d : p \in Tree(hops, root, d)[k]
  BY <1>1
<1>3. p \in Walks(hops, root, d) <=> \E k \in 1..d : IsWalk(hops, root, p) /\ Len(p) = k + 1
  <2>1. CASE d = 0
    BY <1>2, <2>1
  <2>2. CASE d > 0
    <3>1. ASSUME NEW k \in 1..d
          PROVE  p \in Tree(hops, root, d)[k] <=> IsWalk(hops, root, p) /\ Len(p) = k + 1
      BY <2>2, LayerIs
    <3>2. QED
      BY <1>2, <3>1
  <2>3. QED
    BY <2>1, <2>2
<1>4. ASSUME IsWalk(hops, root, p), Len(p) <= d + 1 PROVE Len(p) - 1 \in 1..d /\ Len(p) = (Len(p) - 1) + 1
  BY <1>4 DEF IsWalk
<1>5. QED
  BY <1>3, <1>4

------------------------------------------------------------------------------
\* The rounds of the breadth-first search.
Wider(hops) == [T \in SUBSET AssetIds |-> T \cup {h[2] : h \in {g \in hops : g[1] \in T}}]

Near(hops, root, d) ==
    LET near[k \in 0..d] ==
          IF k = 0 THEN {root}
          ELSE near[k - 1] \cup {h[2] : h \in {g \in hops : g[1] \in near[k - 1]}}
    IN near

LEMMA NearIs ==
    ASSUME NEW hops, Joining(hops), NEW root \in AssetIds, NEW d \in Nat
    PROVE  /\ Near(hops, root, d)[0] = {root}
           /\ \A k \in 1..d : Near(hops, root, d)[k] =
                 Near(hops, root, d)[k - 1] \cup {h[2] : h \in {g \in hops : g[1] \in Near(hops, root, d)[k - 1]}}
<1> DEFINE V == SUBSET AssetIds
           more(T) == T \cup {h[2] : h \in {g \in hops : g[1] \in T}}
           Follows(f) == f = [k \in 0..d |-> IF k = 0 THEN {root} ELSE more(f[k - 1])]
<1>1. {root} \in V
  OBVIOUS
<1>2. ASSUME NEW T \in V PROVE more(T) \in V
  BY DEF Joining
<1> HIDE DEF more
<1>3. /\ Wider(hops) \in [V -> V] /\ DOMAIN Wider(hops) = V
      /\ \A T \in V : Wider(hops)[T] = more(T)
  <2>1. Wider(hops) = [T \in V |-> more(T)]
    BY Zenon DEF Wider, more
  <2>2. QED
    BY <1>2, <2>1
<1> HIDE DEF V
<1>4. PICK f : Rounds(f, Wider(hops), {root}, d)
  BY <1>1, <1>3, RoundsExist
<1>5. f \in [0..d -> V] /\ f[0] = {root} /\ \A k \in 1..d : f[k] = Wider(hops)[f[k - 1]]
  BY <1>3, <1>4 DEF Rounds
<1>6. Follows(f)
  <2>1. ASSUME NEW k \in 0..d PROVE f[k] = IF k = 0 THEN {root} ELSE more(f[k - 1])
    BY <1>3, <1>5
  <2>2. f = [k \in 0..d |-> f[k]]
    BY <1>5
  <2>3. QED
    BY <2>1, <2>2, Zenon
<1>7. Near(hops, root, d) = CHOOSE h : Follows(h)
  BY Zenon DEF Near, more
<1> DEFINE near == Near(hops, root, d)
<1>8. Follows(near)
  <2> HIDE DEF Follows
  <2>1. QED
    BY <1>6, <1>7
<1>9. \A k \in 0..d : near[k] = IF k = 0 THEN {root} ELSE more(near[k - 1])
  <2> HIDE DEF near
  <2>1. QED
    BY <1>8
<1> HIDE DEF near
<1>10. near[0] = {root} /\ \A k \in 1..d : near[k] = more(near[k - 1])
  BY <1>9
<1>11. QED
  BY <1>10 DEF near, more

\* The search finds what a walk of as many hops ends at, and the root.
LEMMA NearIsReached ==
    ASSUME NEW hops, Joining(hops), NEW root \in AssetIds, NEW d \in Nat, NEW k \in 0..d, NEW x
    PROVE  x \in Near(hops, root, d)[k] <=>
              x = root \/ \E p : IsWalk(hops, root, p) /\ Len(p) <= k + 1 /\ p[Len(p)] = x
<1> DEFINE near == Near(hops, root, d)
           InReach(n, y) == \E p : IsWalk(hops, root, p) /\ Len(p) <= n + 1 /\ p[Len(p)] = y
           S == {n \in Nat : n <= d => \A y : y \in near[n] <=> y = root \/ InReach(n, y)}
<1>1. 0 \in S
  <2>1. near[0] = {root}
    BY NearIs
  <2>2. \A y : ~InReach(0, y)
    BY DEF IsWalk
  <2>3. QED
    BY <2>1, <2>2
<1>2. ASSUME NEW n \in Nat, n \in S PROVE n + 1 \in S
  <2>1. SUFFICES ASSUME n + 1 <= d, NEW y PROVE y \in near[n + 1] <=> y = root \/ InReach(n + 1, y)
    OBVIOUS
  <2>2. n + 1 \in 1..d /\ (n + 1) - 1 = n
    BY <2>1
  <2>3. near[n + 1] = near[n] \cup {h[2] : h \in {g \in hops : g[1] \in near[n]}}
    BY <2>2, NearIs
  <2>4. \A z : z \in near[n] <=> z = root \/ InReach(n, z)
    BY <1>2, <2>1
  <2> HIDE DEF near, S
  <2>5. ASSUME InReach(n, y) PROVE InReach(n + 1, y)
    <3>1. PICK p : IsWalk(hops, root, p) /\ Len(p) <= n + 1 /\ p[Len(p)] = y
      BY <2>5
    <3>2. Len(p) <= (n + 1) + 1
      BY <3>1 DEF IsWalk
    <3>3. QED
      BY <3>1, <3>2
  <2>6. ASSUME NEW z, z = root \/ InReach(n, z), <<z, y>> \in hops, y # root PROVE InReach(n + 1, y)
    <3>0. y \in AssetIds /\ z \in AssetIds /\ z # y
      BY <2>6 DEF Joining
    <3>1. CASE z = root
      <4> DEFINE p == <<root, y>>
      <4>1. p \in Seq(AssetIds) /\ Len(p) = 2 /\ p[1] = root /\ p[2] = y
        BY <3>0
      <4>2. IsWalk(hops, root, p)
        BY <2>6, <3>1, <4>1 DEF IsWalk
      <4>3. IsWalk(hops, root, p) /\ Len(p) <= (n + 1) + 1 /\ p[Len(p)] = y
        BY <4>1, <4>2
      <4> HIDE DEF p
      <4>4. QED
        BY <4>3
    <3>2. CASE InReach(n, z)
      <4>1. PICK w : IsWalk(hops, root, w) /\ Len(w) <= n + 1 /\ w[Len(w)] = z
        BY <3>2
      <4>2. w \in Seq(AssetIds) /\ Len(w) \in Nat /\ Len(w) > 1 /\ w[1] = root
        BY <4>1 DEF IsWalk
      <4>3. CASE y \notin Range(w)
        <5>1. IsWalk(hops, root, Append(w, y)) /\ Len(Append(w, y)) = Len(w) + 1
          BY <2>6, <3>0, <4>1, <4>3, WalkGrows
        <5>2. Append(w, y)[Len(Append(w, y))] = y
          BY <3>0, <4>2, <5>1
        <5>3. Len(Append(w, y)) <= (n + 1) + 1
          BY <4>1, <4>2, <5>1
        <5>4. QED
          BY <5>1, <5>2, <5>3
      <4>4. CASE y \in Range(w)
        <5>1. PICK i \in 1..Len(w) : w[i] = y
          BY <4>2, <4>4 DEF Range
        <5>2. i \in 2..Len(w)
          BY <2>6, <4>2, <5>1
        <5>3. /\ IsWalk(hops, root, SubSeq(w, 1, i)) /\ Len(SubSeq(w, 1, i)) = i
              /\ SubSeq(w, 1, i)[i] = w[i]
          BY <4>1, <5>2, WalkShrinks
        <5>4. i <= (n + 1) + 1
          BY <4>1, <4>2, <5>1
        <5>5. QED
          BY <5>1, <5>3, <5>4
      <4>5. QED
        BY <4>3, <4>4
    <3>3. QED
      BY <2>6, <3>1, <3>2
  <2>7. ASSUME y \in near[n + 1] PROVE y = root \/ InReach(n + 1, y)
    <3>1. CASE y \in near[n]
      BY <2>4, <2>5, <3>1
    <3>2. CASE \E h \in hops : h[1] \in near[n] /\ h[2] = y
      <4>1. PICK h \in hops : h[1] \in near[n] /\ h[2] = y
        BY <3>2
      <4>2. <<h[1], y>> \in hops
        BY <4>1 DEF Joining
      <4>3. h[1] = root \/ InReach(n, h[1])
        BY <2>4, <4>1
      <4> HIDE DEF InReach
      <4>4. QED
        BY <2>6, <4>2, <4>3
    <3>3. QED
      BY <2>3, <2>7, <3>1, <3>2
  <2>8. ASSUME y = root PROVE y \in near[n + 1]
    BY <2>3, <2>4, <2>8
  <2>9. ASSUME InReach(n + 1, y) PROVE y \in near[n + 1]
    <3>1. PICK p : IsWalk(hops, root, p) /\ Len(p) <= (n + 1) + 1 /\ p[Len(p)] = y
      BY <2>9
    <3>2. p \in Seq(AssetIds) /\ Len(p) \in Nat /\ Len(p) > 1 /\ p[1] = root
      BY <3>1 DEF IsWalk
    <3> DEFINE m == Len(p) - 1
    <3>3. m \in 1..(Len(p) - 1) /\ m + 1 = Len(p) /\ m \in Nat /\ m <= n + 1
      BY <3>1, <3>2
    <3>4. <<p[m], y>> \in hops
      BY <3>1, <3>3 DEF IsWalk
    <3>5. p[m] = root \/ InReach(n, p[m])
      <4>1. CASE m = 1
        BY <3>2, <4>1
      <4>2. CASE m # 1
        <5>1. m \in 2..Len(p)
          BY <3>2, <3>3, <4>2
        <5>2. IsWalk(hops, root, SubSeq(p, 1, m)) /\ Len(SubSeq(p, 1, m)) = m /\ SubSeq(p, 1, m)[m] = p[m]
          <6>1. m \in 1..m
            BY <5>1
          <6>2. QED
            BY <3>1, <5>1, <6>1, WalkShrinks
        <5> HIDE DEF m
        <5>3. QED
          BY <3>3, <5>2
      <4>3. QED
        BY <4>1, <4>2
    <3> HIDE DEF InReach, m
    <3>6. p[m] \in near[n]
      BY <2>4, <3>5
    <3>7. QED
      BY <2>3, <3>4, <3>6
  <2> HIDE DEF InReach
  <2>10. QED
    BY <2>7, <2>8, <2>9
<1> HIDE DEF S, near
<1>3. k \in S
  BY <1>1, <1>2, SetInduction
<1>4. QED
  BY <1>3 DEF S, near

\* What is within d hops is what the recursive query's walks end at.
LEMMA WithinIsReached ==
    ASSUME NEW hops, Joining(hops), NEW root \in AssetIds, NEW d \in Nat, d > 0, NEW x
    PROVE  x \in Within(hops, root, d) <=> \E p \in Walks(hops, root, d) : Last(p) = x
<1>1. Within(hops, root, d) = Near(hops, root, d)[d] \ {root}
  BY Zenon DEF Within, Near
<1>2. ASSUME NEW p, IsWalk(hops, root, p) PROVE p[Len(p)] # root /\ Last(p) = p[Len(p)]
  <2>1. p[1] = root /\ 1 \in 1..Len(p) /\ Len(p) \in 1..Len(p) /\ Len(p) # 1
    BY <1>2 DEF IsWalk
  <2>2. p[1] # p[Len(p)]
    BY <1>2, <2>1 DEF IsWalk
  <2>3. QED
    BY <2>1, <2>2 DEF Last
<1>3. x \in Near(hops, root, d)[d] <=> x = root \/ \E p : IsWalk(hops, root, p) /\ Len(p) <= d + 1 /\ p[Len(p)] = x
  BY NearIsReached
<1>4. x \in Within(hops, root, d) <=> \E p : IsWalk(hops, root, p) /\ Len(p) <= d + 1 /\ p[Len(p)] = x
  BY <1>1, <1>2, <1>3
<1>5. QED
  BY <1>2, <1>4, WalksAre

------------------------------------------------------------------------------
(***************************************************************************)
(* GraphInv: besides the history's invariant, one open edge per pair, the  *)
(* targets' rows that the foreign key keeps, and what a creation that      *)
(* nobody has slipped past has checked (ChecksHold). A cycle through a new *)
(* edge was a walk from its target back to its source.                     *)
(***************************************************************************)

OpenHops == Hops(EdgesAt(Now))

\* A walk that the capped query can see, with a hop that closes it.
Cycle(hops, p) ==
    IsWalk(hops, p[1], p) /\ Len(p) <= ImpactMaxDepthCap + 1 /\ <<p[Len(p)], p[1]>> \in hops

\* The k-th hop of a cycle.
HopOf(p, k) == <<p[k], p[(k % Len(p)) + 1]>>

IsBlind(h) == \E i \in EdgesAt(Now) : dependencies[i].src = h[1] /\ dependencies[i].tgt = h[2] /\ dependencies[i].blind

EdgesJoin ==
    /\ \A i \in DOMAIN dependencies : dependencies[i].src # dependencies[i].tgt
    /\ \A c \in Callers : creating[c] # NotCreating => creating[c].src # creating[c].tgt

\* uq_asset_deps_open, and the foreign key of an edge's target.
OneOpenEdge ==
    \A i, j \in EdgesAt(Now) :
        dependencies[i].src = dependencies[j].src /\ dependencies[i].tgt = dependencies[j].tgt => i = j
TargetsAreThere == \A i \in DOMAIN dependencies : ~dependencies[i].erased => dependencies[i].tgt \in live

\* As long as nothing has slipped in, what a creation has looked at holds: deletions make no walks.
ChecksHold ==
    \A c \in Callers : creating[c] # NotCreating /\ ~creating[c].blind =>
        \A p \in GetDownstreamDependencies(creating[c].tgt, ImpactMaxDepthCap) : Last(p) # creating[c].src

\* While a reply is put together each end of its edges is in it, still there, or deleted meanwhile.
ReplyOK ==
    /\ graph \in [at : {"idle", "assets", "edges", "done"}, nodes : SUBSET AssetIds,
                  edges : SUBSET (AssetIds \X AssetIds), failed : BOOLEAN, deleted : SUBSET AssetIds]
    /\ graph.at = "assets" => graph.edges = {}
    /\ graph.at = "edges" => \A e \in graph.edges : {e[1], e[2]} \subseteq live \cup graph.deleted
    /\ GraphEdgesHaveNodes

GraphInv ==
    /\ DependencyInv /\ EdgesJoin /\ OneOpenEdge /\ TargetsAreThere
    /\ ChecksHold /\ AcyclicUnlessBlind /\ ReplyOK

------------------------------------------------------------------------------
LEMMA OpenIs ==
    /\ \A i : i \in EdgesAt(Now) <=> i \in DOMAIN dependencies /\ ~dependencies[i].erased /\ dependencies[i].to = Open
    /\ \A h : h \in OpenHops <=> \E i \in EdgesAt(Now) : h = <<dependencies[i].src, dependencies[i].tgt>>
  BY DEF EdgesAt, IsOpen, Rows, OpenHops, Hops

LEMMA EdgesAreRows == ASSUME NEW t PROVE EdgesAt(t) \subseteq DOMAIN dependencies
  BY DEF EdgesAt, IsOpen, InEffect, Rows

LEMMA HopsJoin ==
    ASSUME DependencyInv, EdgesJoin, NEW ids, ids \subseteq DOMAIN dependencies
    PROVE  Joining(Hops(ids)) /\ Joining(Reversed(Hops(ids)))
<1>1. ASSUME NEW i \in ids
      PROVE  /\ dependencies[i].src \in AssetIds /\ dependencies[i].tgt \in AssetIds
             /\ dependencies[i].src # dependencies[i].tgt
  <2>1. dependencies[i] \in Edge
    BY DEF DependencyInv, DependencyTypeOK
  <2>2. QED
    BY <2>1 DEF Edge, EdgesJoin
<1>2. QED
  BY <1>1 DEF Hops, Reversed, Joining

LEMMA OpenJoin == ASSUME DependencyInv, EdgesJoin PROVE Joining(OpenHops)
  BY EdgesAreRows, HopsJoin DEF OpenHops

LEMMA HopIs ==
    ASSUME NEW p \in Seq(AssetIds), NEW k \in 1..Len(p)
    PROVE  /\ k = Len(p) => HopOf(p, k) = <<p[Len(p)], p[1]>>
           /\ k # Len(p) => HopOf(p, k) = <<p[k], p[k + 1]>>
<1>1. Len(p) \in Nat /\ Len(p) > 0 /\ k \in Nat
  OBVIOUS
<1>2. CASE k = Len(p)
  <2>1. Len(p) % Len(p) = 0
    BY <1>1
  <2>2. QED
    BY <1>2, <2>1 DEF HopOf
<1>3. CASE k # Len(p)
  <2>1. k % Len(p) = k
    BY <1>1, <1>3
  <2>2. QED
    BY <1>3, <2>1 DEF HopOf
<1>4. QED
  BY <1>2, <1>3

\* The hops of a cycle are edges, and no two of them leave the same asset.
LEMMA CycleHops ==
    ASSUME NEW hops, NEW p, Cycle(hops, p)
    PROVE  /\ p \in Seq(AssetIds) /\ Len(p) \in Nat /\ Len(p) > 1
           /\ \A k \in 1..Len(p) : HopOf(p, k) \in hops
           /\ \A k \in 1..Len(p) : HopOf(p, k)[1] = p[k]
<1>1. p \in Seq(AssetIds) /\ Len(p) \in Nat /\ Len(p) > 1
  BY DEF Cycle, IsWalk
<1>2. ASSUME NEW k \in 1..Len(p) PROVE HopOf(p, k) \in hops /\ HopOf(p, k)[1] = p[k]
  <2>1. CASE k = Len(p)
    BY <1>1, <2>1, HopIs DEF Cycle
  <2>2. CASE k # Len(p)
    <3>1. k \in 1..(Len(p) - 1)
      BY <1>1, <2>2
    <3>2. <<p[k], p[k + 1]>> \in hops
      BY <3>1 DEF Cycle, IsWalk
    <3>3. HopOf(p, k) = <<p[k], p[k + 1]>>
      BY <1>1, <2>2, HopIs
    <3>4. QED
      BY <3>2, <3>3
  <2>3. QED
    BY <2>1, <2>2
<1>3. QED
  BY <1>1, <1>2

\* What a cycle's hops are edges of, the cycle is one of.
LEMMA CycleOf ==
    ASSUME NEW hops, NEW others, NEW p, Cycle(hops, p), \A k \in 1..Len(p) : HopOf(p, k) \in others
    PROVE  Cycle(others, p)
<1>1. p \in Seq(AssetIds) /\ Len(p) \in Nat /\ Len(p) > 1
  BY CycleHops
<1>2. <<p[Len(p)], p[1]>> \in others
  <2>1. Len(p) \in 1..Len(p)
    BY <1>1
  <2>2. QED
    BY <1>1, <2>1, HopIs
<1>3. ASSUME NEW i \in 1..(Len(p) - 1) PROVE <<p[i], p[i + 1]>> \in others
  <2>1. i \in 1..Len(p) /\ i # Len(p)
    BY <1>1
  <2>2. QED
    BY <1>1, <2>1, HopIs
<1>4. QED
  BY <1>1, <1>2, <1>3 DEF Cycle, IsWalk

\* A cycle of others through the hop from s to t, which is the only one hops may lack; a walk of
\* n assets from t to s.
Through(hops, others, p, k, s, t) ==
    /\ Cycle(others, p) /\ others \subseteq hops \cup {<<s, t>>}
    /\ k \in 1..Len(p) /\ HopOf(p, k) = <<s, t>>
LeadsBack(hops, t, s, n) == \E q : IsWalk(hops, t, q) /\ Len(q) = n /\ q[Len(q)] = s

\* A cycle that goes through a new edge is a walk from its target back to its source.
LEMMA CycleOpens ==
    ASSUME NEW hops, NEW others, NEW s, NEW t, NEW p, NEW k, Through(hops, others, p, k, s, t)
    PROVE  LeadsBack(hops, t, s, Len(p))
<1>0. /\ Cycle(others, p) /\ others \subseteq hops \cup {<<s, t>>}
      /\ k \in 1..Len(p) /\ HopOf(p, k) = <<s, t>>
  BY DEF Through
<1> SUFFICES \E q : IsWalk(hops, t, q) /\ Len(q) = Len(p) /\ q[Len(q)] = s
  BY DEF LeadsBack
<1> USE <1>0
<1> DEFINE n == Len(p)
           at(i) == IF k + i <= n THEN k + i ELSE k + i - n
           q == [i \in 1..n |-> p[at(i)]]
<1>1. p \in Seq(AssetIds) /\ n \in Nat /\ n > 1 /\ k \in 1..n
  BY CycleHops
<1>2. \A i, j \in 1..n : i # j => p[i] # p[j]
  BY DEF Cycle, IsWalk
<1>3. p[k] = s
  BY CycleHops
<1> HIDE DEF n
<1>4. /\ \A i \in 1..n : at(i) \in 1..n
      /\ \A i, j \in 1..n : i # j => at(i) # at(j)
      /\ at(n) = k
      /\ \A i \in 1..(n - 1) : at(i) # k /\ (at(i) = n => at(i + 1) = 1) /\ (at(i) # n => at(i + 1) = at(i) + 1)
      /\ k = n => at(1) = 1
      /\ k # n => at(1) = k + 1
  BY <1>1
<1> HIDE DEF at
<1>5. q \in Seq(AssetIds) /\ Len(q) = n /\ \A i \in 1..n : q[i] = p[at(i)]
  <2>1. \A i \in 1..n : p[at(i)] \in AssetIds
    BY <1>1, <1>4 DEF n
  <2>2. QED
    BY <1>1, <2>1
<1> HIDE DEF q
<1>6. q[n] = s
  <2>1. n \in 1..n
    BY <1>1
  <2>2. q[n] = p[at(n)]
    BY <1>5, <2>1
  <2>3. QED
    BY <1>3, <1>4, <2>2
<1>7. q[1] = t
  <2>1. 1 \in 1..n
    BY <1>1
  <2>2. CASE k = n
    BY <1>1, <1>4, <1>5, <2>1, <2>2, HopIs DEF n
  <2>3. CASE k # n
    BY <1>1, <1>4, <1>5, <2>1, <2>3, HopIs DEF n
  <2>4. QED
    BY <2>2, <2>3
<1>8. ASSUME NEW i \in 1..(n - 1) PROVE <<q[i], q[i + 1]>> \in hops
  <2>1. i \in 1..n /\ i + 1 \in 1..n
    BY <1>1
  <2>2. q[i] = p[at(i)] /\ q[i + 1] = p[at(i + 1)] /\ at(i) \in 1..n /\ at(i) # k
    BY <1>4, <1>5, <2>1
  <2>3. HopOf(p, at(i)) = <<q[i], q[i + 1]>>
    <3>1. CASE at(i) = n
      <4>1. at(i + 1) = 1
        BY <1>4, <3>1
      <4>2. HopOf(p, at(i)) = <<p[n], p[1]>>
        BY <1>1, <2>2, <3>1, HopIs DEF n
      <4>3. QED
        BY <2>2, <3>1, <4>1, <4>2
    <3>2. CASE at(i) # n
      <4>1. at(i + 1) = at(i) + 1
        BY <1>4, <3>2
      <4>2. HopOf(p, at(i)) = <<p[at(i)], p[at(i) + 1]>>
        BY <1>1, <2>2, <3>2, HopIs DEF n
      <4>3. QED
        BY <2>2, <4>1, <4>2
    <3>3. QED
      BY <3>1, <3>2
  <2>4. q[i] # s
    BY <1>1, <1>2, <1>3, <2>2
  <2>5. HopOf(p, at(i)) \in others
    BY <2>2, CycleHops DEF n
  <2>6. QED
    BY <2>3, <2>4, <2>5
<1>9. ASSUME NEW i \in 1..n, NEW j \in 1..n, i # j PROVE q[i] # q[j]
  <2>1. q[i] = p[at(i)] /\ q[j] = p[at(j)]
    BY <1>5
  <2>2. at(i) \in 1..n /\ at(j) \in 1..n /\ at(i) # at(j)
    BY <1>4, <1>9
  <2>3. QED
    BY <1>2, <2>1, <2>2
<1>10. IsWalk(hops, t, q) /\ Len(q) = Len(p) /\ q[Len(q)] = s
  BY <1>1, <1>5, <1>6, <1>7, <1>8, <1>9 DEF IsWalk, n
<1>11. QED
  BY <1>10

\* The property, said of cycles.
CyclesAreBlind == \A p : Cycle(OpenHops, p) => \E k \in 1..Len(p) : IsBlind(HopOf(p, k))

LEMMA AcyclicIs == ASSUME DependencyInv, EdgesJoin PROVE AcyclicUnlessBlind <=> CyclesAreBlind
<1>1. Joining(OpenHops) /\ ImpactMaxDepthCap \in Nat
  BY OpenJoin, DependencyAssumption
<1>2. Touched \subseteq AssetIds
  <2>1. ASSUME NEW i \in DOMAIN dependencies PROVE dependencies[i].src \in AssetIds /\ dependencies[i].tgt \in AssetIds
    <3>1. dependencies[i] \in Edge
      BY DEF DependencyInv, DependencyTypeOK
    <3>2. QED
      BY <3>1 DEF Edge
  <2>2. QED
    BY <2>1 DEF Touched
<1>3. ASSUME NEW a \in AssetIds, NEW p
      PROVE  /\ p \in GetDownstreamDependencies(a, ImpactMaxDepthCap) /\ <<Last(p), a>> \in OpenHops
                  <=> Cycle(OpenHops, p) /\ a = p[1]
  <2>1. p \in GetDownstreamDependencies(a, ImpactMaxDepthCap) <=>
          IsWalk(OpenHops, a, p) /\ Len(p) <= ImpactMaxDepthCap + 1
    BY <1>1, WalksAre DEF GetDownstreamDependencies, OpenHops
  <2>2. Last(p) = p[Len(p)]
    BY DEF Last
  <2>3. IsWalk(OpenHops, a, p) => a = p[1]
    BY DEF IsWalk
  <2>4. QED
    BY <2>1, <2>2, <2>3 DEF Cycle
<1>4. ASSUME NEW p, NEW k \in 1..Len(p)
      PROVE  IsBlind(HopOf(p, k)) <=>
                \E i \in EdgesAt(Now) : /\ dependencies[i].src = p[k]
                                        /\ dependencies[i].tgt = p[(k % Len(p)) + 1]
                                        /\ dependencies[i].blind
  BY DEF IsBlind, HopOf
<1>5. ASSUME NEW p, Cycle(OpenHops, p) PROVE p[1] \in Touched
  <2>1. <<p[1], p[1 + 1]>> \in OpenHops
    BY <1>5 DEF Cycle, IsWalk
  <2>2. PICK i \in EdgesAt(Now) : dependencies[i].src = p[1]
    BY <2>1, OpenIs
  <2>3. QED
    BY <2>2, EdgesAreRows DEF Touched
<1>6. ASSUME AcyclicUnlessBlind, NEW p, Cycle(OpenHops, p) PROVE \E k \in 1..Len(p) : IsBlind(HopOf(p, k))
  <2>1. p[1] \in Touched /\ p[1] \in AssetIds
    BY <1>2, <1>5, <1>6
  <2>2. p \in GetDownstreamDependencies(p[1], ImpactMaxDepthCap) /\ <<Last(p), p[1]>> \in Hops(EdgesAt(Now))
    BY <1>3, <1>6, <2>1 DEF OpenHops
  <2>3. PICK k \in 1..Len(p) : \E i \in EdgesAt(Now) :
                /\ dependencies[i].src = p[k]
                /\ dependencies[i].tgt = p[(k % Len(p)) + 1]
                /\ dependencies[i].blind
    BY <1>6, <2>1, <2>2 DEF AcyclicUnlessBlind
  <2>4. QED
    BY <1>4, <2>3
<1>7. ASSUME CyclesAreBlind PROVE AcyclicUnlessBlind
  <2>1. SUFFICES ASSUME NEW a \in Touched, NEW p \in GetDownstreamDependencies(a, ImpactMaxDepthCap),
                        <<Last(p), a>> \in Hops(EdgesAt(Now))
                 PROVE  \E k \in 1..Len(p) : \E i \in EdgesAt(Now) :
                            /\ dependencies[i].src = p[k]
                            /\ dependencies[i].tgt = p[(k % Len(p)) + 1]
                            /\ dependencies[i].blind
    BY DEF AcyclicUnlessBlind
  <2>2. Cycle(OpenHops, p)
    BY <1>2, <1>3, <2>1 DEF OpenHops
  <2>3. PICK k \in 1..Len(p) : IsBlind(HopOf(p, k))
    BY <1>7, <2>2 DEF CyclesAreBlind
  <2>4. QED
    BY <1>4, <2>3
<1>8. QED
  BY <1>6, <1>7 DEF CyclesAreBlind

------------------------------------------------------------------------------
DependencyStepOf == [WriteDependencies \/ GetTopologyGraph \/ ClockTicks]_dependencyVars

\* The lemmas above, of the state after a step.
LEMMA AfterStep ==
    DependencyInv' /\ EdgesJoin' => /\ AcyclicUnlessBlind' <=> CyclesAreBlind'
                                    /\ Joining(OpenHops)'
<1>1. DependencyInv /\ EdgesJoin => (AcyclicUnlessBlind <=> CyclesAreBlind) /\ Joining(OpenHops)
  BY AcyclicIs, OpenJoin
<1>2. QED
  BY <1>1, PTL

LEMMA FewerWalks ==
    ASSUME NEW hops, Joining(hops), NEW others, others \subseteq hops, NEW root \in AssetIds,
           NEW p \in Walks(others, root, ImpactMaxDepthCap)
    PROVE  p \in Walks(hops, root, ImpactMaxDepthCap)
<1>1. Joining(others) /\ ImpactMaxDepthCap \in Nat
  BY DependencyAssumption DEF Joining
<1>2. IsWalk(others, root, p) /\ Len(p) <= ImpactMaxDepthCap + 1
  BY <1>1, WalksAre
<1>3. IsWalk(hops, root, p)
  BY <1>2 DEF IsWalk
<1>4. QED
  BY <1>1, <1>2, <1>3, WalksAre

------------------------------------------------------------------------------
\* A step that inserts nothing opens no edge and changes none that stays open.
LEMMA EdgesOnlyEnd ==
    ASSUME GraphInv, DependencyStepOf, ~\E c \in Callers : CreateAssetDependency(c) /\ dependencies' # dependencies
    PROVE  /\ DOMAIN dependencies' = DOMAIN dependencies
           /\ \A i \in DOMAIN dependencies :
                 /\ dependencies'[i].src = dependencies[i].src /\ dependencies'[i].tgt = dependencies[i].tgt
                 /\ dependencies'[i].blind = dependencies[i].blind
                 /\ ~dependencies'[i].erased => ~dependencies[i].erased
           /\ \A i \in EdgesAt(Now)' : i \in EdgesAt(Now)
           /\ OpenHops' \subseteq OpenHops
<1>0. DependencyInv /\ clock \in Nat /\ clock < Open
  BY DependencyAssumption DEF GraphInv, DependencyInv, DependencyTypeOK, Open
<1>1. /\ DOMAIN dependencies' = DOMAIN dependencies
      /\ \A i \in DOMAIN dependencies :
            /\ dependencies'[i].src = dependencies[i].src /\ dependencies'[i].tgt = dependencies[i].tgt
            /\ dependencies'[i].blind = dependencies[i].blind
            /\ ~dependencies'[i].erased => ~dependencies[i].erased
            /\ dependencies'[i].to = Open => dependencies[i].to = Open
  <2>1. CASE \E c \in Callers : CreateAssetDependency(c)
    <3>1. dependencies' = dependencies
      BY <2>1
    <3>2. QED
      BY <3>1
  <2>2. CASE ~\E c \in Callers : CreateAssetDependency(c)
    BY <1>0, <2>2, RowsStay DEF DependencyStepOf
  <2>3. QED
    BY <2>1, <2>2
<1>2. \A i : i \in EdgesAt(Now)' <=> i \in DOMAIN dependencies' /\ ~dependencies'[i].erased /\ dependencies'[i].to = Open
  BY DEF EdgesAt, IsOpen, Rows, Open
<1>3. \A i \in EdgesAt(Now)' : i \in EdgesAt(Now)
  BY <1>1, <1>2, OpenIs
<1>4. \A h : h \in OpenHops' <=> \E i \in EdgesAt(Now)' : h = <<dependencies'[i].src, dependencies'[i].tgt>>
  BY DEF OpenHops, Hops
<1>5. OpenHops' \subseteq OpenHops
  BY <1>1, <1>2, <1>3, <1>4, OpenIs
<1>6. QED
  BY <1>1, <1>3, <1>5

\* What a step other than an insertion makes of the checks under way.
LEMMA CreatingStays ==
    ASSUME GraphInv, DependencyStepOf, ~\E c \in Callers : CreateAssetDependency(c) /\ dependencies' # dependencies,
           NEW c \in Callers, creating'[c] # NotCreating, creating'[c] # creating[c]
    PROVE  \E s, t \in AssetIds : /\ CycleCheck(c, s, t) /\ UNCHANGED dependencies
                                  /\ creating'[c] = Checked(s, t)
<1>0. creating \in [Callers -> Creation]
  BY DEF GraphInv, DependencyInv, DependencyTypeOK
<1>1. CASE \E x \in Callers, s, t \in AssetIds : CycleCheck(x, s, t)
  <2>1. PICK x \in Callers, s \in AssetIds, t \in AssetIds : CycleCheck(x, s, t)
    BY <1>1
  <2>2. creating' = [creating EXCEPT ![x] = Checked(s, t)] /\ UNCHANGED dependencies
    BY <2>1 DEF CycleCheck
  <2>3. x = c
    BY <1>0, <2>2
  <2>4. QED
    BY <1>0, <2>1, <2>2, <2>3
<1>2. CASE \E x \in Callers : CreateAssetDependency(x)
  <2>1. PICK x \in Callers : CreateAssetDependency(x)
    BY <1>2
  <2>2. dependencies' = dependencies
    BY <2>1
  <2>3. CASE creating' = [creating EXCEPT ![x] = NotCreating]
    BY <1>0, <2>3
  <2>4. CASE creating' # [creating EXCEPT ![x] = NotCreating]
    <3>1. \E e : dependencies' = Append(dependencies, e)
      BY <2>1, <2>4 DEF CreateAssetDependency
    <3>2. dependencies \in Seq(Edge) /\ Len(dependencies) \in Nat
      BY DEF GraphInv, DependencyInv, DependencyTypeOK
    <3>3. FALSE
      <4>1. PICK e : dependencies' = Append(dependencies, e)
        BY <3>1
      <4>2. Len(Append(dependencies, e)) = Len(dependencies) + 1
        BY <3>2
      <4>3. QED
        BY <2>2, <3>2, <4>1, <4>2
    <3>4. QED
      BY <3>3
  <2>5. QED
    BY <2>3, <2>4
<1>3. CASE creating' = creating
  BY <1>3
<1>4. QED
  BY <1>1, <1>2, <1>3 DEF DependencyStepOf, WriteDependencies, GetTopologyGraph, DeleteAssetDependency, DeleteAsset,
     FetchAssets, FetchEdges, FetchExternal, ClockTicks, dependencyVars

LEMMA NoInsertKeepsGraph ==
    ASSUME GraphInv, DependencyStepOf, ~\E c \in Callers : CreateAssetDependency(c) /\ dependencies' # dependencies
    PROVE  EdgesJoin' /\ OneOpenEdge' /\ TargetsAreThere' /\ ChecksHold' /\ AcyclicUnlessBlind'
<1>0. /\ DependencyInv /\ EdgesJoin /\ DependencyInv'
      /\ creating \in [Callers -> Creation] /\ creating' \in [Callers -> Creation]
  BY DependencyStep DEF GraphInv, DependencyStepOf, DependencyInv, DependencyTypeOK
<1>1. /\ DOMAIN dependencies' = DOMAIN dependencies
      /\ \A i \in DOMAIN dependencies :
            /\ dependencies'[i].src = dependencies[i].src /\ dependencies'[i].tgt = dependencies[i].tgt
            /\ dependencies'[i].blind = dependencies[i].blind
            /\ ~dependencies'[i].erased => ~dependencies[i].erased
      /\ \A i \in EdgesAt(Now)' : i \in EdgesAt(Now)
      /\ OpenHops' \subseteq OpenHops
  BY EdgesOnlyEnd
<1>2. EdgesJoin'
  <2>1. ASSUME NEW c \in Callers, creating'[c] # NotCreating PROVE creating'[c].src # creating'[c].tgt
    <3>1. CASE creating'[c] = creating[c]
      BY <1>0, <2>1, <3>1 DEF EdgesJoin
    <3>2. CASE creating'[c] # creating[c]
      <4>1. PICK s \in AssetIds, t \in AssetIds : CycleCheck(c, s, t) /\ creating'[c] = Checked(s, t)
        BY <2>1, <3>2, CreatingStays
      <4>2. QED
        BY <4>1 DEF CycleCheck, Checked
    <3>3. QED
      BY <3>1, <3>2
  <2>2. QED
    BY <1>0, <1>1, <2>1 DEF EdgesJoin
<1>3. OneOpenEdge'
  <2>1. ASSUME NEW i \in EdgesAt(Now)', NEW j \in EdgesAt(Now)',
               dependencies'[i].src = dependencies'[j].src, dependencies'[i].tgt = dependencies'[j].tgt
        PROVE  i = j
    <3>1. i \in EdgesAt(Now) /\ j \in EdgesAt(Now) /\ i \in DOMAIN dependencies /\ j \in DOMAIN dependencies
      BY <1>1, <2>1, EdgesAreRows
    <3>2. QED
      BY <1>1, <2>1, <3>1 DEF GraphInv, OneOpenEdge
  <2>2. QED
    BY <2>1 DEF OneOpenEdge
<1>4. TargetsAreThere'
  <2>1. CASE \E a \in AssetIds : DeleteAsset(a)
    <3>1. PICK a \in AssetIds : DeleteAsset(a)
      BY <2>1
    <3>2. live' = live \ {a} /\ \A i \in DOMAIN dependencies : ~dependencies[i].erased => dependencies[i].tgt # a
      BY <3>1 DEF DeleteAsset, Rows
    <3>3. QED
      BY <1>1, <3>2 DEF GraphInv, TargetsAreThere
  <2>2. CASE ~\E a \in AssetIds : DeleteAsset(a)
    <3>1. live' = live
      BY <2>2 DEF DependencyStepOf, WriteDependencies, GetTopologyGraph, CycleCheck, CreateAssetDependency,
         DeleteAssetDependency, FetchAssets, FetchEdges, FetchExternal, ClockTicks, dependencyVars
    <3>2. QED
      BY <1>1, <3>1 DEF GraphInv, TargetsAreThere
  <2>3. QED
    BY <2>1, <2>2
<1>5. ChecksHold'
  <2>1. SUFFICES ASSUME NEW c \in Callers, creating'[c] # NotCreating, ~creating'[c].blind,
                        NEW p \in Walks(OpenHops', creating'[c].tgt, ImpactMaxDepthCap)
                 PROVE  Last(p) # creating'[c].src
    BY DEF ChecksHold, GetDownstreamDependencies, OpenHops
  <2>2. creating'[c].tgt \in AssetIds
    <3>1. creating'[c] \in Creation
      BY <1>0
    <3>2. QED
      BY <2>1, <3>1 DEF Creation
  <2>3. p \in GetDownstreamDependencies(creating'[c].tgt, ImpactMaxDepthCap)
    BY <1>0, <1>1, <2>2, OpenJoin, FewerWalks DEF GetDownstreamDependencies, OpenHops
  <2>4. CASE creating'[c] = creating[c]
    BY <2>1, <2>3, <2>4 DEF GraphInv, ChecksHold
  <2>5. CASE creating'[c] # creating[c]
    <3>1. PICK s \in AssetIds, t \in AssetIds : CycleCheck(c, s, t) /\ creating'[c] = Checked(s, t)
      BY <2>1, <2>5, CreatingStays
    <3>2. creating'[c].src = s /\ creating'[c].tgt = t
      BY <3>1 DEF Checked
    <3>3. p[Len(p)] # s
      BY <2>3, <3>1, <3>2 DEF CycleCheck
    <3>4. QED
      BY <3>2, <3>3 DEF Last
  <2>6. QED
    BY <2>4, <2>5
<1>6. AcyclicUnlessBlind'
  <2>1. CyclesAreBlind
    BY <1>0, AcyclicIs DEF GraphInv
  <2>2. ASSUME NEW p, Cycle(OpenHops', p) PROVE \E k \in 1..Len(p) : IsBlind(HopOf(p, k))'
    <3>1. \A k \in 1..Len(p) : HopOf(p, k) \in OpenHops'
      BY <2>2, CycleHops
    <3>2. Cycle(OpenHops, p)
      BY <1>1, <2>2, <3>1, CycleOf
    <3>3. PICK k \in 1..Len(p) : IsBlind(HopOf(p, k))
      BY <2>1, <3>2 DEF CyclesAreBlind
    <3>4. PICK i \in EdgesAt(Now) : /\ dependencies[i].src = HopOf(p, k)[1] /\ dependencies[i].tgt = HopOf(p, k)[2]
                                    /\ dependencies[i].blind
      BY <3>3 DEF IsBlind
    <3>5. PICK j \in EdgesAt(Now)' : HopOf(p, k) = <<dependencies'[j].src, dependencies'[j].tgt>>
      BY <3>1 DEF OpenHops, Hops
    <3>6. j \in EdgesAt(Now) /\ j \in DOMAIN dependencies /\ i \in DOMAIN dependencies
      BY <1>1, <3>5, EdgesAreRows
    <3>7. dependencies[j].src = dependencies[i].src /\ dependencies[j].tgt = dependencies[i].tgt
      BY <1>1, <3>4, <3>5, <3>6
    <3>8. i = j
      BY <3>6, <3>7 DEF GraphInv, OneOpenEdge
    <3>9. IsBlind(HopOf(p, k))'
      <4>1. HopOf(p, k)' = HopOf(p, k)
        BY DEF HopOf
      <4>2. QED
        BY <1>1, <3>4, <3>5, <3>6, <3>8, <4>1 DEF IsBlind
    <3>10. QED
      BY <3>9
  <2>3. CyclesAreBlind'
    BY <2>2 DEF CyclesAreBlind
  <2>4. QED
    BY <1>0, <1>2, <2>3, AfterStep
<1>7. QED
  BY <1>2, <1>3, <1>4, <1>5, <1>6

\* An insertion adds one open edge, whose source and target are there and not yet joined.
LEMMA InsertAddsEdge ==
    ASSUME GraphInv, NEW c \in Callers, CreateAssetDependency(c), dependencies' # dependencies
    PROVE  /\ creating[c] # NotCreating
           /\ live' = live /\ creating[c].tgt \in live /\ creating[c].src \in AssetIds /\ creating[c].tgt \in AssetIds
           /\ <<creating[c].src, creating[c].tgt>> \notin OpenHops
           /\ \E e \in Edge, n \in Nat :
                 /\ e.src = creating[c].src /\ e.tgt = creating[c].tgt /\ e.blind = creating[c].blind
                 /\ e.to = Open /\ ~e.erased
                 /\ n \notin DOMAIN dependencies /\ DOMAIN dependencies' = DOMAIN dependencies \cup {n}
                 /\ dependencies'[n] = e
                 /\ \A i \in DOMAIN dependencies : dependencies'[i] = dependencies[i]
           /\ \A x \in Callers : creating'[x] # NotCreating => creating[x] # NotCreating /\ creating'[x].blind
                                     /\ creating'[x].src = creating[x].src /\ creating'[x].tgt = creating[x].tgt
<1> DEFINE d == creating[c]
           e == [src |-> d.src, tgt |-> d.tgt, from |-> clock, to |-> Open, blind |-> d.blind, erased |-> FALSE]
           n == Len(dependencies) + 1
<1>0. /\ dependencies \in Seq(Edge) /\ clock \in Nat /\ Open \in Nat
      /\ \A x \in Callers : creating[x] \in Creation
  BY DependencyAssumption DEF GraphInv, DependencyInv, DependencyTypeOK, Open
<1>1. d.at = "checked" /\ d \in Creation /\ live' = live
  BY <1>0 DEF CreateAssetDependency
<1>2. d # NotCreating /\ d.src \in AssetIds /\ d.tgt \in AssetIds /\ d.blind \in BOOLEAN
  BY <1>1 DEF Creation, NotCreating
<1>3. /\ d.tgt \in live /\ ~DuplicateOpen(d.src, d.tgt)
      /\ dependencies' = Append(dependencies, e)
      /\ creating' = [x \in Callers |->
            IF x = c \/ creating[x] = NotCreating THEN (IF x = c THEN NotCreating ELSE creating[x])
            ELSE [creating[x] EXCEPT !.blind = TRUE]]
  BY DEF CreateAssetDependency
<1>4. e \in Edge /\ e.src = d.src /\ e.tgt = d.tgt /\ e.blind = d.blind /\ e.to = Open /\ ~e.erased
  BY <1>0, <1>2 DEF Edge
<1> HIDE DEF e
<1>5. /\ n \in Nat /\ n \notin DOMAIN dependencies /\ DOMAIN dependencies' = DOMAIN dependencies \cup {n}
      /\ dependencies'[n] = e
      /\ \A i \in DOMAIN dependencies : dependencies'[i] = dependencies[i]
  BY <1>0, <1>3, <1>4
<1>6. <<d.src, d.tgt>> \notin OpenHops
  BY <1>3, OpenIs DEF DuplicateOpen
<1>7. ASSUME NEW x \in Callers, creating'[x] # NotCreating
      PROVE  /\ creating[x] # NotCreating /\ creating'[x].blind
             /\ creating'[x].src = creating[x].src /\ creating'[x].tgt = creating[x].tgt
  <2>1. creating[x] # NotCreating /\ creating'[x] = [creating[x] EXCEPT !.blind = TRUE]
    BY <1>3, <1>7
  <2>2. creating[x] \in [at : {"checked"}, src : AssetIds, tgt : AssetIds, blind : BOOLEAN]
    BY <1>0, <2>1 DEF Creation
  <2>3. QED
    BY <2>1, <2>2
<1> HIDE DEF n
<1>8. QED
  BY <1>1, <1>2, <1>3, <1>4, <1>5, <1>6, <1>7

LEMMA InsertKeepsGraph ==
    ASSUME GraphInv, DependencyStepOf, NEW c \in Callers, CreateAssetDependency(c), dependencies' # dependencies
    PROVE  EdgesJoin' /\ OneOpenEdge' /\ TargetsAreThere' /\ ChecksHold' /\ AcyclicUnlessBlind'
<1> DEFINE s == creating[c].src
           t == creating[c].tgt
<1>0. /\ DependencyInv /\ EdgesJoin /\ DependencyInv'
  BY DependencyStep DEF GraphInv, DependencyStepOf
<1>1. /\ creating[c] # NotCreating
      /\ live' = live /\ t \in live /\ s \in AssetIds /\ t \in AssetIds
      /\ <<s, t>> \notin OpenHops
      /\ \A x \in Callers : creating'[x] # NotCreating => creating[x] # NotCreating /\ creating'[x].blind
                                     /\ creating'[x].src = creating[x].src /\ creating'[x].tgt = creating[x].tgt
  BY InsertAddsEdge
<1>2. PICK e \in Edge, n \in Nat :
         /\ e.src = s /\ e.tgt = t /\ e.blind = creating[c].blind
         /\ e.to = Open /\ ~e.erased
         /\ n \notin DOMAIN dependencies /\ DOMAIN dependencies' = DOMAIN dependencies \cup {n}
         /\ dependencies'[n] = e
         /\ \A i \in DOMAIN dependencies : dependencies'[i] = dependencies[i]
  BY InsertAddsEdge
<1>3. s # t
  BY <1>0, <1>1 DEF EdgesJoin
<1> HIDE DEF s, t
<1>4. \A i : i \in EdgesAt(Now)' <=> i \in EdgesAt(Now) \/ i = n
  <2>1. \A i : i \in EdgesAt(Now)' <=> i \in DOMAIN dependencies' /\ ~dependencies'[i].erased /\ dependencies'[i].to = Open
    BY DEF EdgesAt, IsOpen, Rows, Open
  <2>2. QED
    BY <1>2, <2>1, OpenIs
<1>5. \A h : h \in OpenHops' <=> h \in OpenHops \/ h = <<s, t>>
  <2>1. \A h : h \in OpenHops' <=> \E i \in EdgesAt(Now)' : h = <<dependencies'[i].src, dependencies'[i].tgt>>
    BY DEF OpenHops, Hops
  <2>2. EdgesAt(Now) \subseteq DOMAIN dependencies
    BY EdgesAreRows
  <2>3. ASSUME NEW h, h \in OpenHops' PROVE h \in OpenHops \/ h = <<s, t>>
    BY <1>2, <1>4, <2>1, <2>2, <2>3, OpenIs
  <2>4. ASSUME NEW h, h \in OpenHops PROVE h \in OpenHops'
    BY <1>2, <1>4, <2>1, <2>2, <2>4, OpenIs
  <2>5. <<s, t>> \in OpenHops'
    BY <1>2, <1>4, <2>1
  <2>6. QED
    BY <2>3, <2>4, <2>5
<1>6. EdgesJoin'
  BY <1>1, <1>2, <1>3 DEF EdgesJoin, GraphInv
<1>7. OneOpenEdge'
  <2>1. ASSUME NEW i \in EdgesAt(Now)', NEW j \in EdgesAt(Now)',
               dependencies'[i].src = dependencies'[j].src, dependencies'[i].tgt = dependencies'[j].tgt
        PROVE  i = j
    <3>1. CASE i \in EdgesAt(Now) /\ j \in EdgesAt(Now)
      <4>1. dependencies'[i] = dependencies[i] /\ dependencies'[j] = dependencies[j]
        BY <1>2, <3>1, EdgesAreRows
      <4>2. QED
        BY <2>1, <3>1, <4>1 DEF GraphInv, OneOpenEdge
    <3>2. CASE i = n /\ j \in EdgesAt(Now)
      <4>1. dependencies'[j] = dependencies[j]
        BY <1>2, <3>2, EdgesAreRows
      <4>2. <<s, t>> \in OpenHops
        BY <1>2, <2>1, <3>2, <4>1, OpenIs
      <4>3. QED
        BY <1>1, <4>2 DEF s, t
    <3>3. CASE j = n /\ i \in EdgesAt(Now)
      <4>1. dependencies'[i] = dependencies[i]
        BY <1>2, <3>3, EdgesAreRows
      <4>2. <<s, t>> \in OpenHops
        BY <1>2, <2>1, <3>3, <4>1, OpenIs
      <4>3. QED
        BY <1>1, <4>2 DEF s, t
    <3>4. QED
      BY <1>4, <3>1, <3>2, <3>3
  <2>2. QED
    BY <2>1 DEF OneOpenEdge
<1>8. TargetsAreThere'
  BY <1>1, <1>2 DEF TargetsAreThere, GraphInv, t
<1>9. ChecksHold'
  BY <1>1 DEF ChecksHold
<1>10. CyclesAreBlind'
  <2>0. CyclesAreBlind
    BY <1>0, AcyclicIs DEF GraphInv
  <2>1. SUFFICES ASSUME NEW p, Cycle(OpenHops', p) PROVE \E k \in 1..Len(p) : IsBlind(HopOf(p, k))'
    BY DEF CyclesAreBlind
  <2>2. \A k \in 1..Len(p) : HopOf(p, k) \in OpenHops' /\ HopOf(p, k)' = HopOf(p, k)
    BY <2>1, CycleHops DEF HopOf
  <2>3. CASE \A k \in 1..Len(p) : HopOf(p, k) # <<s, t>>
    <3>1. Cycle(OpenHops, p)
      BY <1>5, <2>1, <2>2, <2>3, CycleOf
    <3>2. PICK k \in 1..Len(p) : IsBlind(HopOf(p, k))
      BY <2>0, <3>1 DEF CyclesAreBlind
    <3>3. PICK i \in EdgesAt(Now) : /\ dependencies[i].src = HopOf(p, k)[1] /\ dependencies[i].tgt = HopOf(p, k)[2]
                                    /\ dependencies[i].blind
      BY <3>2 DEF IsBlind
    <3>4. i \in EdgesAt(Now)' /\ dependencies'[i] = dependencies[i]
      BY <1>2, <1>4, EdgesAreRows
    <3>5. IsBlind(HopOf(p, k))'
      BY <2>2, <3>3, <3>4 DEF IsBlind
    <3>6. QED
      BY <3>5
  <2>4. CASE \E k \in 1..Len(p) : HopOf(p, k) = <<s, t>>
    <3>1. PICK k \in 1..Len(p) : HopOf(p, k) = <<s, t>>
      BY <2>4
    <3>2. creating[c].blind
      <4>1. SUFFICES ASSUME ~creating[c].blind PROVE FALSE
        OBVIOUS
      <4>2. OpenHops' \subseteq OpenHops \cup {<<s, t>>}
        BY <1>5
      <4>3. PICK q : IsWalk(OpenHops, t, q) /\ Len(q) = Len(p) /\ q[Len(q)] = s
        <5> DEFINE others == OpenHops'
        <5>1. Cycle(others, p) /\ others \subseteq OpenHops \cup {<<s, t>>}
          BY <2>1, <4>2
        <5> DEFINE old == OpenHops
        <5> HIDE DEF others, old
        <5>2. Through(old, others, p, k, s, t)
          BY <3>1, <5>1 DEF old, Through
        <5>3. LeadsBack(old, t, s, Len(p))
          BY <5>2, CycleOpens
        <5>4. QED
          BY <5>3 DEF old, LeadsBack
      <4>4. Len(q) <= ImpactMaxDepthCap + 1
        BY <2>1, <4>3 DEF Cycle
      <4>5. q \in GetDownstreamDependencies(t, ImpactMaxDepthCap)
        BY <1>0, <1>1, <4>3, <4>4, OpenJoin, WalksAre, DependencyAssumption DEF GetDownstreamDependencies, OpenHops
      <4>6. Last(q) # s
        BY <1>1, <4>1, <4>5 DEF GraphInv, ChecksHold, s, t
      <4>7. QED
        BY <4>3, <4>6 DEF Last
    <3>3. IsBlind(HopOf(p, k))'
      <4>1. n \in EdgesAt(Now)' /\ dependencies'[n].src = s /\ dependencies'[n].tgt = t /\ dependencies'[n].blind
        BY <1>2, <1>4, <3>2
      <4>2. QED
        BY <2>2, <3>1, <4>1 DEF IsBlind
    <3>4. QED
      BY <3>3
  <2>5. QED
    BY <2>3, <2>4
<1>11. QED
  BY <1>0, <1>6, <1>7, <1>8, <1>9, <1>10, AfterStep

------------------------------------------------------------------------------
\* The reply, query by query.
LEMMA ReplyStays == ASSUME GraphInv, DependencyStepOf PROVE ReplyOK'
<1> DEFINE Reply == [at : {"idle", "assets", "edges", "done"}, nodes : SUBSET AssetIds,
                     edges : SUBSET (AssetIds \X AssetIds), failed : BOOLEAN, deleted : SUBSET AssetIds]
<1>0. /\ graph \in Reply /\ live \subseteq AssetIds
      /\ graph.at = "assets" => graph.edges = {}
      /\ graph.at = "edges" => \A e \in graph.edges : {e[1], e[2]} \subseteq live \cup graph.deleted
      /\ graph.at = "done" /\ ~graph.failed => \A e \in graph.edges : {e[1], e[2]} \subseteq graph.nodes \cup graph.deleted
  BY DEF GraphInv, ReplyOK, GraphEdgesHaveNodes, DependencyInv, DependencyTypeOK
<1>1. CASE \E S \in SUBSET Site : FetchAssets(S)
  <2>1. PICK S \in SUBSET Site : FetchAssets(S)
    BY <1>1
  <2>2. /\ graph' \in Reply /\ graph'.at = "assets" /\ graph'.edges = {}
    BY <1>0, <2>1 DEF FetchAssets, NoGraph
  <2>3. QED
    BY <2>2 DEF ReplyOK, GraphEdgesHaveNodes
<1>2. CASE FetchEdges
  <2>1. graph.at = "assets" /\ live' = live
    BY <1>2 DEF FetchEdges
  <2> DEFINE edges == Hops(ListAssetDependenciesByAssetIDs(graph.nodes))
  <2>2. graph' = [graph EXCEPT !.at = "edges", !.edges = edges] \/ graph' = [graph EXCEPT !.at = "edges"]
    BY <1>2 DEF FetchEdges
  <2>3. edges \in SUBSET (AssetIds \X AssetIds) /\ \A e \in edges : {e[1], e[2]} \subseteq live
    <3>1. ListAssetDependenciesByAssetIDs(graph.nodes) \subseteq EdgesAt(Now)
      BY DEF ListAssetDependenciesByAssetIDs, ListAssetDependencies
    <3>2. ASSUME NEW i \in EdgesAt(Now)
          PROVE  dependencies[i].src \in live /\ dependencies[i].tgt \in live
      BY OpenIs DEF GraphInv, DependencyInv, SourceIsThere, TargetsAreThere
    <3>3. \A e \in edges : \E i \in EdgesAt(Now) : e = <<dependencies[i].src, dependencies[i].tgt>>
      BY <3>1 DEF Hops
    <3> HIDE DEF edges
    <3>4. QED
      BY <1>0, <3>2, <3>3
  <2> HIDE DEF edges
  <2>4. /\ graph' \in Reply /\ graph'.at = "edges"
        /\ graph'.edges = edges \/ graph'.edges = {}
    BY <1>0, <2>1, <2>2, <2>3
  <2>5. QED
    BY <2>1, <2>3, <2>4 DEF ReplyOK, GraphEdgesHaveNodes
<1>3. CASE FetchExternal
  <2> DEFINE externalIDs == (UNION {{e[1], e[2]} : e \in graph.edges}) \ graph.nodes
  <2>1. graph.at = "edges" /\ live' = live
    BY <1>3 DEF FetchExternal
  <2>2. \/ graph' = [graph EXCEPT !.at = "done", !.nodes = @ \cup (externalIDs \cap live)]
        \/ graph' = [graph EXCEPT !.at = "done", !.failed = TRUE]
    BY <1>3 DEF FetchExternal
  <2>3. \A e \in graph.edges : {e[1], e[2]} \subseteq externalIDs \cup graph.nodes
    <3>1. ASSUME NEW e \in graph.edges, NEW x \in {e[1], e[2]}
          PROVE  x \in UNION {{f[1], f[2]} : f \in graph.edges}
      <4>1. {e[1], e[2]} \in {{f[1], f[2]} : f \in graph.edges}
        OBVIOUS
      <4>2. QED
        BY <4>1
    <3>2. QED
      BY <3>1
  <2> HIDE DEF externalIDs
  <2>4. CASE graph' = [graph EXCEPT !.at = "done", !.nodes = @ \cup (externalIDs \cap live)]
    <3>1. /\ graph' \in Reply /\ graph'.at = "done" /\ graph'.nodes = graph.nodes \cup (externalIDs \cap live)
          /\ graph'.edges = graph.edges /\ graph'.deleted = graph.deleted
      BY <1>0, <2>4
    <3>2. \A e \in graph.edges : {e[1], e[2]} \subseteq graph'.nodes \cup graph.deleted
      BY <1>0, <2>1, <2>3, <3>1
    <3>3. QED
      BY <3>1, <3>2 DEF ReplyOK, GraphEdgesHaveNodes
  <2>5. CASE graph' = [graph EXCEPT !.at = "done", !.failed = TRUE]
    <3>1. graph' \in Reply /\ graph'.at = "done" /\ graph'.failed
      BY <1>0, <2>5
    <3>2. QED
      BY <3>1 DEF ReplyOK, GraphEdgesHaveNodes
  <2>6. QED
    BY <2>2, <2>4, <2>5
<1>4. CASE \E a \in AssetIds : DeleteAsset(a)
  <2>1. PICK a \in AssetIds : DeleteAsset(a)
    BY <1>4
  <2>2. /\ live' = live \ {a}
        /\ graph' = IF graph.at \in {"assets", "edges"} THEN [graph EXCEPT !.deleted = @ \cup {a}] ELSE graph
    BY <2>1 DEF DeleteAsset
  <2>3. CASE graph.at \in {"assets", "edges"}
    <3>1. /\ graph' \in Reply /\ graph'.at = graph.at /\ graph'.edges = graph.edges
          /\ graph'.deleted = graph.deleted \cup {a}
      BY <1>0, <2>2, <2>3
    <3>2. graph.at = "edges" => \A e \in graph.edges : {e[1], e[2]} \subseteq live' \cup graph'.deleted
      BY <1>0, <2>2, <3>1
    <3>3. QED
      BY <1>0, <2>3, <3>1, <3>2 DEF ReplyOK, GraphEdgesHaveNodes
  <2>4. CASE graph.at \notin {"assets", "edges"}
    BY <1>0, <2>2, <2>4 DEF ReplyOK, GraphEdgesHaveNodes
  <2>5. QED
    BY <2>3, <2>4
<1>5. CASE graph' = graph /\ live' = live
  BY <1>0, <1>5 DEF ReplyOK, GraphEdgesHaveNodes
<1>6. QED
  BY <1>1, <1>2, <1>3, <1>4, <1>5 DEF DependencyStepOf, WriteDependencies, GetTopologyGraph, CycleCheck,
     CreateAssetDependency, DeleteAssetDependency, ClockTicks, dependencyVars

LEMMA GraphStep == ASSUME GraphInv, DependencyStepOf PROVE GraphInv'
<1>1. DependencyInv' /\ ReplyOK'
  BY DependencyStep, ReplyStays DEF GraphInv, DependencyStepOf
<1>2. QED
  BY <1>1, NoInsertKeepsGraph, InsertKeepsGraph DEF GraphInv

LEMMA GraphStart == DependencyInit => GraphInv
<1> SUFFICES ASSUME DependencyInit PROVE GraphInv
  OBVIOUS
<1>1. DependencyTypeOK /\ DOMAIN dependencies = {}
  BY DependencyAssumption DEF DependencyInit, DependencyTypeOK, Creation
<1>2. DependencyInv /\ OneOpenEdge /\ TargetsAreThere
  BY <1>1, EdgesAreRows DEF DependencyInv, OneOpenEdge, TargetsAreThere
<1>3. EdgesJoin /\ ChecksHold
  BY <1>1 DEF DependencyInit, EdgesJoin, ChecksHold
<1>4. AcyclicUnlessBlind
  BY <1>1 DEF AcyclicUnlessBlind, Touched
<1>5. ReplyOK
  BY DEF DependencyInit, NoGraph, ReplyOK, GraphEdgesHaveNodes
<1>6. QED
  BY <1>2, <1>3, <1>4, <1>5 DEF GraphInv

------------------------------------------------------------------------------
\* An edge that is open now is in effect now, and the others are not.
LEMMA NowIsNow == ASSUME DependencyInv PROVE EdgesAt(Now) = EdgesAt(clock)
<1>1. clock # Now /\ clock < Open /\ clock \in Nat /\ Open \in Nat
  BY DependencyAssumption DEF DependencyInv, DependencyTypeOK, Open
<1>2. ASSUME NEW i \in DOMAIN dependencies
      PROVE  dependencies[i].to = Open <=> dependencies[i].from <= clock /\ clock < dependencies[i].to
  <2>1. dependencies[i] \in Edge /\ EdgeIsPast(i)
    BY DEF DependencyInv, DependencyTypeOK
  <2>2. QED
    BY <1>1, <2>1 DEF Edge, EdgeIsPast
<1>3. QED
  BY <1>1, <1>2 DEF EdgesAt, IsOpen, InEffect, Rows

\* What an answer in one direction ends at.
EndsOf(impact, direction) == {Last(e[2]) : e \in {x \in impact : x[1] = direction}}

LEMMA ImpactIs ==
    ASSUME DependencyInv, EdgesJoin, NEW root \in AssetIds, NEW d \in 1..ImpactMaxDepthCap, NEW t \in (0..clock) \cup {Now},
           NEW hops, hops = Hops(EdgesAt(IF t = Now THEN clock ELSE t))
    PROVE  /\ EndsOf(GetImpactPathAt(root, d, "both", t), "downstream") = Within(hops, root, d)
           /\ EndsOf(GetImpactPathAt(root, d, "both", t), "upstream") = Within(Reversed(hops), root, d)
<1> DEFINE impact == GetImpactPathAt(root, d, "both", t)
<1>1. d \in Nat /\ d > 0
  BY DependencyAssumption
<1>2. hops = Hops(EdgesAt(t))
  BY NowIsNow
<1>3. Joining(hops) /\ Joining(Reversed(hops))
  BY <1>2, EdgesAreRows, HopsJoin
<1>4. \A x : x \in impact <=> \/ \E p \in Walks(hops, root, d) : x = <<"downstream", p>>
                              \/ \E p \in Walks(Reversed(hops), root, d) : x = <<"upstream", p>>
  <2>1. impact = {<<"downstream", p>> : p \in Walks(hops, root, d)} \cup {<<"upstream", p>> : p \in Walks(Reversed(hops), root, d)}
    <3>1. CASE t = Now
      BY <1>2, <3>1 DEF GetImpactPathAt, GetDownstreamDependencies, GetUpstreamDependents
    <3>2. CASE t # Now
      BY <1>2, <3>2 DEF GetImpactPathAt, GetDownstreamDependenciesAt, GetUpstreamDependentsAt
    <3>3. QED
      BY <3>1, <3>2
  <2>2. QED
    BY <2>1
<1> HIDE DEF impact
<1>5. ASSUME NEW direction, NEW x
      PROVE  x \in EndsOf(impact, direction) <=> \E e \in impact : e[1] = direction /\ Last(e[2]) = x
  BY Zenon DEF EndsOf
<1>6. ASSUME NEW x
      PROVE  /\ x \in EndsOf(impact, "downstream") <=> \E p \in Walks(hops, root, d) : Last(p) = x
             /\ x \in EndsOf(impact, "upstream") <=> \E p \in Walks(Reversed(hops), root, d) : Last(p) = x
  <2>1. ASSUME NEW e \in impact, e[1] = "downstream" PROVE e[2] \in Walks(hops, root, d)
    BY <1>4, <2>1
  <2>2. ASSUME NEW e \in impact, e[1] = "upstream" PROVE e[2] \in Walks(Reversed(hops), root, d)
    BY <1>4, <2>2
  <2>3. ASSUME NEW p \in Walks(hops, root, d) PROVE \E e \in impact : e[1] = "downstream" /\ e[2] = p
    <3>1. <<"downstream", p>> \in impact
      BY <1>4
    <3>2. QED
      BY <3>1
  <2>4. ASSUME NEW p \in Walks(Reversed(hops), root, d) PROVE \E e \in impact : e[1] = "upstream" /\ e[2] = p
    <3>1. <<"upstream", p>> \in impact
      BY <1>4
    <3>2. QED
      BY <3>1
  <2>5. QED
    BY <1>5, <2>1, <2>2, <2>3, <2>4
<1>7. \A x : x \in Within(hops, root, d) <=> \E p \in Walks(hops, root, d) : Last(p) = x
  BY <1>1, <1>3, WithinIsReached
<1>8. \A x : x \in Within(Reversed(hops), root, d) <=> \E p \in Walks(Reversed(hops), root, d) : Last(p) = x
  BY <1>1, <1>3, WithinIsReached
<1>9. QED
  BY <1>6, <1>7, <1>8 DEF impact

LEMMA ImpactAnswers == ASSUME GraphInv PROVE ImpactIsReachability
<1>1. DependencyInv /\ EdgesJoin
  BY DEF GraphInv
<1>2. Touched \subseteq AssetIds
  <2>1. ASSUME NEW i \in DOMAIN dependencies PROVE dependencies[i].src \in AssetIds /\ dependencies[i].tgt \in AssetIds
    <3>1. dependencies[i] \in Edge
      BY <1>1 DEF DependencyInv, DependencyTypeOK
    <3>2. QED
      BY <3>1 DEF Edge
  <2>2. QED
    BY <2>1 DEF Touched
<1>3. ASSUME NEW root \in Touched, NEW d \in 1..ImpactMaxDepthCap, NEW t \in (0..clock) \cup {Now}
      PROVE  LET hops == Hops(EdgesAt(IF t = Now THEN clock ELSE t))
                 impact == GetImpactPathAt(root, d, "both", t)
             IN /\ EndsOf(impact, "downstream") = Within(hops, root, d)
                /\ EndsOf(impact, "upstream") = Within(Reversed(hops), root, d)
  BY <1>1, <1>2, ImpactIs
<1>4. QED
  BY <1>3, Zenon DEF ImpactIsReachability, EndsOf

\* The graph of dependencies is sound, for any assets, edges and requests: whatever
\* creations, deletions and queries overlap, a cycle of open edges that the capped walk can
\* see contains an edge that was inserted blind, the impact query finds exactly what is
\* reachable (topology/service.go:438), and the picture of a location has its edges' ends.
THEOREM SoundGraph == DependencySpec => []GraphIsSound
<1>1. GraphInv => GraphIsSound
  BY ImpactAnswers DEF GraphInv, ReplyOK, GraphIsSound, AnswersMatchTheEdges
<1>2. GraphInv /\ [WriteDependencies \/ GetTopologyGraph \/ ClockTicks]_dependencyVars => GraphInv'
  BY GraphStep DEF DependencyStepOf
<1>3. QED
  BY <1>1, <1>2, GraphStart, PTL DEF DependencySpec

------------------------------------------------------------------------------
(***************************************************************************)
(* The snapshots of assets, for any assets, columns, values and            *)
(* transactions.                                                           *)
(*                                                                         *)
(* SnapshotInv: a transaction has a stamp that no other has, neither one   *)
(* that is open nor one that has written (StampsAreApart), and the last    *)
(* committed change of a row has left a snapshot of it                     *)
(* (LastChangeIsKept).                                                     *)
(***************************************************************************)

AssetRow == [life : {"none", "row", "gone"}, columns : [Columns -> Values], reads : Nat]
Snapshot == [asset : SnapshotAssets, validAt : Nat, columns : [Columns -> Values]]
Editing == {AtRest} \cup [began : Nat, on : {{a} : a \in SnapshotAssets}]

SnapshotTypeOK ==
    /\ assetRow \in [SnapshotAssets -> AssetRow]
    /\ snapshots \subseteq Snapshot /\ IsFiniteSet(snapshots)
    /\ editor \in [Editors -> Editing]
    /\ momentNow \in Nat
    /\ lastStamp \in [SnapshotAssets -> Nat]

\* A transaction has one stamp and no other has it: none that is open, none that has written.
StampsAreApart ==
    /\ \A s \in snapshots : s.validAt <= momentNow
    /\ \A w \in Editors : editor[w] # AtRest => editor[w].began <= momentNow
    /\ \A s, t \in snapshots : s.validAt = t.validAt => s = t
    /\ \A w \in Editors : \A s \in snapshots : editor[w] # AtRest => s.validAt # editor[w].began
    /\ \A w, x \in Editors :
          editor[w] # AtRest /\ editor[x] # AtRest /\ editor[w].began = editor[x].began => w = x

\* The last committed change of a row that is there has left a snapshot of the row.
LastChangeIsKept ==
    \A a \in SnapshotAssets : Present(a) =>
        \E s \in snapshots : s.asset = a /\ s.validAt = lastStamp[a] /\ s.columns = assetRow[a].columns

SnapshotInv == SnapshotTypeOK /\ StampsAreApart /\ LastChangeIsKept

\* The columns of a new row.
LEMMA InitialColumns == Initially \in [Columns -> Values]
  BY SnapshotAssumption DEF Initially

\* What a write leaves behind.
LEMMA WriteKeeps ==
    ASSUME SnapshotInv, NEW w \in Editors, NEW a \in SnapshotAssets, NEW columns \in [Columns -> Values],
           NEW fires \in BOOLEAN, editor[w].on = {a}, Writes(w, a, columns, fires),
           ~fires => Present(a) /\ columns = assetRow[a].columns
    PROVE  /\ SnapshotInv'
           /\ \A s \in snapshots' \ snapshots : s.asset = a /\ s.validAt = editor[w].began
           /\ snapshots \subseteq snapshots' /\ editor[w] # AtRest
<1> DEFINE s == [asset |-> a, validAt |-> editor[w].began, columns |-> columns]
           u == [assetRow[a] EXCEPT !.life = "row"]
<1>1. /\ editor[w] # AtRest /\ editor[w].began \in Nat /\ editor \in [Editors -> Editing]
      /\ momentNow \in Nat /\ snapshots \subseteq Snapshot /\ IsFiniteSet(snapshots)
      /\ lastStamp \in [SnapshotAssets -> Nat] /\ assetRow \in [SnapshotAssets -> AssetRow]
  BY DEF SnapshotInv, SnapshotTypeOK, Editing, AtRest
<1>2. s \in Snapshot /\ s.asset = a /\ s.validAt = editor[w].began /\ s.columns = columns
  BY <1>1 DEF Snapshot
<1>3. u \in AssetRow
  BY <1>1 DEF AssetRow
<1>4. assetRow' = [assetRow EXCEPT ![a] = [u EXCEPT !.columns = columns]]
  BY DEF Writes
<1>5. snapshots' = (IF fires THEN snapshots \cup {s} ELSE snapshots) /\ momentNow' = momentNow
      /\ lastStamp' = [lastStamp EXCEPT ![a] = IF fires THEN editor[w].began ELSE lastStamp[a]]
      /\ editor' = [editor EXCEPT ![w] = AtRest]
  BY DEF Writes
<1> HIDE DEF s, u
<1>6. [u EXCEPT !.columns = columns] \in AssetRow /\ [u EXCEPT !.columns = columns].columns = columns
  BY <1>3 DEF AssetRow
<1>7. /\ assetRow' \in [SnapshotAssets -> AssetRow] /\ assetRow'[a].columns = columns
      /\ \A b \in SnapshotAssets \ {a} : assetRow'[b] = assetRow[b]
  BY <1>1, <1>4, <1>6
<1>8. IsFiniteSet(snapshots') /\ snapshots' \subseteq Snapshot
  BY <1>1, <1>2, <1>5, FS_AddElement
<1>9. SnapshotTypeOK'
  <2>1. editor' \in [Editors -> Editing]
    BY <1>1, <1>5 DEF Editing
  <2>2. lastStamp' \in [SnapshotAssets -> Nat]
    BY <1>1, <1>5
  <2>3. QED
    BY <1>1, <1>5, <1>7, <1>8, <2>1, <2>2 DEF SnapshotTypeOK
<1>10. StampsAreApart'
  BY <1>1, <1>2, <1>5 DEF SnapshotInv, StampsAreApart
<1>11. LastChangeIsKept'
  <2>1. ASSUME NEW b \in SnapshotAssets \ {a}, Present(b)'
        PROVE  \E t \in snapshots' : t.asset = b /\ t.validAt = lastStamp'[b] /\ t.columns = assetRow'[b].columns
    BY <1>1, <1>5, <1>7, <2>1 DEF SnapshotInv, LastChangeIsKept, Present
  <2>2. \E t \in snapshots' : t.asset = a /\ t.validAt = lastStamp'[a] /\ t.columns = assetRow'[a].columns
    <3>1. CASE fires
      BY <1>1, <1>2, <1>5, <1>7, <3>1
    <3>2. CASE ~fires
      BY <1>1, <1>5, <1>7, <3>2 DEF SnapshotInv, LastChangeIsKept
    <3>3. QED
      BY <3>1, <3>2
  <2>3. QED
    BY <2>1, <2>2 DEF LastChangeIsKept
<1>12. QED
  BY <1>1, <1>2, <1>5, <1>9, <1>10, <1>11 DEF SnapshotInv

\* A step that writes no row's columns and takes no snapshot.
LEMMA QuietKeeps ==
    ASSUME SnapshotInv, snapshots' = snapshots, lastStamp' = lastStamp, momentNow' = momentNow,
           assetRow' \in [SnapshotAssets -> AssetRow],
           \A a \in SnapshotAssets : Present(a)' => Present(a) /\ assetRow'[a].columns = assetRow[a].columns,
           editor' \in [Editors -> Editing],
           \A w \in Editors : editor'[w] \in {editor[w], AtRest}
    PROVE  SnapshotInv'
<1>1. SnapshotTypeOK'
  BY DEF SnapshotInv, SnapshotTypeOK
<1>2. StampsAreApart'
  <2>1. \A w \in Editors : editor'[w] # AtRest => editor'[w] = editor[w]
    OBVIOUS
  <2>2. QED
    BY <2>1 DEF SnapshotInv, StampsAreApart
<1>3. LastChangeIsKept'
  BY DEF SnapshotInv, LastChangeIsKept
<1>4. QED
  BY <1>1, <1>2, <1>3 DEF SnapshotInv

\* Every step keeps what is known of the stamps and of the last changes.
LEMMA SnapshotStep ==
    ASSUME SnapshotInv, [SnapshotNext]_snapshotVars
    PROVE  SnapshotInv' /\ PastIsFinal
<1> DEFINE Quiet == snapshots' = snapshots
<1>0. /\ editor \in [Editors -> Editing] /\ AtRest \in Editing /\ momentNow \in Nat
      /\ assetRow \in [SnapshotAssets -> AssetRow] /\ snapshots \subseteq Snapshot
      /\ lastStamp \in [SnapshotAssets -> Nat] /\ IsFiniteSet(snapshots)
  BY DEF SnapshotInv, SnapshotTypeOK, Editing
<1>1. ASSUME NEW w \in Editors, NEW a \in SnapshotAssets, BeginEdit(w, a)
      PROVE  SnapshotInv' /\ Quiet
  <2> DEFINE e == [began |-> momentNow + 1, on |-> {a}]
  <2>1. /\ editor' = [editor EXCEPT ![w] = e] /\ momentNow' = momentNow + 1
        /\ assetRow' = assetRow /\ snapshots' = snapshots /\ lastStamp' = lastStamp
    BY <1>1 DEF BeginEdit
  <2>2. e \in Editing /\ e.began = momentNow + 1
    BY <1>0 DEF Editing
  <2> HIDE DEF e
  <2>3. editor' \in [Editors -> Editing] /\ \A x \in Editors : editor'[x] = IF x = w THEN e ELSE editor[x]
    BY <1>0, <2>1, <2>2
  <2>4. SnapshotTypeOK'
    BY <1>0, <2>1, <2>3 DEF SnapshotTypeOK
  <2>5. \A s \in snapshots : s.validAt \in Nat
    BY <1>0 DEF Snapshot
  <2>6. \A x \in Editors : editor[x] # AtRest => editor[x].began \in Nat
    BY <1>0 DEF Editing
  <2>7. StampsAreApart'
    BY <1>0, <2>1, <2>2, <2>3, <2>5, <2>6 DEF SnapshotInv, StampsAreApart
  <2>8. LastChangeIsKept'
    BY <2>1 DEF SnapshotInv, LastChangeIsKept, Present
  <2>9. QED
    BY <2>1, <2>4, <2>7, <2>8 DEF SnapshotInv
<1>2. ASSUME NEW w \in Editors, NEW a \in SnapshotAssets, InsertAsset(w, a)
      PROVE  /\ SnapshotInv'
             /\ \A s \in snapshots' \ snapshots : s.asset = a /\ s.validAt = editor[w].began
             /\ snapshots \subseteq snapshots' /\ editor[w] # AtRest
  BY <1>2, WriteKeeps, InitialColumns DEF InsertAsset
<1>3. ASSUME NEW w \in Editors, NEW a \in SnapshotAssets, NEW c \in Columns, NEW v \in Values,
             UpdateAssetRow(w, a, c, v)
      PROVE  /\ SnapshotInv'
             /\ \A s \in snapshots' \ snapshots : s.asset = a /\ s.validAt = editor[w].began
             /\ snapshots \subseteq snapshots' /\ editor[w] # AtRest
  <2> DEFINE columns == [assetRow[a].columns EXCEPT ![c] = v]
             fires == \E d \in SnapshotColumns \cap Columns : columns[d] # assetRow[a].columns[d]
  <2>1. assetRow[a].columns \in [Columns -> Values]
    BY <1>0 DEF AssetRow
  <2>2. columns \in [Columns -> Values]
    BY <2>1
  <2>3. ~fires => columns = assetRow[a].columns
    <3>1. Columns \subseteq SnapshotColumns
      BY SnapshotAssumption DEF SnapshotColumns
    <3>2. ~fires => \A d \in Columns : columns[d] = assetRow[a].columns[d]
      BY <3>1
    <3>3. QED
      BY <2>1, <2>2, <3>2
  <2>4. editor[w].on = {a} /\ Present(a) /\ Writes(w, a, columns, fires)
    BY <1>3 DEF UpdateAssetRow
  <2>5. fires \in BOOLEAN
    OBVIOUS
  <2> HIDE DEF columns, fires
  <2>6. QED
    BY <2>2, <2>3, <2>4, <2>5, WriteKeeps
<1>4. ASSUME NEW w \in Editors, NEW a \in SnapshotAssets, DeleteAssetRow(w, a)
      PROVE  SnapshotInv' /\ Quiet
  <2> DEFINE life == IF assetRow[a].life = "row" THEN "gone" ELSE assetRow[a].life
             u == [assetRow[a] EXCEPT !.life = life]
  <2>1. /\ editor' = [editor EXCEPT ![w] = AtRest] /\ momentNow' = momentNow
        /\ assetRow' = [assetRow EXCEPT ![a] = u] /\ snapshots' = snapshots /\ lastStamp' = lastStamp
    BY <1>4 DEF DeleteAssetRow
  <2>2. u \in AssetRow /\ u.life # "row"
    BY <1>0 DEF AssetRow
  <2> HIDE DEF u
  <2>3. /\ assetRow' \in [SnapshotAssets -> AssetRow]
        /\ \A b \in SnapshotAssets : Present(b)' => Present(b) /\ assetRow'[b].columns = assetRow[b].columns
    BY <1>0, <2>1, <2>2 DEF Present
  <2>4. editor' \in [Editors -> Editing] /\ \A x \in Editors : editor'[x] \in {editor[x], AtRest}
    BY <1>0, <2>1
  <2>5. QED
    BY <2>1, <2>3, <2>4, QuietKeeps
<1>5. ASSUME NEW w \in Editors, AbandonEdit(w)
      PROVE  SnapshotInv' /\ Quiet
  <2>1. editor' \in [Editors -> Editing] /\ \A x \in Editors : editor'[x] \in {editor[x], AtRest}
    BY <1>0, <1>5 DEF AbandonEdit
  <2>2. QED
    BY <1>0, <1>5, <2>1, QuietKeeps DEF AbandonEdit, Present
<1>6. ASSUME NEW ids \in SUBSET SnapshotAssets, BumpAssetsAccess(ids)
      PROVE  SnapshotInv' /\ Quiet
  <2>1. ASSUME NEW a \in SnapshotAssets
        PROVE  LET u == [assetRow[a] EXCEPT !.reads = assetRow[a].reads + 1] IN
               u \in AssetRow /\ u.life = assetRow[a].life /\ u.columns = assetRow[a].columns
    BY <1>0 DEF AssetRow
  <2>2. assetRow' = [a \in SnapshotAssets |->
            IF a \in ids THEN [assetRow[a] EXCEPT !.reads = assetRow[a].reads + 1] ELSE assetRow[a]]
    BY <1>6 DEF BumpAssetsAccess
  <2>3. /\ assetRow' \in [SnapshotAssets -> AssetRow]
        /\ \A b \in SnapshotAssets : Present(b)' => Present(b) /\ assetRow'[b].columns = assetRow[b].columns
    BY <1>0, <2>1, <2>2 DEF Present
  <2>4. QED
    BY <1>0, <1>6, <2>3, QuietKeeps DEF BumpAssetsAccess
<1>7. ASSUME ResetAccessCounts
      PROVE  SnapshotInv' /\ Quiet
  <2>1. ASSUME NEW a \in SnapshotAssets
        PROVE  LET u == [assetRow[a] EXCEPT !.reads = 0] IN
               u \in AssetRow /\ u.life = assetRow[a].life /\ u.columns = assetRow[a].columns
    BY <1>0 DEF AssetRow
  <2>2. assetRow' = [a \in SnapshotAssets |-> [assetRow[a] EXCEPT !.reads = 0]]
    BY <1>7 DEF ResetAccessCounts
  <2>3. /\ assetRow' \in [SnapshotAssets -> AssetRow]
        /\ \A b \in SnapshotAssets : Present(b)' => Present(b) /\ assetRow'[b].columns = assetRow[b].columns
    BY <1>0, <2>1, <2>2 DEF Present
  <2>4. QED
    BY <1>0, <1>7, <2>3, QuietKeeps DEF ResetAccessCounts
<1>8. ASSUME UNCHANGED snapshotVars
      PROVE  SnapshotInv' /\ Quiet
  BY <1>0, <1>8, QuietKeeps DEF snapshotVars, Present
<1>9. \/ SnapshotInv' /\ Quiet
      \/ \E w \in Editors, a \in SnapshotAssets :
            /\ SnapshotInv'
            /\ \A s \in snapshots' \ snapshots : s.asset = a /\ s.validAt = editor[w].began
            /\ snapshots \subseteq snapshots' /\ editor[w] # AtRest
  <2> HIDE DEF Quiet
  <2>1. QED
    BY <1>1, <1>2, <1>3, <1>4, <1>5, <1>6, <1>7, <1>8 DEF SnapshotNext
<1>10. ASSUME NEW at \in 0..momentNow, \A w \in Editors : editor[w] # AtRest => at < editor[w].began,
              NEW a \in SnapshotAssets
       PROVE  GetAssetStateAt(a, at)' = GetAssetStateAt(a, at)
  <2>1. ASSUME NEW w \in Editors, NEW b \in SnapshotAssets,
               \A s \in snapshots' \ snapshots : s.asset = b /\ s.validAt = editor[w].began,
               snapshots \subseteq snapshots', editor[w] # AtRest
        PROVE  SnapshotsOf(a, at)' = SnapshotsOf(a, at)
    <3>1. at < editor[w].began /\ editor[w].began \in Nat /\ at \in Nat
      BY <1>0, <1>10, <2>1 DEF Editing
    <3>2. QED
      BY <2>1, <3>1 DEF SnapshotsOf
  <2>2. SnapshotsOf(a, at)' = SnapshotsOf(a, at)
    BY <1>9, <2>1 DEF SnapshotsOf
  <2>3. QED
    BY <2>2 DEF GetAssetStateAt
<1>11. PastIsFinal
  BY <1>10 DEF PastIsFinal
<1>12. QED
  BY <1>9, <1>11

\* A behaviour keeps what is known of the stamps and of the last changes.
LEMMA SnapshotInvariant == SnapshotSpec => []SnapshotInv
<1>1. SnapshotInit => SnapshotInv
  <2> SUFFICES ASSUME SnapshotInit PROVE SnapshotInv
    OBVIOUS
  <2>1. SnapshotTypeOK
    BY InitialColumns, FS_EmptySet DEF SnapshotInit, SnapshotTypeOK, AssetRow, Editing
  <2>2. StampsAreApart /\ LastChangeIsKept
    BY DEF SnapshotInit, StampsAreApart, LastChangeIsKept, Present
  <2>3. QED
    BY <2>1, <2>2 DEF SnapshotInv
<1>2. SnapshotInv /\ [SnapshotNext]_snapshotVars => SnapshotInv'
  BY SnapshotStep
<1>3. QED
  BY <1>1, <1>2, PTL DEF SnapshotSpec

\* While no change has overtaken another one, the newest snapshot of a row that is there is the row.
LEMMA TheNewestIsTheRow ==
    ASSUME SnapshotInv, NEW a \in SnapshotAssets, Present(a), ~Overtaken(a)
    PROVE  \E s \in snapshots : /\ s.columns = assetRow[a].columns
                                /\ GetAssetStateAt(a, momentNow) = {s}
                                /\ ListAssetSnapshots(a, 1) = {s}
<1>1. PICK s \in snapshots : s.asset = a /\ s.validAt = lastStamp[a] /\ s.columns = assetRow[a].columns
  BY DEF SnapshotInv, LastChangeIsKept
<1>2. /\ momentNow \in Nat /\ IsFiniteSet(snapshots) /\ lastStamp[a] \in Nat
      /\ \A t \in snapshots : t.validAt \in Nat /\ t.validAt <= momentNow
      /\ \A t \in snapshots : t.validAt = s.validAt => t = s
  BY DEF SnapshotInv, SnapshotTypeOK, StampsAreApart, Snapshot
<1>3. s \in SnapshotsOf(a, momentNow) /\ SnapshotsOf(a, momentNow) \subseteq snapshots
  BY <1>1, <1>2 DEF SnapshotsOf
<1>4. \A t \in SnapshotsOf(a, momentNow) : t.validAt <= s.validAt /\ (t # s => t.validAt < s.validAt)
  BY <1>1, <1>2, <1>3 DEF Overtaken
<1>5. GetAssetStateAt(a, momentNow) = {s}
  BY <1>2, <1>3, <1>4 DEF GetAssetStateAt
<1>6. ListAssetSnapshots(a, 1) = {s}
  <2>1. ASSUME NEW t \in SnapshotsOf(a, momentNow)
        PROVE  Cardinality({r \in SnapshotsOf(a, momentNow) : r.validAt > t.validAt}) < 1 <=> t = s
    <3> DEFINE newer == {r \in SnapshotsOf(a, momentNow) : r.validAt > t.validAt}
    <3>1. newer \subseteq snapshots
      BY <1>3
    <3>2. IsFiniteSet(newer)
      BY <1>2, <3>1, FS_Subset
    <3>3. Cardinality(newer) < 1 <=> newer = {}
      <4> HIDE DEF newer
      <4>1. Cardinality(newer) \in Nat /\ (Cardinality(newer) = 0 <=> newer = {})
        BY <3>2, FS_CardinalityType, FS_EmptySet
      <4>2. QED
        BY <4>1
    <3>4. newer = {} <=> t = s
      BY <1>2, <1>3, <1>4
    <3>5. QED
      BY <3>3, <3>4
  <2>2. QED
    BY <1>3, <2>1 DEF ListAssetSnapshots
<1>7. QED
  BY <1>1, <1>5, <1>6

\* No moment has two states.
LEMMA OneStateAt ==
    ASSUME SnapshotInv, NEW a \in SnapshotAssets, NEW at \in Nat, NEW s \in GetAssetStateAt(a, at)
    PROVE  GetAssetStateAt(a, at) = {s}
<1>1. \A t \in SnapshotsOf(a, at) : t \in snapshots /\ t.validAt \in Nat
  BY DEF SnapshotsOf, SnapshotInv, SnapshotTypeOK, Snapshot
<1>2. \A t \in GetAssetStateAt(a, at) : t.validAt = s.validAt /\ t \in snapshots
  BY <1>1 DEF GetAssetStateAt
<1>3. QED
  BY <1>2 DEF SnapshotInv, StampsAreApart

\* The states an asset is told to have had: the present is the row unless a change overtook
\* another, and what was told of a time before the open transactions stays told
\* (asset/service.go:157, migrations 000056 to 000061).
THEOREM ThePastIsTold == SnapshotSpec => SnapshotsTellThePast
<1>1. SnapshotInv => PresentIsTold
  <2> SUFFICES ASSUME SnapshotInv, NEW a \in SnapshotAssets, Present(a), ~Overtaken(a)
               PROVE  /\ GetAssetStateAt(a, momentNow) = ListAssetSnapshots(a, 1)
                      /\ {s.columns : s \in GetAssetStateAt(a, momentNow)} = {assetRow[a].columns}
                      /\ \A at \in 0..momentNow : \A s \in GetAssetStateAt(a, at) :
                            DiffStateAt(a, at, momentNow) = {c \in Columns : s.columns[c] # assetRow[a].columns[c]}
    BY DEF PresentIsTold
  <2>1. PICK n \in snapshots : /\ n.columns = assetRow[a].columns
                               /\ GetAssetStateAt(a, momentNow) = {n}
                               /\ ListAssetSnapshots(a, 1) = {n}
    BY TheNewestIsTheRow
  <2>2. ASSUME NEW at \in 0..momentNow, NEW s \in GetAssetStateAt(a, at)
        PROVE  DiffStateAt(a, at, momentNow) = {c \in Columns : s.columns[c] # assetRow[a].columns[c]}
    <3>1. GetAssetStateAt(a, at) = {s}
      BY <2>2, OneStateAt DEF SnapshotInv, SnapshotTypeOK
    <3>2. DiffStateAt(a, at, momentNow) = DiffSnapshots(s, n)
      BY <2>1, <3>1 DEF DiffStateAt
    <3>3. QED
      BY <2>1, <3>2 DEF DiffSnapshots
  <2>3. QED
    BY <2>1, <2>2
<1>2. SnapshotInv /\ [SnapshotNext]_snapshotVars => [PastIsFinal]_snapshotVars
  BY SnapshotStep
<1>3. QED
  BY <1>1, <1>2, SnapshotInvariant, PTL DEF SnapshotSpec, SnapshotsTellThePast
==============================================================================
