---------------------------- MODULE KeepingProofs ----------------------------
(***************************************************************************)
(* Proofs about what must be kept: secrets at rest while their keys        *)
(* rotate, audit events while their partitions are archived, and reviews   *)
(* of recommendations while scans refresh them. The parts share no state:  *)
(* each theorem is about the specification of its own part.                *)
(***************************************************************************)
EXTENDS SecretRotation, AuditArchive, PredictiveRefresh, TLAPS

------------------------------------------------------------------------------
(***************************************************************************)
(* Theorems about the encrypted columns, for any number of rows, servers   *)
(* and values and any failures.                                            *)
(*                                                                         *)
(* SyncInv says why no save is lost: a row a command has read and not      *)
(* reached yet either still holds what was read, or holds a ciphertext     *)
(* that makes the command's UPDATE miss it.  For the rotation this rests   *)
(* on every server having been restarted with the new key, so that saves   *)
(* write the new version; for the backfill on every save writing a         *)
(* ciphertext.  It does not need the selector of stage 2.  KeyInv says     *)
(* which versions exist at which stage; it does.                           *)
(***************************************************************************)

\* What a server is about to write agrees with itself, and with the row it is for.
SavesAgree ==
    \A s \in Servers : req[s].op # "none" =>
        /\ req[s].sealed # Null =>
              /\ req[s].sealed.value = req[s].plain
              /\ req[s].sealed.version = resolveActiveVersion(ring[s])
        /\ req[s].op = "create" => row[req[s].row].state = "unborn"
        /\ req[s].op = "update" => row[req[s].row].state # "unborn" /\ req[s].sealed # Null

OneCreator ==
    \A s, t \in Servers :
        req[s].op = "create" /\ req[t].op = "create" /\ req[s].row = req[t].row => s = t

\* While the rotation runs, everything is at the new key.
RotatesAtNewKey == rotation.table # "none" => stage = 3 /\ \A s \in Servers : ring[s] = 3

RotationHand ==
    \A r \in Rows : rotation.hand[r] # Null =>
        /\ rotation.table # "none"
        /\ row[r].state # "unborn"
        /\ Here(r) => /\ row[r].sealed # Null
                      /\ row[r].sealed.version # 2 => rotation.hand[r].value = row[r].plain

BackfillHand ==
    \A r \in Rows : backfill.hand[r] # Null =>
        /\ backfill.table # "none"
        /\ row[r].state # "unborn"
        /\ Here(r) /\ row[r].sealed = Null => backfill.hand[r] = row[r].plain

SyncInv ==
    /\ TypeOK
    /\ SavesAgree
    /\ OneCreator
    /\ RotatesAtNewKey
    /\ RotationHand
    /\ BackfillHand
    /\ SavedSecretIsServed

\* Servers are at most one stage behind.
RingIsRecent == \A s \in Servers : ring[s] = stage \/ ring[s] + 1 = stage

\* The new key's ciphertexts appear when it becomes active; the old key's are gone
\* when it is.
VersionsFitStage ==
    \A r \in Rows : Here(r) /\ row[r].sealed # Null =>
        IF row[r].sealed.version = 2 THEN 3 <= stage ELSE stage <= 3

BackfillIsRecent ==
    backfill.table # "none" => backfill.stage <= stage /\ (stage = 4 => 3 <= backfill.stage)

KeyInv == RingIsRecent /\ VersionsFitStage /\ BackfillIsRecent

------------------------------------------------------------------------------
\* The active key of every environment, and what encrypting gives.
LEMMA ActiveKey ==
    ASSUME NEW e \in Stages
    PROVE  /\ resolveActiveVersion(e) \in 1 .. 2
           /\ resolveActiveVersion(3) = 2
           /\ \A v \in Values : Encrypt(e, v) \in Sealed /\ Encrypt(e, v) # Null
<1>1. resolveActiveVersion(e) \in 1 .. 2 /\ resolveActiveVersion(3) = 2
  BY SecretAssumption DEF resolveActiveVersion, Selector, Keys, Stages
<1>2. ASSUME NEW v \in Values PROVE Encrypt(e, v) \in Sealed /\ Encrypt(e, v) # Null
  BY <1>1, SecretAssumption DEF Encrypt, Sealed, Values
<1>3. QED
  BY <1>1, <1>2

\* Every step keeps the types.
LEMMA TypeStep ==
    ASSUME TypeOK, [Next]_vars
    PROVE  TypeOK'
<1>1. ASSUME NEW s \in Servers, NEW r \in Rows, NEW v \in Values \cup {Null}, Create(s, r, v)
      PROVE  TypeOK'
  <2>1. \A e \in Stages, x \in Values : Encrypt(e, x) \in Sealed
    BY ActiveKey
  <2>2. row' \in [Rows -> Row]
    BY <1>1, SecretAssumption, <2>1 DEF Create, TypeOK, Row, Request, Rotation, Backfill,
       Tables, Stages, Idle, Sealed, Values, Rows, Here
  <2>3. stage' \in Stages /\ ring' \in [Servers -> Stages] /\ failures' \in 0 .. MaxFailures
    BY <1>1, SecretAssumption, <2>1 DEF Create, TypeOK, Row, Request, Rotation, Backfill,
       Tables, Stages, Idle, Sealed, Values, Rows, Here
  <2>4. req' \in [Servers -> Request \cup {Idle}]
    BY <1>1, SecretAssumption, <2>1 DEF Create, TypeOK, Row, Request, Rotation, Backfill,
       Tables, Stages, Idle, Sealed, Values, Rows, Here
  <2>5. rotation' \in Rotation
    BY <1>1, SecretAssumption, <2>1 DEF Create, TypeOK, Row, Request, Rotation, Backfill,
       Tables, Stages, Idle, Sealed, Values, Rows, Here
  <2>6. backfill' \in Backfill
    BY <1>1, SecretAssumption, <2>1 DEF Create, TypeOK, Row, Request, Rotation, Backfill,
       Tables, Stages, Idle, Sealed, Values, Rows, Here
  <2>7. QED
    BY <2>1, <2>2, <2>3, <2>4, <2>5, <2>6 DEF TypeOK
<1>2. ASSUME NEW s \in Servers, NEW r \in Rows, NEW v \in Values, Update(s, r, v)
      PROVE  TypeOK'
  <2>1. \A e \in Stages, x \in Values : Encrypt(e, x) \in Sealed
    BY ActiveKey
  <2>2. row' \in [Rows -> Row]
    BY <1>2, SecretAssumption, <2>1 DEF Update, TypeOK, Row, Request, Rotation, Backfill,
       Tables, Stages, Idle, Sealed, Values, Rows, Here
  <2>3. stage' \in Stages /\ ring' \in [Servers -> Stages] /\ failures' \in 0 .. MaxFailures
    BY <1>2, SecretAssumption, <2>1 DEF Update, TypeOK, Row, Request, Rotation, Backfill,
       Tables, Stages, Idle, Sealed, Values, Rows, Here
  <2>4. req' \in [Servers -> Request \cup {Idle}]
    BY <1>2, SecretAssumption, <2>1 DEF Update, TypeOK, Row, Request, Rotation, Backfill,
       Tables, Stages, Idle, Sealed, Values, Rows, Here
  <2>5. rotation' \in Rotation
    BY <1>2, SecretAssumption, <2>1 DEF Update, TypeOK, Row, Request, Rotation, Backfill,
       Tables, Stages, Idle, Sealed, Values, Rows, Here
  <2>6. backfill' \in Backfill
    BY <1>2, SecretAssumption, <2>1 DEF Update, TypeOK, Row, Request, Rotation, Backfill,
       Tables, Stages, Idle, Sealed, Values, Rows, Here
  <2>7. QED
    BY <2>1, <2>2, <2>3, <2>4, <2>5, <2>6 DEF TypeOK
<1>3. ASSUME NEW s \in Servers, Write(s)
      PROVE  TypeOK'
  <2>1. row' \in [Rows -> Row]
    BY <1>3, SecretAssumption DEF Write, Store, TypeOK, Row, Request, Rotation, Backfill,
       Tables, Stages, Idle, Sealed, Values, Rows, Here
  <2>2. stage' \in Stages /\ ring' \in [Servers -> Stages] /\ failures' \in 0 .. MaxFailures
    BY <1>3, SecretAssumption DEF Write, Store, TypeOK, Row, Request, Rotation, Backfill,
       Tables, Stages, Idle, Sealed, Values, Rows, Here
  <2>3. req' \in [Servers -> Request \cup {Idle}]
    BY <1>3, SecretAssumption DEF Write, Store, TypeOK, Row, Request, Rotation, Backfill,
       Tables, Stages, Idle, Sealed, Values, Rows, Here
  <2>4. rotation' \in Rotation
    BY <1>3, SecretAssumption DEF Write, Store, TypeOK, Row, Request, Rotation, Backfill,
       Tables, Stages, Idle, Sealed, Values, Rows, Here
  <2>5. backfill' \in Backfill
    BY <1>3, SecretAssumption DEF Write, Store, TypeOK, Row, Request, Rotation, Backfill,
       Tables, Stages, Idle, Sealed, Values, Rows, Here
  <2>6. QED
    BY <2>1, <2>2, <2>3, <2>4, <2>5 DEF TypeOK
<1>4. ASSUME NEW s \in Servers, Restart(s)
      PROVE  TypeOK'
  <2>1. row' \in [Rows -> Row]
    BY <1>4, SecretAssumption DEF Restart, TypeOK, Row, Request, Rotation, Backfill, Tables,
       Stages, Idle, Sealed, Values, Rows, Here
  <2>2. stage' \in Stages /\ ring' \in [Servers -> Stages] /\ failures' \in 0 .. MaxFailures
    BY <1>4, SecretAssumption DEF Restart, TypeOK, Row, Request, Rotation, Backfill, Tables,
       Stages, Idle, Sealed, Values, Rows, Here
  <2>3. req' \in [Servers -> Request \cup {Idle}]
    BY <1>4, SecretAssumption DEF Restart, TypeOK, Row, Request, Rotation, Backfill, Tables,
       Stages, Idle, Sealed, Values, Rows, Here
  <2>4. rotation' \in Rotation
    BY <1>4, SecretAssumption DEF Restart, TypeOK, Row, Request, Rotation, Backfill, Tables,
       Stages, Idle, Sealed, Values, Rows, Here
  <2>5. backfill' \in Backfill
    BY <1>4, SecretAssumption DEF Restart, TypeOK, Row, Request, Rotation, Backfill, Tables,
       Stages, Idle, Sealed, Values, Rows, Here
  <2>6. QED
    BY <2>1, <2>2, <2>3, <2>4, <2>5 DEF TypeOK
<1>5. ASSUME NEW r \in Rows, Delete(r)
      PROVE  TypeOK'
  <2>1. row' \in [Rows -> Row]
    BY <1>5, SecretAssumption DEF Delete, TypeOK, Row, Request, Rotation, Backfill, Tables,
       Stages, Idle, Sealed, Values, Rows, Here
  <2>2. stage' \in Stages /\ ring' \in [Servers -> Stages] /\ failures' \in 0 .. MaxFailures
    BY <1>5, SecretAssumption DEF Delete, TypeOK, Row, Request, Rotation, Backfill, Tables,
       Stages, Idle, Sealed, Values, Rows, Here
  <2>3. req' \in [Servers -> Request \cup {Idle}]
    BY <1>5, SecretAssumption DEF Delete, TypeOK, Row, Request, Rotation, Backfill, Tables,
       Stages, Idle, Sealed, Values, Rows, Here
  <2>4. rotation' \in Rotation
    BY <1>5, SecretAssumption DEF Delete, TypeOK, Row, Request, Rotation, Backfill, Tables,
       Stages, Idle, Sealed, Values, Rows, Here
  <2>5. backfill' \in Backfill
    BY <1>5, SecretAssumption DEF Delete, TypeOK, Row, Request, Rotation, Backfill, Tables,
       Stages, Idle, Sealed, Values, Rows, Here
  <2>6. QED
    BY <2>1, <2>2, <2>3, <2>4, <2>5 DEF TypeOK
<1>6. ASSUME NEW r \in Rows, RotateRowFails(r)
      PROVE  TypeOK'
  <2>1. row' \in [Rows -> Row]
    BY <1>6, SecretAssumption DEF RotateRowFails, Fail, Reached, TypeOK, Row, Request,
       Rotation, Backfill, Tables, Stages, Idle, Sealed, Values, Rows, Here
  <2>2. stage' \in Stages /\ ring' \in [Servers -> Stages] /\ failures' \in 0 .. MaxFailures
    BY <1>6, SecretAssumption DEF RotateRowFails, Fail, Reached, TypeOK, Row, Request,
       Rotation, Backfill, Tables, Stages, Idle, Sealed, Values, Rows, Here
  <2>3. req' \in [Servers -> Request \cup {Idle}]
    BY <1>6, SecretAssumption DEF RotateRowFails, Fail, Reached, TypeOK, Row, Request,
       Rotation, Backfill, Tables, Stages, Idle, Sealed, Values, Rows, Here
  <2>4. rotation' \in Rotation
    BY <1>6, SecretAssumption DEF RotateRowFails, Fail, Reached, TypeOK, Row, Request,
       Rotation, Backfill, Tables, Stages, Idle, Sealed, Values, Rows, Here
  <2>5. backfill' \in Backfill
    BY <1>6, SecretAssumption DEF RotateRowFails, Fail, Reached, TypeOK, Row, Request,
       Rotation, Backfill, Tables, Stages, Idle, Sealed, Values, Rows, Here
  <2>6. QED
    BY <2>1, <2>2, <2>3, <2>4, <2>5 DEF TypeOK
<1>7. ASSUME NEW r \in Rows, BackfillRowFails(r)
      PROVE  TypeOK'
  <2>1. row' \in [Rows -> Row]
    BY <1>7, SecretAssumption DEF BackfillRowFails, Fail, Filled, TypeOK, Row, Request,
       Rotation, Backfill, Tables, Stages, Idle, Sealed, Values, Rows, Here
  <2>2. stage' \in Stages /\ ring' \in [Servers -> Stages] /\ failures' \in 0 .. MaxFailures
    BY <1>7, SecretAssumption DEF BackfillRowFails, Fail, Filled, TypeOK, Row, Request,
       Rotation, Backfill, Tables, Stages, Idle, Sealed, Values, Rows, Here
  <2>3. req' \in [Servers -> Request \cup {Idle}]
    BY <1>7, SecretAssumption DEF BackfillRowFails, Fail, Filled, TypeOK, Row, Request,
       Rotation, Backfill, Tables, Stages, Idle, Sealed, Values, Rows, Here
  <2>4. rotation' \in Rotation
    BY <1>7, SecretAssumption DEF BackfillRowFails, Fail, Filled, TypeOK, Row, Request,
       Rotation, Backfill, Tables, Stages, Idle, Sealed, Values, Rows, Here
  <2>5. backfill' \in Backfill
    BY <1>7, SecretAssumption DEF BackfillRowFails, Fail, Filled, TypeOK, Row, Request,
       Rotation, Backfill, Tables, Stages, Idle, Sealed, Values, Rows, Here
  <2>6. QED
    BY <2>1, <2>2, <2>3, <2>4, <2>5 DEF TypeOK
<1>8. CASE rotateAdapters
  <2>1. row' \in [Rows -> Row]
    BY <1>8, SecretAssumption DEF rotateAdapters, Select, Candidate, Active, TypeOK, Row,
       Request, Rotation, Backfill, Tables, Stages, Idle, Sealed, Values, Rows, Here
  <2>2. stage' \in Stages /\ ring' \in [Servers -> Stages] /\ failures' \in 0 .. MaxFailures
    BY <1>8, SecretAssumption DEF rotateAdapters, Select, Candidate, Active, TypeOK, Row,
       Request, Rotation, Backfill, Tables, Stages, Idle, Sealed, Values, Rows, Here
  <2>3. req' \in [Servers -> Request \cup {Idle}]
    BY <1>8, SecretAssumption DEF rotateAdapters, Select, Candidate, Active, TypeOK, Row,
       Request, Rotation, Backfill, Tables, Stages, Idle, Sealed, Values, Rows, Here
  <2>4. rotation' \in Rotation
    BY <1>8, SecretAssumption DEF rotateAdapters, Select, Candidate, Active, TypeOK, Row,
       Request, Rotation, Backfill, Tables, Stages, Idle, Sealed, Values, Rows, Here
  <2>5. backfill' \in Backfill
    BY <1>8, SecretAssumption DEF rotateAdapters, Select, Candidate, Active, TypeOK, Row,
       Request, Rotation, Backfill, Tables, Stages, Idle, Sealed, Values, Rows, Here
  <2>6. QED
    BY <2>1, <2>2, <2>3, <2>4, <2>5 DEF TypeOK
<1>9. CASE rotateWebhooks
  <2>1. row' \in [Rows -> Row]
    BY <1>9, SecretAssumption DEF rotateWebhooks, Select, Candidate, Active, TypeOK, Row,
       Request, Rotation, Backfill, Tables, Stages, Idle, Sealed, Values, Rows, Here
  <2>2. stage' \in Stages /\ ring' \in [Servers -> Stages] /\ failures' \in 0 .. MaxFailures
    BY <1>9, SecretAssumption DEF rotateWebhooks, Select, Candidate, Active, TypeOK, Row,
       Request, Rotation, Backfill, Tables, Stages, Idle, Sealed, Values, Rows, Here
  <2>3. req' \in [Servers -> Request \cup {Idle}]
    BY <1>9, SecretAssumption DEF rotateWebhooks, Select, Candidate, Active, TypeOK, Row,
       Request, Rotation, Backfill, Tables, Stages, Idle, Sealed, Values, Rows, Here
  <2>4. rotation' \in Rotation
    BY <1>9, SecretAssumption DEF rotateWebhooks, Select, Candidate, Active, TypeOK, Row,
       Request, Rotation, Backfill, Tables, Stages, Idle, Sealed, Values, Rows, Here
  <2>5. backfill' \in Backfill
    BY <1>9, SecretAssumption DEF rotateWebhooks, Select, Candidate, Active, TypeOK, Row,
       Request, Rotation, Backfill, Tables, Stages, Idle, Sealed, Values, Rows, Here
  <2>6. QED
    BY <2>1, <2>2, <2>3, <2>4, <2>5 DEF TypeOK
<1>10. CASE RotationEnds
  <2>1. row' \in [Rows -> Row]
    BY <1>10, SecretAssumption DEF RotationEnds, Fail, NoRotation, Nothing, TypeOK, Row,
       Request, Rotation, Backfill, Tables, Stages, Idle, Sealed, Values, Rows, Here
  <2>2. stage' \in Stages /\ ring' \in [Servers -> Stages] /\ failures' \in 0 .. MaxFailures
    BY <1>10, SecretAssumption DEF RotationEnds, Fail, NoRotation, Nothing, TypeOK, Row,
       Request, Rotation, Backfill, Tables, Stages, Idle, Sealed, Values, Rows, Here
  <2>3. req' \in [Servers -> Request \cup {Idle}]
    BY <1>10, SecretAssumption DEF RotationEnds, Fail, NoRotation, Nothing, TypeOK, Row,
       Request, Rotation, Backfill, Tables, Stages, Idle, Sealed, Values, Rows, Here
  <2>4. rotation' \in Rotation
    BY <1>10, SecretAssumption DEF RotationEnds, Fail, NoRotation, Nothing, TypeOK, Row,
       Request, Rotation, Backfill, Tables, Stages, Idle, Sealed, Values, Rows, Here
  <2>5. backfill' \in Backfill
    BY <1>10, SecretAssumption DEF RotationEnds, Fail, NoRotation, Nothing, TypeOK, Row,
       Request, Rotation, Backfill, Tables, Stages, Idle, Sealed, Values, Rows, Here
  <2>6. QED
    BY <2>1, <2>2, <2>3, <2>4, <2>5 DEF TypeOK
<1>11. ASSUME NEW r \in Rows, RotateRow(r)
       PROVE  TypeOK'
  <2>1. \A e \in Stages, x \in Values : Encrypt(e, x) \in Sealed
    BY ActiveKey
  <2>2. row' \in [Rows -> Row]
    BY <1>11, SecretAssumption, <2>1 DEF RotateRow, Reached, Seal, Stale, Candidate, Active,
       TypeOK, Row, Request, Rotation, Backfill, Tables, Stages, Idle, Sealed, Values, Rows,
       Here
  <2>3. stage' \in Stages /\ ring' \in [Servers -> Stages] /\ failures' \in 0 .. MaxFailures
    BY <1>11, SecretAssumption, <2>1 DEF RotateRow, Reached, Seal, Stale, Candidate, Active,
       TypeOK, Row, Request, Rotation, Backfill, Tables, Stages, Idle, Sealed, Values, Rows,
       Here
  <2>4. req' \in [Servers -> Request \cup {Idle}]
    BY <1>11, SecretAssumption, <2>1 DEF RotateRow, Reached, Seal, Stale, Candidate, Active,
       TypeOK, Row, Request, Rotation, Backfill, Tables, Stages, Idle, Sealed, Values, Rows,
       Here
  <2>5. rotation' \in Rotation
    BY <1>11, SecretAssumption, <2>1 DEF RotateRow, Reached, Seal, Stale, Candidate, Active,
       TypeOK, Row, Request, Rotation, Backfill, Tables, Stages, Idle, Sealed, Values, Rows,
       Here
  <2>6. backfill' \in Backfill
    BY <1>11, SecretAssumption, <2>1 DEF RotateRow, Reached, Seal, Stale, Candidate, Active,
       TypeOK, Row, Request, Rotation, Backfill, Tables, Stages, Idle, Sealed, Values, Rows,
       Here
  <2>7. QED
    BY <2>1, <2>2, <2>3, <2>4, <2>5, <2>6 DEF TypeOK
<1>12. CASE backfillAdapters
  <2>1. row' \in [Rows -> Row]
    BY <1>12, SecretAssumption DEF backfillAdapters, List, Unencrypted, TypeOK, Row, Request,
       Rotation, Backfill, Tables, Stages, Idle, Sealed, Values, Rows, Here
  <2>2. stage' \in Stages /\ ring' \in [Servers -> Stages] /\ failures' \in 0 .. MaxFailures
    BY <1>12, SecretAssumption DEF backfillAdapters, List, Unencrypted, TypeOK, Row, Request,
       Rotation, Backfill, Tables, Stages, Idle, Sealed, Values, Rows, Here
  <2>3. req' \in [Servers -> Request \cup {Idle}]
    BY <1>12, SecretAssumption DEF backfillAdapters, List, Unencrypted, TypeOK, Row, Request,
       Rotation, Backfill, Tables, Stages, Idle, Sealed, Values, Rows, Here
  <2>4. rotation' \in Rotation
    BY <1>12, SecretAssumption DEF backfillAdapters, List, Unencrypted, TypeOK, Row, Request,
       Rotation, Backfill, Tables, Stages, Idle, Sealed, Values, Rows, Here
  <2>5. backfill' \in Backfill
    BY <1>12, SecretAssumption DEF backfillAdapters, List, Unencrypted, TypeOK, Row, Request,
       Rotation, Backfill, Tables, Stages, Idle, Sealed, Values, Rows, Here
  <2>6. QED
    BY <2>1, <2>2, <2>3, <2>4, <2>5 DEF TypeOK
<1>13. CASE backfillWebhooks
  <2>1. row' \in [Rows -> Row]
    BY <1>13, SecretAssumption DEF backfillWebhooks, List, Unencrypted, TypeOK, Row, Request,
       Rotation, Backfill, Tables, Stages, Idle, Sealed, Values, Rows, Here
  <2>2. stage' \in Stages /\ ring' \in [Servers -> Stages] /\ failures' \in 0 .. MaxFailures
    BY <1>13, SecretAssumption DEF backfillWebhooks, List, Unencrypted, TypeOK, Row, Request,
       Rotation, Backfill, Tables, Stages, Idle, Sealed, Values, Rows, Here
  <2>3. req' \in [Servers -> Request \cup {Idle}]
    BY <1>13, SecretAssumption DEF backfillWebhooks, List, Unencrypted, TypeOK, Row, Request,
       Rotation, Backfill, Tables, Stages, Idle, Sealed, Values, Rows, Here
  <2>4. rotation' \in Rotation
    BY <1>13, SecretAssumption DEF backfillWebhooks, List, Unencrypted, TypeOK, Row, Request,
       Rotation, Backfill, Tables, Stages, Idle, Sealed, Values, Rows, Here
  <2>5. backfill' \in Backfill
    BY <1>13, SecretAssumption DEF backfillWebhooks, List, Unencrypted, TypeOK, Row, Request,
       Rotation, Backfill, Tables, Stages, Idle, Sealed, Values, Rows, Here
  <2>6. QED
    BY <2>1, <2>2, <2>3, <2>4, <2>5 DEF TypeOK
<1>14. CASE BackfillEnds
  <2>1. row' \in [Rows -> Row]
    BY <1>14, SecretAssumption DEF BackfillEnds, Fail, NoBackfill, Nothing, TypeOK, Row,
       Request, Rotation, Backfill, Tables, Stages, Idle, Sealed, Values, Rows, Here
  <2>2. stage' \in Stages /\ ring' \in [Servers -> Stages] /\ failures' \in 0 .. MaxFailures
    BY <1>14, SecretAssumption DEF BackfillEnds, Fail, NoBackfill, Nothing, TypeOK, Row,
       Request, Rotation, Backfill, Tables, Stages, Idle, Sealed, Values, Rows, Here
  <2>3. req' \in [Servers -> Request \cup {Idle}]
    BY <1>14, SecretAssumption DEF BackfillEnds, Fail, NoBackfill, Nothing, TypeOK, Row,
       Request, Rotation, Backfill, Tables, Stages, Idle, Sealed, Values, Rows, Here
  <2>4. rotation' \in Rotation
    BY <1>14, SecretAssumption DEF BackfillEnds, Fail, NoBackfill, Nothing, TypeOK, Row,
       Request, Rotation, Backfill, Tables, Stages, Idle, Sealed, Values, Rows, Here
  <2>5. backfill' \in Backfill
    BY <1>14, SecretAssumption DEF BackfillEnds, Fail, NoBackfill, Nothing, TypeOK, Row,
       Request, Rotation, Backfill, Tables, Stages, Idle, Sealed, Values, Rows, Here
  <2>6. QED
    BY <2>1, <2>2, <2>3, <2>4, <2>5 DEF TypeOK
<1>15. ASSUME NEW r \in Rows, BackfillRow(r)
       PROVE  TypeOK'
  <2>1. \A e \in Stages, x \in Values : Encrypt(e, x) \in Sealed
    BY ActiveKey
  <2>2. row' \in [Rows -> Row]
    BY <1>15, SecretAssumption, <2>1 DEF BackfillRow, Filled, Seal, TypeOK, Row, Request,
       Rotation, Backfill, Tables, Stages, Idle, Sealed, Values, Rows, Here
  <2>3. stage' \in Stages /\ ring' \in [Servers -> Stages] /\ failures' \in 0 .. MaxFailures
    BY <1>15, SecretAssumption, <2>1 DEF BackfillRow, Filled, Seal, TypeOK, Row, Request,
       Rotation, Backfill, Tables, Stages, Idle, Sealed, Values, Rows, Here
  <2>4. req' \in [Servers -> Request \cup {Idle}]
    BY <1>15, SecretAssumption, <2>1 DEF BackfillRow, Filled, Seal, TypeOK, Row, Request,
       Rotation, Backfill, Tables, Stages, Idle, Sealed, Values, Rows, Here
  <2>5. rotation' \in Rotation
    BY <1>15, SecretAssumption, <2>1 DEF BackfillRow, Filled, Seal, TypeOK, Row, Request,
       Rotation, Backfill, Tables, Stages, Idle, Sealed, Values, Rows, Here
  <2>6. backfill' \in Backfill
    BY <1>15, SecretAssumption, <2>1 DEF BackfillRow, Filled, Seal, TypeOK, Row, Request,
       Rotation, Backfill, Tables, Stages, Idle, Sealed, Values, Rows, Here
  <2>7. QED
    BY <2>1, <2>2, <2>3, <2>4, <2>5, <2>6 DEF TypeOK
<1>16. CASE NextStage
  <2>1. row' \in [Rows -> Row]
    BY <1>16, SecretAssumption DEF NextStage, TypeOK, Row, Request, Rotation, Backfill, Tables,
       Stages, Idle, Sealed, Values, Rows, Here
  <2>2. stage' \in Stages /\ ring' \in [Servers -> Stages] /\ failures' \in 0 .. MaxFailures
    BY <1>16, SecretAssumption DEF NextStage, TypeOK, Row, Request, Rotation, Backfill, Tables,
       Stages, Idle, Sealed, Values, Rows, Here
  <2>3. req' \in [Servers -> Request \cup {Idle}]
    BY <1>16, SecretAssumption DEF NextStage, TypeOK, Row, Request, Rotation, Backfill, Tables,
       Stages, Idle, Sealed, Values, Rows, Here
  <2>4. rotation' \in Rotation
    BY <1>16, SecretAssumption DEF NextStage, TypeOK, Row, Request, Rotation, Backfill, Tables,
       Stages, Idle, Sealed, Values, Rows, Here
  <2>5. backfill' \in Backfill
    BY <1>16, SecretAssumption DEF NextStage, TypeOK, Row, Request, Rotation, Backfill, Tables,
       Stages, Idle, Sealed, Values, Rows, Here
  <2>6. QED
    BY <2>1, <2>2, <2>3, <2>4, <2>5 DEF TypeOK
<1>17. CASE UNCHANGED vars
  BY <1>17 DEF vars, TypeOK, Row, Request, Rotation, Backfill, Tables, Stages, Idle, Sealed,
     Values, Rows, Here
<1>18. QED
  BY <1>1, <1>2, <1>3, <1>4, <1>5, <1>6, <1>7, <1>8, <1>9, <1>10, <1>11, <1>12, <1>13, <1>14,
     <1>15, <1>16, <1>17 DEF Next, Rotate, DoBackfill
\* Requests keep agreeing with themselves and their rows.
LEMMA SavesStep ==
    ASSUME TypeOK, SavesAgree, OneCreator, [Next]_vars
    PROVE  SavesAgree' /\ OneCreator'
<1>1. ASSUME NEW s \in Servers, NEW r \in Rows, NEW v \in Values \cup {Null}, Create(s, r, v)
      PROVE  SavesAgree' /\ OneCreator'
  <2>1. \A e \in Stages, x \in Values :
  /\ Encrypt(e, x) \in Sealed /\ Encrypt(e, x) # Null
  /\ Encrypt(e, x).value = x /\ Encrypt(e, x).version = resolveActiveVersion(e)
    BY ActiveKey DEF Encrypt
  <2>2. SavesAgree'
    BY <1>1, SecretAssumption, <2>1 DEF Create, SavesAgree, OneCreator, TypeOK, Request, Idle,
       Row, Here, Rows, Stages, Values
  <2>3. OneCreator'
    BY <1>1, SecretAssumption, <2>1 DEF Create, SavesAgree, OneCreator, TypeOK, Request, Idle,
       Row, Here, Rows
  <2>4. QED
    BY <2>1, <2>2, <2>3
<1>2. ASSUME NEW s \in Servers, NEW r \in Rows, NEW v \in Values, Update(s, r, v)
      PROVE  SavesAgree' /\ OneCreator'
  <2>1. \A e \in Stages, x \in Values :
  /\ Encrypt(e, x) \in Sealed /\ Encrypt(e, x) # Null
  /\ Encrypt(e, x).value = x /\ Encrypt(e, x).version = resolveActiveVersion(e)
    BY ActiveKey DEF Encrypt
  <2>2. SavesAgree'
    BY <1>2, SecretAssumption, <2>1 DEF Update, SavesAgree, OneCreator, TypeOK, Request, Idle,
       Row, Here, Rows, Stages, Values
  <2>3. OneCreator'
    BY <1>2, SecretAssumption, <2>1 DEF Update, SavesAgree, OneCreator, TypeOK, Request, Idle,
       Row, Here, Rows
  <2>4. QED
    BY <2>1, <2>2, <2>3
<1>3. ASSUME NEW s \in Servers, Write(s)
      PROVE  SavesAgree' /\ OneCreator'
  <2>1. SavesAgree'
    BY <1>3, SecretAssumption DEF Write, Store, SavesAgree, OneCreator, TypeOK, Request, Idle,
       Row, Here, Rows, Stages, Values
  <2>2. OneCreator'
    BY <1>3, SecretAssumption DEF Write, Store, SavesAgree, OneCreator, TypeOK, Request, Idle,
       Row, Here, Rows
  <2>3. QED
    BY <2>1, <2>2
<1>4. ASSUME NEW s \in Servers, Restart(s)
      PROVE  SavesAgree' /\ OneCreator'
  <2>1. SavesAgree'
    BY <1>4, SecretAssumption DEF Restart, SavesAgree, OneCreator, TypeOK, Request, Idle, Row,
       Here, Rows, Stages, Values
  <2>2. OneCreator'
    BY <1>4, SecretAssumption DEF Restart, SavesAgree, OneCreator, TypeOK, Request, Idle, Row,
       Here, Rows
  <2>3. QED
    BY <2>1, <2>2
<1>5. ASSUME NEW r \in Rows, Delete(r)
      PROVE  SavesAgree' /\ OneCreator'
  <2>1. SavesAgree'
    BY <1>5, SecretAssumption DEF Delete, SavesAgree, OneCreator, TypeOK, Request, Idle, Row,
       Here, Rows, Stages, Values
  <2>2. OneCreator'
    BY <1>5, SecretAssumption DEF Delete, SavesAgree, OneCreator, TypeOK, Request, Idle, Row,
       Here, Rows
  <2>3. QED
    BY <2>1, <2>2
<1>6. ASSUME NEW r \in Rows, RotateRowFails(r)
      PROVE  SavesAgree' /\ OneCreator'
  <2>1. SavesAgree'
    BY <1>6, SecretAssumption DEF RotateRowFails, Fail, Reached, SavesAgree, OneCreator,
       TypeOK, Request, Idle, Row, Here, Rows, Stages, Values
  <2>2. OneCreator'
    BY <1>6, SecretAssumption DEF RotateRowFails, Fail, Reached, SavesAgree, OneCreator,
       TypeOK, Request, Idle, Row, Here, Rows
  <2>3. QED
    BY <2>1, <2>2
<1>7. ASSUME NEW r \in Rows, BackfillRowFails(r)
      PROVE  SavesAgree' /\ OneCreator'
  <2>1. SavesAgree'
    BY <1>7, SecretAssumption DEF BackfillRowFails, Fail, Filled, SavesAgree, OneCreator,
       TypeOK, Request, Idle, Row, Here, Rows, Stages, Values
  <2>2. OneCreator'
    BY <1>7, SecretAssumption DEF BackfillRowFails, Fail, Filled, SavesAgree, OneCreator,
       TypeOK, Request, Idle, Row, Here, Rows
  <2>3. QED
    BY <2>1, <2>2
<1>8. CASE rotateAdapters
  <2>1. SavesAgree'
    BY <1>8, SecretAssumption DEF rotateAdapters, Select, Candidate, Active, SavesAgree,
       OneCreator, TypeOK, Request, Idle, Row, Here, Rows, Stages, Values
  <2>2. OneCreator'
    BY <1>8, SecretAssumption DEF rotateAdapters, Select, Candidate, Active, SavesAgree,
       OneCreator, TypeOK, Request, Idle, Row, Here, Rows
  <2>3. QED
    BY <2>1, <2>2
<1>9. CASE rotateWebhooks
  <2>1. SavesAgree'
    BY <1>9, SecretAssumption DEF rotateWebhooks, Select, Candidate, Active, SavesAgree,
       OneCreator, TypeOK, Request, Idle, Row, Here, Rows, Stages, Values
  <2>2. OneCreator'
    BY <1>9, SecretAssumption DEF rotateWebhooks, Select, Candidate, Active, SavesAgree,
       OneCreator, TypeOK, Request, Idle, Row, Here, Rows
  <2>3. QED
    BY <2>1, <2>2
<1>10. CASE RotationEnds
  <2>1. SavesAgree'
    BY <1>10, SecretAssumption DEF RotationEnds, Fail, NoRotation, Nothing, SavesAgree,
       OneCreator, TypeOK, Request, Idle, Row, Here, Rows, Stages, Values
  <2>2. OneCreator'
    BY <1>10, SecretAssumption DEF RotationEnds, Fail, NoRotation, Nothing, SavesAgree,
       OneCreator, TypeOK, Request, Idle, Row, Here, Rows
  <2>3. QED
    BY <2>1, <2>2
<1>11. ASSUME NEW r \in Rows, RotateRow(r)
       PROVE  SavesAgree' /\ OneCreator'
  <2>1. SavesAgree'
    BY <1>11, SecretAssumption DEF RotateRow, Reached, Seal, Stale, Candidate, Active,
       SavesAgree, OneCreator, TypeOK, Request, Idle, Row, Here, Rows, Stages, Values
  <2>2. OneCreator'
    BY <1>11, SecretAssumption DEF RotateRow, Reached, Seal, Stale, Candidate, Active,
       SavesAgree, OneCreator, TypeOK, Request, Idle, Row, Here, Rows
  <2>3. QED
    BY <2>1, <2>2
<1>12. CASE backfillAdapters
  <2>1. SavesAgree'
    BY <1>12, SecretAssumption DEF backfillAdapters, List, Unencrypted, SavesAgree, OneCreator,
       TypeOK, Request, Idle, Row, Here, Rows, Stages, Values
  <2>2. OneCreator'
    BY <1>12, SecretAssumption DEF backfillAdapters, List, Unencrypted, SavesAgree, OneCreator,
       TypeOK, Request, Idle, Row, Here, Rows
  <2>3. QED
    BY <2>1, <2>2
<1>13. CASE backfillWebhooks
  <2>1. SavesAgree'
    BY <1>13, SecretAssumption DEF backfillWebhooks, List, Unencrypted, SavesAgree, OneCreator,
       TypeOK, Request, Idle, Row, Here, Rows, Stages, Values
  <2>2. OneCreator'
    BY <1>13, SecretAssumption DEF backfillWebhooks, List, Unencrypted, SavesAgree, OneCreator,
       TypeOK, Request, Idle, Row, Here, Rows
  <2>3. QED
    BY <2>1, <2>2
<1>14. CASE BackfillEnds
  <2>1. SavesAgree'
    BY <1>14, SecretAssumption DEF BackfillEnds, Fail, NoBackfill, Nothing, SavesAgree,
       OneCreator, TypeOK, Request, Idle, Row, Here, Rows, Stages, Values
  <2>2. OneCreator'
    BY <1>14, SecretAssumption DEF BackfillEnds, Fail, NoBackfill, Nothing, SavesAgree,
       OneCreator, TypeOK, Request, Idle, Row, Here, Rows
  <2>3. QED
    BY <2>1, <2>2
<1>15. ASSUME NEW r \in Rows, BackfillRow(r)
       PROVE  SavesAgree' /\ OneCreator'
  <2>1. SavesAgree'
    BY <1>15, SecretAssumption DEF BackfillRow, Filled, Seal, SavesAgree, OneCreator, TypeOK,
       Request, Idle, Row, Here, Rows, Stages, Values
  <2>2. OneCreator'
    BY <1>15, SecretAssumption DEF BackfillRow, Filled, Seal, SavesAgree, OneCreator, TypeOK,
       Request, Idle, Row, Here, Rows
  <2>3. QED
    BY <2>1, <2>2
<1>16. CASE NextStage
  <2>1. SavesAgree'
    BY <1>16, SecretAssumption DEF NextStage, SavesAgree, OneCreator, TypeOK, Request, Idle,
       Row, Here, Rows, Stages, Values
  <2>2. OneCreator'
    BY <1>16, SecretAssumption DEF NextStage, SavesAgree, OneCreator, TypeOK, Request, Idle,
       Row, Here, Rows
  <2>3. QED
    BY <2>1, <2>2
<1>17. CASE UNCHANGED vars
  BY <1>17 DEF vars, SavesAgree, OneCreator, TypeOK, Request, Idle, Row, Here, Rows, Stages,
     Values
<1>18. QED
  BY <1>1, <1>2, <1>3, <1>4, <1>5, <1>6, <1>7, <1>8, <1>9, <1>10, <1>11, <1>12, <1>13, <1>14,
     <1>15, <1>16, <1>17 DEF Next, Rotate, DoBackfill
\* No server and no stage moves while the rotation runs.
LEMMA RotatesStep ==
    ASSUME TypeOK, RotatesAtNewKey, RotationHand, [Next]_vars
    PROVE  RotatesAtNewKey'
<1>1. ASSUME NEW s \in Servers, NEW r \in Rows, NEW v \in Values \cup {Null}, Create(s, r, v)
      PROVE  RotatesAtNewKey'
  BY <1>1, SecretAssumption DEF Create, RotatesAtNewKey, TypeOK, Rotation, Tables, Stages,
     NoRotation
<1>2. ASSUME NEW s \in Servers, NEW r \in Rows, NEW v \in Values, Update(s, r, v)
      PROVE  RotatesAtNewKey'
  BY <1>2, SecretAssumption DEF Update, RotatesAtNewKey, TypeOK, Rotation, Tables, Stages,
     NoRotation
<1>3. ASSUME NEW s \in Servers, Write(s)
      PROVE  RotatesAtNewKey'
  BY <1>3, SecretAssumption DEF Write, Store, RotatesAtNewKey, TypeOK, Rotation, Tables,
     Stages, NoRotation
<1>4. ASSUME NEW s \in Servers, Restart(s)
      PROVE  RotatesAtNewKey'
  BY <1>4, SecretAssumption DEF Restart, RotatesAtNewKey, TypeOK, Rotation, Tables, Stages,
     NoRotation
<1>5. ASSUME NEW r \in Rows, Delete(r)
      PROVE  RotatesAtNewKey'
  BY <1>5, SecretAssumption DEF Delete, RotatesAtNewKey, TypeOK, Rotation, Tables, Stages,
     NoRotation
<1>6. ASSUME NEW r \in Rows, RotateRowFails(r)
      PROVE  RotatesAtNewKey'
  BY <1>6, SecretAssumption DEF RotateRowFails, Fail, Reached, RotatesAtNewKey, TypeOK,
     Rotation, Tables, Stages, NoRotation
<1>7. ASSUME NEW r \in Rows, BackfillRowFails(r)
      PROVE  RotatesAtNewKey'
  BY <1>7, SecretAssumption DEF BackfillRowFails, Fail, Filled, RotatesAtNewKey, TypeOK,
     Rotation, Tables, Stages, NoRotation
<1>8. CASE rotateAdapters
  BY <1>8, SecretAssumption DEF rotateAdapters, Select, Candidate, Active, RotatesAtNewKey,
     TypeOK, Rotation, Tables, Stages, NoRotation
<1>9. CASE rotateWebhooks
  BY <1>9, SecretAssumption DEF rotateWebhooks, Select, Candidate, Active, RotatesAtNewKey,
     TypeOK, Rotation, Tables, Stages, NoRotation
<1>10. CASE RotationEnds
  BY <1>10, SecretAssumption DEF RotationEnds, Fail, NoRotation, Nothing, RotatesAtNewKey,
     TypeOK, Rotation, Tables, Stages
<1>11. ASSUME NEW r \in Rows, RotateRow(r)
       PROVE  RotatesAtNewKey'
  BY <1>11, SecretAssumption DEF RotateRow, Reached, Seal, Stale, Candidate, Active,
     RotatesAtNewKey, TypeOK, Rotation, Tables, Stages, NoRotation
<1>12. CASE backfillAdapters
  BY <1>12, SecretAssumption DEF backfillAdapters, List, Unencrypted, RotatesAtNewKey, TypeOK,
     Rotation, Tables, Stages, NoRotation
<1>13. CASE backfillWebhooks
  BY <1>13, SecretAssumption DEF backfillWebhooks, List, Unencrypted, RotatesAtNewKey, TypeOK,
     Rotation, Tables, Stages, NoRotation
<1>14. CASE BackfillEnds
  BY <1>14, SecretAssumption DEF BackfillEnds, Fail, NoBackfill, Nothing, RotatesAtNewKey,
     TypeOK, Rotation, Tables, Stages, NoRotation
<1>15. ASSUME NEW r \in Rows, BackfillRow(r)
       PROVE  RotatesAtNewKey'
  BY <1>15, SecretAssumption DEF BackfillRow, Filled, Seal, RotatesAtNewKey, TypeOK, Rotation,
     Tables, Stages, NoRotation
<1>16. CASE NextStage
  BY <1>16, SecretAssumption DEF NextStage, RotatesAtNewKey, TypeOK, Rotation, Tables, Stages,
     NoRotation
<1>17. CASE UNCHANGED vars
  BY <1>17 DEF vars, RotatesAtNewKey, TypeOK, Rotation, Tables, Stages, NoRotation
<1>18. QED
  BY <1>1, <1>2, <1>3, <1>4, <1>5, <1>6, <1>7, <1>8, <1>9, <1>10, <1>11, <1>12, <1>13, <1>14,
     <1>15, <1>16, <1>17 DEF Next, Rotate, DoBackfill
\* A row the rotation has read is at the new key or still what was read.
LEMMA RotationHandStep ==
    ASSUME TypeOK, SavesAgree, RotatesAtNewKey, RotationHand, SavedSecretIsServed, [Next]_vars
    PROVE  RotationHand'
<1>1. ASSUME NEW s \in Servers, NEW r \in Rows, NEW v \in Values \cup {Null}, Create(s, r, v)
      PROVE  RotationHand'
  BY <1>1, SecretAssumption DEF Create, RotationHand, TypeOK, Rotation, Row, Request, Idle,
     Here, Rows, SavedSecretIsServed
<1>2. ASSUME NEW s \in Servers, NEW r \in Rows, NEW v \in Values, Update(s, r, v)
      PROVE  RotationHand'
  BY <1>2, SecretAssumption DEF Update, RotationHand, TypeOK, Rotation, Row, Request, Idle,
     Here, Rows, SavedSecretIsServed
<1>3. ASSUME NEW s \in Servers, Write(s)
      PROVE  RotationHand'
  <2>1. resolveActiveVersion(3) = 2
    BY ActiveKey DEF Stages
  <2>2. rotation.table # "none" => \A x \in Servers : req[x].op # "none" /\ req[x].sealed # Null => req[x].sealed.version = 2
    BY <1>3, SecretAssumption, <2>1 DEF Write, Store, RotatesAtNewKey, SavesAgree
  <2>3. RotationHand'
    BY <1>3, SecretAssumption, <2>2 DEF Write, Store, RotationHand, TypeOK, Rotation, Row,
       Request, Idle, Here, Rows, SavesAgree
  <2>4. QED
    BY <2>1, <2>2, <2>3 DEF RotationHand, TypeOK, Rotation, Row, Request, Idle, Here, Rows,
       SavedSecretIsServed
<1>4. ASSUME NEW s \in Servers, Restart(s)
      PROVE  RotationHand'
  BY <1>4, SecretAssumption DEF Restart, RotationHand, TypeOK, Rotation, Row, Request, Idle,
     Here, Rows, SavedSecretIsServed
<1>5. ASSUME NEW r \in Rows, Delete(r)
      PROVE  RotationHand'
  BY <1>5, SecretAssumption DEF Delete, RotationHand, TypeOK, Rotation, Row, Request, Idle,
     Here, Rows, SavedSecretIsServed
<1>6. ASSUME NEW r \in Rows, RotateRowFails(r)
      PROVE  RotationHand'
  BY <1>6, SecretAssumption DEF RotateRowFails, Fail, Reached, RotationHand, TypeOK, Rotation,
     Row, Request, Idle, Here, Rows, SavedSecretIsServed
<1>7. ASSUME NEW r \in Rows, BackfillRowFails(r)
      PROVE  RotationHand'
  BY <1>7, SecretAssumption DEF BackfillRowFails, Fail, Filled, RotationHand, TypeOK, Rotation,
     Row, Request, Idle, Here, Rows, SavedSecretIsServed
<1>8. CASE rotateAdapters
  BY <1>8, SecretAssumption DEF rotateAdapters, Select, Candidate, Active, RotationHand,
     TypeOK, Rotation, Row, Request, Idle, Here, Rows, SavedSecretIsServed
<1>9. CASE rotateWebhooks
  BY <1>9, SecretAssumption DEF rotateWebhooks, Select, Candidate, Active, RotationHand,
     TypeOK, Rotation, Row, Request, Idle, Here, Rows, SavedSecretIsServed
<1>10. CASE RotationEnds
  BY <1>10, SecretAssumption DEF RotationEnds, Fail, NoRotation, Nothing, RotationHand, TypeOK,
     Rotation, Row, Request, Idle, Here, Rows, SavedSecretIsServed
<1>11. ASSUME NEW r \in Rows, RotateRow(r)
       PROVE  RotationHand'
  <2>1. \A e \in Stages, x \in Values :
  /\ Encrypt(e, x) \in Sealed /\ Encrypt(e, x) # Null
  /\ Encrypt(e, x).value = x /\ Encrypt(e, x).version = resolveActiveVersion(e)
    BY ActiveKey DEF Encrypt
  <2>2. resolveActiveVersion(3) = 2
    BY ActiveKey DEF Stages
  <2>3. stage = 3
    BY <1>11, SecretAssumption DEF RotateRow, Reached, Seal, Stale, Candidate, Active,
       RotationHand, RotatesAtNewKey
  <2>4. Encrypt(stage, rotation.hand[r].value) # Null /\ Encrypt(stage, rotation.hand[r].value).version = 2
    BY <1>11, SecretAssumption, <2>1, <2>2, <2>3 DEF RotateRow, Reached, Seal, Stale,
       Candidate, Active, RotationHand, TypeOK, Rotation, Row, Request, Idle, Here, Rows,
       Sealed, Stages
  <2>5. RotationHand'
    BY <1>11, SecretAssumption, <2>4 DEF RotateRow, Reached, Seal, Stale, Candidate, Active,
       RotationHand, TypeOK, Rotation, Row, Request, Idle, Here, Rows
  <2>6. QED
    BY <2>1, <2>2, <2>3, <2>4, <2>5 DEF RotationHand, TypeOK, Rotation, Row, Request, Idle,
       Here, Rows, SavedSecretIsServed
<1>12. CASE backfillAdapters
  BY <1>12, SecretAssumption DEF backfillAdapters, List, Unencrypted, RotationHand, TypeOK,
     Rotation, Row, Request, Idle, Here, Rows, SavedSecretIsServed
<1>13. CASE backfillWebhooks
  BY <1>13, SecretAssumption DEF backfillWebhooks, List, Unencrypted, RotationHand, TypeOK,
     Rotation, Row, Request, Idle, Here, Rows, SavedSecretIsServed
<1>14. CASE BackfillEnds
  BY <1>14, SecretAssumption DEF BackfillEnds, Fail, NoBackfill, Nothing, RotationHand, TypeOK,
     Rotation, Row, Request, Idle, Here, Rows, SavedSecretIsServed
<1>15. ASSUME NEW r \in Rows, BackfillRow(r)
       PROVE  RotationHand'
  <2>1. \A e \in Stages, x \in Values :
  /\ Encrypt(e, x) \in Sealed /\ Encrypt(e, x) # Null
  /\ Encrypt(e, x).value = x /\ Encrypt(e, x).version = resolveActiveVersion(e)
    BY ActiveKey DEF Encrypt
  <2>2. Encrypt(backfill.stage, backfill.hand[r]) # Null
    BY <1>15, SecretAssumption, <2>1 DEF BackfillRow, Filled, Seal, TypeOK, Backfill, Values
  <2>3. RotationHand'
    BY <1>15, SecretAssumption, <2>2 DEF BackfillRow, Filled, Seal, RotationHand, TypeOK,
       Rotation, Row, Request, Idle, Here, Rows
  <2>4. QED
    BY <2>1, <2>2, <2>3 DEF RotationHand, TypeOK, Rotation, Row, Request, Idle, Here, Rows,
       SavedSecretIsServed
<1>16. CASE NextStage
  BY <1>16, SecretAssumption DEF NextStage, RotationHand, TypeOK, Rotation, Row, Request, Idle,
     Here, Rows, SavedSecretIsServed
<1>17. CASE UNCHANGED vars
  BY <1>17 DEF vars, RotationHand, TypeOK, Rotation, Row, Request, Idle, Here, Rows,
     SavedSecretIsServed
<1>18. QED
  BY <1>1, <1>2, <1>3, <1>4, <1>5, <1>6, <1>7, <1>8, <1>9, <1>10, <1>11, <1>12, <1>13, <1>14,
     <1>15, <1>16, <1>17 DEF Next, Rotate, DoBackfill
\* A row the backfill has read has a ciphertext or still what was read.
LEMMA BackfillHandStep ==
    ASSUME TypeOK, SavesAgree, BackfillHand, [Next]_vars
    PROVE  BackfillHand'
<1>1. ASSUME NEW s \in Servers, NEW r \in Rows, NEW v \in Values \cup {Null}, Create(s, r, v)
      PROVE  BackfillHand'
  BY <1>1, SecretAssumption DEF Create, BackfillHand, TypeOK, Backfill, Row, Request, Idle,
     Here, Rows
<1>2. ASSUME NEW s \in Servers, NEW r \in Rows, NEW v \in Values, Update(s, r, v)
      PROVE  BackfillHand'
  BY <1>2, SecretAssumption DEF Update, BackfillHand, TypeOK, Backfill, Row, Request, Idle,
     Here, Rows
<1>3. ASSUME NEW s \in Servers, Write(s)
      PROVE  BackfillHand'
  <2>1. BackfillHand'
    BY <1>3, SecretAssumption DEF Write, Store, BackfillHand, TypeOK, Backfill, Row, Request,
       Idle, Here, Rows, SavesAgree
  <2>2. QED
    BY <2>1 DEF BackfillHand, TypeOK, Backfill, Row, Request, Idle, Here, Rows
<1>4. ASSUME NEW s \in Servers, Restart(s)
      PROVE  BackfillHand'
  BY <1>4, SecretAssumption DEF Restart, BackfillHand, TypeOK, Backfill, Row, Request, Idle,
     Here, Rows
<1>5. ASSUME NEW r \in Rows, Delete(r)
      PROVE  BackfillHand'
  BY <1>5, SecretAssumption DEF Delete, BackfillHand, TypeOK, Backfill, Row, Request, Idle,
     Here, Rows
<1>6. ASSUME NEW r \in Rows, RotateRowFails(r)
      PROVE  BackfillHand'
  BY <1>6, SecretAssumption DEF RotateRowFails, Fail, Reached, BackfillHand, TypeOK, Backfill,
     Row, Request, Idle, Here, Rows
<1>7. ASSUME NEW r \in Rows, BackfillRowFails(r)
      PROVE  BackfillHand'
  BY <1>7, SecretAssumption DEF BackfillRowFails, Fail, Filled, BackfillHand, TypeOK, Backfill,
     Row, Request, Idle, Here, Rows
<1>8. CASE rotateAdapters
  BY <1>8, SecretAssumption DEF rotateAdapters, Select, Candidate, Active, BackfillHand,
     TypeOK, Backfill, Row, Request, Idle, Here, Rows
<1>9. CASE rotateWebhooks
  BY <1>9, SecretAssumption DEF rotateWebhooks, Select, Candidate, Active, BackfillHand,
     TypeOK, Backfill, Row, Request, Idle, Here, Rows
<1>10. CASE RotationEnds
  BY <1>10, SecretAssumption DEF RotationEnds, Fail, NoRotation, Nothing, BackfillHand, TypeOK,
     Backfill, Row, Request, Idle, Here, Rows
<1>11. ASSUME NEW r \in Rows, RotateRow(r)
       PROVE  BackfillHand'
  <2>1. \A e \in Stages, x \in Values :
  /\ Encrypt(e, x) \in Sealed /\ Encrypt(e, x) # Null
  /\ Encrypt(e, x).value = x /\ Encrypt(e, x).version = resolveActiveVersion(e)
    BY ActiveKey DEF Encrypt
  <2>2. Decrypts(stage, rotation.hand[r]) /\ Stale(r) =>
         Encrypt(stage, rotation.hand[r].value) # Null
    BY <1>11, SecretAssumption, <2>1 DEF RotateRow, Reached, Seal, Stale, Candidate, Active,
       TypeOK, Rotation, Sealed
  <2>3. BackfillHand'
    BY <1>11, SecretAssumption, <2>2 DEF RotateRow, Reached, Seal, Stale, Candidate, Active,
       BackfillHand, TypeOK, Backfill, Row, Request, Idle, Here, Rows
  <2>4. QED
    BY <2>1, <2>2, <2>3 DEF BackfillHand, TypeOK, Backfill, Row, Request, Idle, Here, Rows
<1>12. CASE backfillAdapters
  BY <1>12, SecretAssumption DEF backfillAdapters, List, Unencrypted, BackfillHand, TypeOK,
     Backfill, Row, Request, Idle, Here, Rows
<1>13. CASE backfillWebhooks
  BY <1>13, SecretAssumption DEF backfillWebhooks, List, Unencrypted, BackfillHand, TypeOK,
     Backfill, Row, Request, Idle, Here, Rows
<1>14. CASE BackfillEnds
  BY <1>14, SecretAssumption DEF BackfillEnds, Fail, NoBackfill, Nothing, BackfillHand, TypeOK,
     Backfill, Row, Request, Idle, Here, Rows
<1>15. ASSUME NEW r \in Rows, BackfillRow(r)
       PROVE  BackfillHand'
  BY <1>15, SecretAssumption DEF BackfillRow, Filled, Seal, BackfillHand, TypeOK, Backfill,
     Row, Request, Idle, Here, Rows
<1>16. CASE NextStage
  BY <1>16, SecretAssumption DEF NextStage, BackfillHand, TypeOK, Backfill, Row, Request, Idle,
     Here, Rows
<1>17. CASE UNCHANGED vars
  BY <1>17 DEF vars, BackfillHand, TypeOK, Backfill, Row, Request, Idle, Here, Rows
<1>18. QED
  BY <1>1, <1>2, <1>3, <1>4, <1>5, <1>6, <1>7, <1>8, <1>9, <1>10, <1>11, <1>12, <1>13, <1>14,
     <1>15, <1>16, <1>17 DEF Next, Rotate, DoBackfill
\* No statement separates the two columns.
LEMMA SavedStep ==
    ASSUME TypeOK, SavesAgree, RotatesAtNewKey, RotationHand, BackfillHand, SavedSecretIsServed, [Next]_vars
    PROVE  SavedSecretIsServed'
<1>1. ASSUME NEW s \in Servers, NEW r \in Rows, NEW v \in Values \cup {Null}, Create(s, r, v)
      PROVE  SavedSecretIsServed'
  BY <1>1, SecretAssumption DEF Create, SavedSecretIsServed, TypeOK, Row, Request, Idle, Here,
     Rows
<1>2. ASSUME NEW s \in Servers, NEW r \in Rows, NEW v \in Values, Update(s, r, v)
      PROVE  SavedSecretIsServed'
  BY <1>2, SecretAssumption DEF Update, SavedSecretIsServed, TypeOK, Row, Request, Idle, Here,
     Rows
<1>3. ASSUME NEW s \in Servers, Write(s)
      PROVE  SavedSecretIsServed'
  <2>1. SavedSecretIsServed'
    BY <1>3, SecretAssumption DEF Write, Store, SavedSecretIsServed, TypeOK, Row, Request,
       Idle, Here, Rows, SavesAgree
  <2>2. QED
    BY <2>1 DEF SavedSecretIsServed, TypeOK, Row, Request, Idle, Here, Rows
<1>4. ASSUME NEW s \in Servers, Restart(s)
      PROVE  SavedSecretIsServed'
  BY <1>4, SecretAssumption DEF Restart, SavedSecretIsServed, TypeOK, Row, Request, Idle, Here,
     Rows
<1>5. ASSUME NEW r \in Rows, Delete(r)
      PROVE  SavedSecretIsServed'
  BY <1>5, SecretAssumption DEF Delete, SavedSecretIsServed, TypeOK, Row, Request, Idle, Here,
     Rows
<1>6. ASSUME NEW r \in Rows, RotateRowFails(r)
      PROVE  SavedSecretIsServed'
  BY <1>6, SecretAssumption DEF RotateRowFails, Fail, Reached, SavedSecretIsServed, TypeOK,
     Row, Request, Idle, Here, Rows
<1>7. ASSUME NEW r \in Rows, BackfillRowFails(r)
      PROVE  SavedSecretIsServed'
  BY <1>7, SecretAssumption DEF BackfillRowFails, Fail, Filled, SavedSecretIsServed, TypeOK,
     Row, Request, Idle, Here, Rows
<1>8. CASE rotateAdapters
  BY <1>8, SecretAssumption DEF rotateAdapters, Select, Candidate, Active, SavedSecretIsServed,
     TypeOK, Row, Request, Idle, Here, Rows
<1>9. CASE rotateWebhooks
  BY <1>9, SecretAssumption DEF rotateWebhooks, Select, Candidate, Active, SavedSecretIsServed,
     TypeOK, Row, Request, Idle, Here, Rows
<1>10. CASE RotationEnds
  BY <1>10, SecretAssumption DEF RotationEnds, Fail, NoRotation, Nothing, SavedSecretIsServed,
     TypeOK, Row, Request, Idle, Here, Rows
<1>11. ASSUME NEW r \in Rows, RotateRow(r)
       PROVE  SavedSecretIsServed'
  <2>1. \A e \in Stages, x \in Values :
  /\ Encrypt(e, x) \in Sealed /\ Encrypt(e, x) # Null
  /\ Encrypt(e, x).value = x /\ Encrypt(e, x).version = resolveActiveVersion(e)
    BY ActiveKey DEF Encrypt
  <2>2. resolveActiveVersion(3) = 2
    BY ActiveKey DEF Stages
  <2>3. Decrypts(stage, rotation.hand[r]) /\ Stale(r) =>
         Encrypt(stage, rotation.hand[r].value).value = row[r].plain
    BY <1>11, SecretAssumption, <2>1, <2>2 DEF RotateRow, Reached, Seal, Stale, Candidate,
       Active, TypeOK, Rotation, Sealed, RotationHand, RotatesAtNewKey, Stages
  <2>4. SavedSecretIsServed'
    BY <1>11, SecretAssumption, <2>3 DEF RotateRow, Reached, Seal, Stale, Candidate, Active,
       SavedSecretIsServed, TypeOK, Row, Request, Idle, Here, Rows
  <2>5. QED
    BY <2>1, <2>2, <2>3, <2>4 DEF SavedSecretIsServed, TypeOK, Row, Request, Idle, Here, Rows
<1>12. CASE backfillAdapters
  BY <1>12, SecretAssumption DEF backfillAdapters, List, Unencrypted, SavedSecretIsServed,
     TypeOK, Row, Request, Idle, Here, Rows
<1>13. CASE backfillWebhooks
  BY <1>13, SecretAssumption DEF backfillWebhooks, List, Unencrypted, SavedSecretIsServed,
     TypeOK, Row, Request, Idle, Here, Rows
<1>14. CASE BackfillEnds
  BY <1>14, SecretAssumption DEF BackfillEnds, Fail, NoBackfill, Nothing, SavedSecretIsServed,
     TypeOK, Row, Request, Idle, Here, Rows
<1>15. ASSUME NEW r \in Rows, BackfillRow(r)
       PROVE  SavedSecretIsServed'
  <2>1. \A e \in Stages, x \in Values :
  /\ Encrypt(e, x) \in Sealed /\ Encrypt(e, x) # Null
  /\ Encrypt(e, x).value = x /\ Encrypt(e, x).version = resolveActiveVersion(e)
    BY ActiveKey DEF Encrypt
  <2>2. Here(r) /\ row[r].sealed = Null =>
         Encrypt(backfill.stage, backfill.hand[r]).value = row[r].plain
    BY <1>15, SecretAssumption, <2>1 DEF BackfillRow, Filled, Seal, TypeOK, Backfill,
       BackfillHand
  <2>3. SavedSecretIsServed'
    BY <1>15, SecretAssumption, <2>2 DEF BackfillRow, Filled, Seal, SavedSecretIsServed,
       TypeOK, Row, Request, Idle, Here, Rows
  <2>4. QED
    BY <2>1, <2>2, <2>3 DEF SavedSecretIsServed, TypeOK, Row, Request, Idle, Here, Rows
<1>16. CASE NextStage
  BY <1>16, SecretAssumption DEF NextStage, SavedSecretIsServed, TypeOK, Row, Request, Idle,
     Here, Rows
<1>17. CASE UNCHANGED vars
  BY <1>17 DEF vars, SavedSecretIsServed, TypeOK, Row, Request, Idle, Here, Rows
<1>18. QED
  BY <1>1, <1>2, <1>3, <1>4, <1>5, <1>6, <1>7, <1>8, <1>9, <1>10, <1>11, <1>12, <1>13, <1>14,
     <1>15, <1>16, <1>17 DEF Next, Rotate, DoBackfill
\* Servers follow the stage.
LEMMA RingStep ==
    ASSUME TypeOK, RingIsRecent, [Next]_vars
    PROVE  RingIsRecent'
<1>1. ASSUME NEW s \in Servers, NEW r \in Rows, NEW v \in Values \cup {Null}, Create(s, r, v)
      PROVE  RingIsRecent'
  BY <1>1, SecretAssumption DEF Create, RingIsRecent, TypeOK, Stages
<1>2. ASSUME NEW s \in Servers, NEW r \in Rows, NEW v \in Values, Update(s, r, v)
      PROVE  RingIsRecent'
  BY <1>2, SecretAssumption DEF Update, RingIsRecent, TypeOK, Stages
<1>3. ASSUME NEW s \in Servers, Write(s)
      PROVE  RingIsRecent'
  BY <1>3, SecretAssumption DEF Write, Store, RingIsRecent, TypeOK, Stages
<1>4. ASSUME NEW s \in Servers, Restart(s)
      PROVE  RingIsRecent'
  BY <1>4, SecretAssumption DEF Restart, RingIsRecent, TypeOK, Stages
<1>5. ASSUME NEW r \in Rows, Delete(r)
      PROVE  RingIsRecent'
  BY <1>5, SecretAssumption DEF Delete, RingIsRecent, TypeOK, Stages
<1>6. ASSUME NEW r \in Rows, RotateRowFails(r)
      PROVE  RingIsRecent'
  BY <1>6, SecretAssumption DEF RotateRowFails, Fail, Reached, RingIsRecent, TypeOK, Stages
<1>7. ASSUME NEW r \in Rows, BackfillRowFails(r)
      PROVE  RingIsRecent'
  BY <1>7, SecretAssumption DEF BackfillRowFails, Fail, Filled, RingIsRecent, TypeOK, Stages
<1>8. CASE rotateAdapters
  BY <1>8, SecretAssumption DEF rotateAdapters, Select, Candidate, Active, RingIsRecent,
     TypeOK, Stages
<1>9. CASE rotateWebhooks
  BY <1>9, SecretAssumption DEF rotateWebhooks, Select, Candidate, Active, RingIsRecent,
     TypeOK, Stages
<1>10. CASE RotationEnds
  BY <1>10, SecretAssumption DEF RotationEnds, Fail, NoRotation, Nothing, RingIsRecent, TypeOK,
     Stages
<1>11. ASSUME NEW r \in Rows, RotateRow(r)
       PROVE  RingIsRecent'
  BY <1>11, SecretAssumption DEF RotateRow, Reached, Seal, Stale, Candidate, Active,
     RingIsRecent, TypeOK, Stages
<1>12. CASE backfillAdapters
  BY <1>12, SecretAssumption DEF backfillAdapters, List, Unencrypted, RingIsRecent, TypeOK,
     Stages
<1>13. CASE backfillWebhooks
  BY <1>13, SecretAssumption DEF backfillWebhooks, List, Unencrypted, RingIsRecent, TypeOK,
     Stages
<1>14. CASE BackfillEnds
  BY <1>14, SecretAssumption DEF BackfillEnds, Fail, NoBackfill, Nothing, RingIsRecent, TypeOK,
     Stages
<1>15. ASSUME NEW r \in Rows, BackfillRow(r)
       PROVE  RingIsRecent'
  BY <1>15, SecretAssumption DEF BackfillRow, Filled, Seal, RingIsRecent, TypeOK, Stages
<1>16. CASE NextStage
  BY <1>16, SecretAssumption DEF NextStage, RingIsRecent, TypeOK, Stages
<1>17. CASE UNCHANGED vars
  BY <1>17 DEF vars, RingIsRecent, TypeOK, Stages
<1>18. QED
  BY <1>1, <1>2, <1>3, <1>4, <1>5, <1>6, <1>7, <1>8, <1>9, <1>10, <1>11, <1>12, <1>13, <1>14,
     <1>15, <1>16, <1>17 DEF Next, Rotate, DoBackfill
\* Ciphertexts of the new key appear at stage 3, those of the old one are gone at stage 4.
LEMMA VersionsStep ==
    ASSUME ActiveMeanwhile = 1, TypeOK, SavesAgree, RotatesAtNewKey, RotationHand, BackfillHand, RingIsRecent, VersionsFitStage, BackfillIsRecent, [Next]_vars
    PROVE  VersionsFitStage'
<1>1. ASSUME NEW s \in Servers, NEW r \in Rows, NEW v \in Values \cup {Null}, Create(s, r, v)
      PROVE  VersionsFitStage'
  BY <1>1, SecretAssumption DEF Create, VersionsFitStage, TypeOK, Row, Request, Idle, Here,
     Rows
<1>2. ASSUME NEW s \in Servers, NEW r \in Rows, NEW v \in Values, Update(s, r, v)
      PROVE  VersionsFitStage'
  BY <1>2, SecretAssumption DEF Update, VersionsFitStage, TypeOK, Row, Request, Idle, Here,
     Rows
<1>3. ASSUME NEW s \in Servers, Write(s)
      PROVE  VersionsFitStage'
  <2>1. \A e \in Stages : resolveActiveVersion(e) = IF e < 3 THEN 1 ELSE 2
    BY SecretAssumption DEF resolveActiveVersion, Selector, Keys, Stages
  <2>2. \A x \in Servers : req[x].op # "none" /\ req[x].sealed # Null =>
         IF req[x].sealed.version = 2 THEN 3 <= stage ELSE stage <= 3
    BY <1>3, SecretAssumption, <2>1 DEF Write, Store, RingIsRecent, SavesAgree, TypeOK, Stages
  <2>3. VersionsFitStage'
    BY <1>3, SecretAssumption, <2>2 DEF Write, Store, VersionsFitStage, TypeOK, Row, Request,
       Idle, Here, Rows
  <2>4. QED
    BY <2>1, <2>2, <2>3 DEF VersionsFitStage, TypeOK, Row, Request, Idle, Here, Rows
<1>4. ASSUME NEW s \in Servers, Restart(s)
      PROVE  VersionsFitStage'
  BY <1>4, SecretAssumption DEF Restart, VersionsFitStage, TypeOK, Row, Request, Idle, Here,
     Rows
<1>5. ASSUME NEW r \in Rows, Delete(r)
      PROVE  VersionsFitStage'
  BY <1>5, SecretAssumption DEF Delete, VersionsFitStage, TypeOK, Row, Request, Idle, Here,
     Rows
<1>6. ASSUME NEW r \in Rows, RotateRowFails(r)
      PROVE  VersionsFitStage'
  BY <1>6, SecretAssumption DEF RotateRowFails, Fail, Reached, VersionsFitStage, TypeOK, Row,
     Request, Idle, Here, Rows
<1>7. ASSUME NEW r \in Rows, BackfillRowFails(r)
      PROVE  VersionsFitStage'
  BY <1>7, SecretAssumption DEF BackfillRowFails, Fail, Filled, VersionsFitStage, TypeOK, Row,
     Request, Idle, Here, Rows
<1>8. CASE rotateAdapters
  BY <1>8, SecretAssumption DEF rotateAdapters, Select, Candidate, Active, VersionsFitStage,
     TypeOK, Row, Request, Idle, Here, Rows
<1>9. CASE rotateWebhooks
  BY <1>9, SecretAssumption DEF rotateWebhooks, Select, Candidate, Active, VersionsFitStage,
     TypeOK, Row, Request, Idle, Here, Rows
<1>10. CASE RotationEnds
  BY <1>10, SecretAssumption DEF RotationEnds, Fail, NoRotation, Nothing, VersionsFitStage,
     TypeOK, Row, Request, Idle, Here, Rows
<1>11. ASSUME NEW r \in Rows, RotateRow(r)
       PROVE  VersionsFitStage'
  <2>1. \A e \in Stages : resolveActiveVersion(e) = IF e < 3 THEN 1 ELSE 2
    BY SecretAssumption DEF resolveActiveVersion, Selector, Keys, Stages
  <2>2. stage = 3
    BY <1>11, SecretAssumption DEF RotateRow, Reached, Seal, Stale, Candidate, Active,
       RotationHand, RotatesAtNewKey
  <2>3. VersionsFitStage'
    BY <1>11, SecretAssumption, <2>1, <2>2 DEF RotateRow, Reached, Seal, Stale, Candidate,
       Active, VersionsFitStage, TypeOK, Row, Request, Idle, Here, Rows, Encrypt, Stages
  <2>4. QED
    BY <2>1, <2>2, <2>3 DEF VersionsFitStage, TypeOK, Row, Request, Idle, Here, Rows
<1>12. CASE backfillAdapters
  BY <1>12, SecretAssumption DEF backfillAdapters, List, Unencrypted, VersionsFitStage, TypeOK,
     Row, Request, Idle, Here, Rows
<1>13. CASE backfillWebhooks
  BY <1>13, SecretAssumption DEF backfillWebhooks, List, Unencrypted, VersionsFitStage, TypeOK,
     Row, Request, Idle, Here, Rows
<1>14. CASE BackfillEnds
  BY <1>14, SecretAssumption DEF BackfillEnds, Fail, NoBackfill, Nothing, VersionsFitStage,
     TypeOK, Row, Request, Idle, Here, Rows
<1>15. ASSUME NEW r \in Rows, BackfillRow(r)
       PROVE  VersionsFitStage'
  <2>1. \A e \in Stages : resolveActiveVersion(e) = IF e < 3 THEN 1 ELSE 2
    BY SecretAssumption DEF resolveActiveVersion, Selector, Keys, Stages
  <2>2. Encrypt(backfill.stage, backfill.hand[r]).version = IF backfill.stage < 3 THEN 1 ELSE 2
    BY <1>15, SecretAssumption, <2>1 DEF BackfillRow, Filled, Seal, Encrypt, TypeOK, Backfill
  <2>3. backfill.stage <= stage /\ (stage = 4 => 3 <= backfill.stage) /\ backfill.stage \in 1 .. 4 /\ stage \in 1 .. 4
    BY <1>15, SecretAssumption DEF BackfillRow, Filled, Seal, BackfillIsRecent, BackfillHand,
       TypeOK, Backfill, Stages
  <2>4. VersionsFitStage'
    BY <1>15, SecretAssumption, <2>2, <2>3 DEF BackfillRow, Filled, Seal, VersionsFitStage,
       TypeOK, Row, Request, Idle, Here, Rows
  <2>5. QED
    BY <2>1, <2>2, <2>3, <2>4 DEF VersionsFitStage, TypeOK, Row, Request, Idle, Here, Rows
<1>16. CASE NextStage
  <2>1. VersionsFitStage'
    BY <1>16, SecretAssumption DEF NextStage, VersionsFitStage, TypeOK, Row, Request, Idle,
       Here, Rows, PreActive, Stages
  <2>2. QED
    BY <2>1 DEF VersionsFitStage, TypeOK, Row, Request, Idle, Here, Rows
<1>17. CASE UNCHANGED vars
  BY <1>17 DEF vars, VersionsFitStage, TypeOK, Row, Request, Idle, Here, Rows
<1>18. QED
  BY <1>1, <1>2, <1>3, <1>4, <1>5, <1>6, <1>7, <1>8, <1>9, <1>10, <1>11, <1>12, <1>13, <1>14,
     <1>15, <1>16, <1>17 DEF Next, Rotate, DoBackfill
\* A backfill is not older than the last key change but one.
LEMMA BackfillStageStep ==
    ASSUME TypeOK, BackfillIsRecent, [Next]_vars
    PROVE  BackfillIsRecent'
<1>1. ASSUME NEW s \in Servers, NEW r \in Rows, NEW v \in Values \cup {Null}, Create(s, r, v)
      PROVE  BackfillIsRecent'
  BY <1>1, SecretAssumption DEF Create, BackfillIsRecent, TypeOK, Backfill, Stages, NoBackfill
<1>2. ASSUME NEW s \in Servers, NEW r \in Rows, NEW v \in Values, Update(s, r, v)
      PROVE  BackfillIsRecent'
  BY <1>2, SecretAssumption DEF Update, BackfillIsRecent, TypeOK, Backfill, Stages, NoBackfill
<1>3. ASSUME NEW s \in Servers, Write(s)
      PROVE  BackfillIsRecent'
  BY <1>3, SecretAssumption DEF Write, Store, BackfillIsRecent, TypeOK, Backfill, Stages,
     NoBackfill
<1>4. ASSUME NEW s \in Servers, Restart(s)
      PROVE  BackfillIsRecent'
  BY <1>4, SecretAssumption DEF Restart, BackfillIsRecent, TypeOK, Backfill, Stages, NoBackfill
<1>5. ASSUME NEW r \in Rows, Delete(r)
      PROVE  BackfillIsRecent'
  BY <1>5, SecretAssumption DEF Delete, BackfillIsRecent, TypeOK, Backfill, Stages, NoBackfill
<1>6. ASSUME NEW r \in Rows, RotateRowFails(r)
      PROVE  BackfillIsRecent'
  BY <1>6, SecretAssumption DEF RotateRowFails, Fail, Reached, BackfillIsRecent, TypeOK,
     Backfill, Stages, NoBackfill
<1>7. ASSUME NEW r \in Rows, BackfillRowFails(r)
      PROVE  BackfillIsRecent'
  BY <1>7, SecretAssumption DEF BackfillRowFails, Fail, Filled, BackfillIsRecent, TypeOK,
     Backfill, Stages, NoBackfill
<1>8. CASE rotateAdapters
  BY <1>8, SecretAssumption DEF rotateAdapters, Select, Candidate, Active, BackfillIsRecent,
     TypeOK, Backfill, Stages, NoBackfill
<1>9. CASE rotateWebhooks
  BY <1>9, SecretAssumption DEF rotateWebhooks, Select, Candidate, Active, BackfillIsRecent,
     TypeOK, Backfill, Stages, NoBackfill
<1>10. CASE RotationEnds
  BY <1>10, SecretAssumption DEF RotationEnds, Fail, NoRotation, Nothing, BackfillIsRecent,
     TypeOK, Backfill, Stages, NoBackfill
<1>11. ASSUME NEW r \in Rows, RotateRow(r)
       PROVE  BackfillIsRecent'
  BY <1>11, SecretAssumption DEF RotateRow, Reached, Seal, Stale, Candidate, Active,
     BackfillIsRecent, TypeOK, Backfill, Stages, NoBackfill
<1>12. CASE backfillAdapters
  BY <1>12, SecretAssumption DEF backfillAdapters, List, Unencrypted, BackfillIsRecent, TypeOK,
     Backfill, Stages, NoBackfill
<1>13. CASE backfillWebhooks
  BY <1>13, SecretAssumption DEF backfillWebhooks, List, Unencrypted, BackfillIsRecent, TypeOK,
     Backfill, Stages, NoBackfill
<1>14. CASE BackfillEnds
  BY <1>14, SecretAssumption DEF BackfillEnds, Fail, NoBackfill, Nothing, BackfillIsRecent,
     TypeOK, Backfill, Stages
<1>15. ASSUME NEW r \in Rows, BackfillRow(r)
       PROVE  BackfillIsRecent'
  BY <1>15, SecretAssumption DEF BackfillRow, Filled, Seal, BackfillIsRecent, TypeOK, Backfill,
     Stages, NoBackfill
<1>16. CASE NextStage
  BY <1>16, SecretAssumption DEF NextStage, BackfillIsRecent, TypeOK, Backfill, Stages,
     NoBackfill
<1>17. CASE UNCHANGED vars
  BY <1>17 DEF vars, BackfillIsRecent, TypeOK, Backfill, Stages, NoBackfill
<1>18. QED
  BY <1>1, <1>2, <1>3, <1>4, <1>5, <1>6, <1>7, <1>8, <1>9, <1>10, <1>11, <1>12, <1>13, <1>14,
     <1>15, <1>16, <1>17 DEF Next, Rotate, DoBackfill
------------------------------------------------------------------------------
\* The first states satisfy both invariants.
LEMMA InitInv == ASSUME Init PROVE SyncInv /\ KeyInv
<1>1. TypeOK
  BY SecretAssumption DEF Init, TypeOK, Row, Request, Rotation, Backfill, Tables, Stages, Idle, Sealed,
     Values, NoRotation, NoBackfill, Nothing
<1>2. SavesAgree /\ OneCreator /\ RotatesAtNewKey /\ RotationHand /\ BackfillHand
  BY DEF Init, SavesAgree, OneCreator, RotatesAtNewKey, RotationHand, BackfillHand, Idle, NoRotation,
     NoBackfill, Nothing
<1>3. SavedSecretIsServed /\ VersionsFitStage
  BY SecretAssumption DEF Init, SavedSecretIsServed, VersionsFitStage, Here, Row
<1>4. RingIsRecent /\ BackfillIsRecent
  BY DEF Init, RingIsRecent, BackfillIsRecent, NoBackfill
<1>5. QED
  BY <1>1, <1>2, <1>3, <1>4 DEF SyncInv, KeyInv

\* SyncInv is inductive.
LEMMA SyncStep == ASSUME SyncInv, [Next]_vars PROVE SyncInv'
<1>1. TypeOK'
  BY TypeStep DEF SyncInv
<1>2. SavesAgree' /\ OneCreator'
  BY SavesStep DEF SyncInv
<1>3. RotatesAtNewKey' /\ RotationHand' /\ BackfillHand'
  BY RotatesStep, RotationHandStep, BackfillHandStep DEF SyncInv
<1>4. SavedSecretIsServed'
  BY SavedStep DEF SyncInv
<1>5. QED
  BY <1>1, <1>2, <1>3, <1>4 DEF SyncInv

\* And so is KeyInv beside it, with the selector of stage 2 set.
LEMMA KeyStep == ASSUME ActiveMeanwhile = 1, SyncInv, KeyInv, [Next]_vars PROVE KeyInv'
<1>1. RingIsRecent' /\ BackfillIsRecent'
  BY RingStep, BackfillStageStep DEF SyncInv, KeyInv
<1>2. VersionsFitStage'
  BY VersionsStep DEF SyncInv, KeyInv
<1>3. QED
  BY <1>1, <1>2 DEF KeyInv

\* The inductive invariant of the saves and the two commands.
THEOREM Sync == Spec => []SyncInv
<1>1. Init => SyncInv
  BY InitInv
<1>2. SyncInv /\ [Next]_vars => SyncInv'
  BY SyncStep
<1>3. QED
  BY <1>1, <1>2, PTL DEF Spec

\* Columns, requests and commands keep their types.
THEOREM TypeCorrect == Spec => []TypeOK
<1>1. SyncInv => TypeOK
  BY DEF SyncInv
<1>2. QED
  BY <1>1, Sync, PTL

\* No save is undone by a rotation or a backfill that read the row before it,
\* for any number of rows, servers and overlapping saves.
THEOREM NoSaveLost == Spec => []SavedSecretIsServed
<1>1. SyncInv => SavedSecretIsServed
  BY DEF SyncInv
<1>2. QED
  BY <1>1, Sync, PTL

\* Of the versions there are, every server has the key.
LEMMA KeysFit == SyncInv /\ KeyInv => EveryServerReads
<1> SUFFICES ASSUME SyncInv, KeyInv, NEW s \in Servers, NEW r \in Rows, Here(r), row[r].sealed # Null
             PROVE  parseVersionPrefix(row[r].sealed) \in Keys(ring[s])
  BY DEF EveryServerReads, Decrypts
<1>1. row[r].sealed.version \in 0 .. 2 /\ ring[s] \in 1 .. 4 /\ stage \in 1 .. 4
  BY DEF SyncInv, TypeOK, Row, Sealed, Stages
<1>2. /\ ring[s] = stage \/ ring[s] + 1 = stage
      /\ IF row[r].sealed.version = 2 THEN 3 <= stage ELSE stage <= 3
  BY DEF KeyInv, RingIsRecent, VersionsFitStage
<1>3. QED
  BY <1>1, <1>2 DEF parseVersionPrefix, Keys

\* With the selector of stage 2 set to the old key, no server meets a ciphertext
\* it has no key for.
THEOREM NoKeyMissing == ASSUME ActiveMeanwhile = 1 PROVE Spec => []EveryServerReads
<1>1. Init => KeyInv
  BY InitInv
<1>2. SyncInv /\ KeyInv /\ [Next]_vars => KeyInv'
  BY KeyStep
<1>3. QED
  BY <1>1, <1>2, KeysFit, Sync, PTL DEF Spec

\* What the sampler compares are the rows the two invariants speak of.
LEMMA SamplerAgrees == SavedSecretIsServed /\ EveryServerReads => SamplerStaysSilent
<1> SUFFICES ASSUME SavedSecretIsServed, EveryServerReads, NEW s \in Servers, NEW r \in Rows, Sampled(r)
             PROVE  ~Diverges(ring[s], r)
  BY DEF SamplerStaysSilent, runDivergenceCheck, checkAdapterDivergence, checkWebhookDivergence, Rows
<1>1. row[r].sealed.value = row[r].plain
  BY DEF SavedSecretIsServed, Sampled
<1>2. Decrypts(ring[s], row[r].sealed)
  BY DEF EveryServerReads, Sampled
<1>3. QED
  BY <1>1, <1>2 DEF Diverges

\* All three together: with CMDB_SECRET_KEY_ACTIVE set to 1 the rotation neither loses
\* a save nor leaves a server without a key it needs, and the sampler counts nothing.
THEOREM StaysReadable == ASSUME ActiveMeanwhile = 1 PROVE Spec => []SecretsStayReadable
<1>1. SavedSecretIsServed /\ EveryServerReads => SecretsStayReadable
  BY SamplerAgrees DEF SecretsStayReadable
<1>2. QED
  BY <1>1, NoSaveLost, NoKeyMissing, PTL

------------------------------------------------------------------------------
(* SecretRotation implements SecretVault: a request that is taken in asks, *)
(* its write saves, and a row the commands encrypt anew reads as before.   *)

\* What was saved last, as the plain column has it.
Kept == [r \in Rows |-> IF Here(r) THEN {row[r].plain} ELSE {}]
EverywhereKept == readsOf = [s \in Servers |-> Kept]

\* With nothing lost and no key missing, every server reads what was saved last.
LEMMA ReadsAreKept == SavedSecretIsServed /\ EveryServerReads => EverywhereKept
<1> SUFFICES ASSUME SavedSecretIsServed, EveryServerReads, NEW s \in Servers, NEW r \in Rows
             PROVE  DecryptWithFallback(s, r) = IF Here(r) THEN {row[r].plain} ELSE {}
  BY DEF EverywhereKept, readsOf, Kept
<1>1. Here(r) /\ row[r].sealed # Null => row[r].sealed.value = row[r].plain /\ Decrypts(ring[s], row[r].sealed)
  BY DEF SavedSecretIsServed, EveryServerReads
<1>2. QED
  BY <1>1 DEF DecryptWithFallback

\* A step that leaves the plain columns and what servers are asked does not show.
LEMMA QuietVault ==
    ASSUME EverywhereKept, EverywhereKept', UNCHANGED req,
           \A r \in Rows : row'[r].state = row[r].state /\ row'[r].plain = row[r].plain
    PROVE  UNCHANGED Vault!vaultVars
<1>1. lifeOf' = lifeOf /\ Kept' = Kept /\ askedOf' = askedOf
  BY DEF lifeOf, Kept, Here, askedOf
<1>2. readsOf' = readsOf
  BY <1>1 DEF EverywhereKept
<1>3. QED
  BY <1>1, <1>2 DEF Vault!vaultVars

\* A row that is written or deleted is the same news at every server.
LEMMA RowNews ==
    ASSUME EverywhereKept, EverywhereKept', NEW r \in Rows, NEW x,
           row \in [Rows -> Row], row' = [row EXCEPT ![r] = x], x.state \in {"here", "deleted"}
    PROVE  LET news == IF x.state = "here" THEN {x.plain} ELSE {} IN
           /\ lifeOf' = [lifeOf EXCEPT ![r] = x.state]
           /\ Vault!Holds(r, news)
<1> DEFINE news == IF x.state = "here" THEN {x.plain} ELSE {}
<1>1. lifeOf' = [lifeOf EXCEPT ![r] = x.state]
  BY DEF lifeOf
<1>2. Kept' = [Kept EXCEPT ![r] = news]
  BY DEF Kept, Here
<1>3. \A s \in Servers : readsOf[s] = Kept
  BY DEF EverywhereKept
<1>4. readsOf' = [s \in Servers |-> [readsOf[s] EXCEPT ![r] = news]]
  <2> HIDE DEF news
  <2>1. readsOf' = [s \in Servers |-> Kept']
    BY DEF EverywhereKept
  <2>2. \A s \in Servers : [readsOf[s] EXCEPT ![r] = news] = [Kept EXCEPT ![r] = news]
    BY <1>3
  <2>3. QED
    BY <1>2, <2>1, <2>2
<1>5. QED
  BY <1>1, <1>4 DEF Vault!Holds

\* The request of a server ends.
LEMMA AskedEnds ==
    ASSUME TypeOK, NEW s \in Servers, req' = [req EXCEPT ![s] = Idle]
    PROVE  askedOf' = [askedOf EXCEPT ![s] = {}]
  BY DEF TypeOK, askedOf

\* One is taken in.
LEMMA AskSimulation ==
    ASSUME TypeOK, EverywhereKept, EverywhereKept',
           NEW s \in Servers, NEW r \in Rows, NEW v \in Values \cup {Null},
           Create(s, r, v) \/ Update(s, r, v)
    PROVE  Vault!Ask(s, r, v)
<1>1. PICK q : /\ req' = [req EXCEPT ![s] = q] /\ q.op # "none" /\ q.row = r /\ q.plain = v
               /\ req[s] = Idle /\ UNCHANGED <<row, ring>>
  <2> DEFINE c == [op |-> "create", row |-> r, plain |-> v, sealed |-> IF v = Null THEN Null ELSE Encrypt(ring[s], v)]
             u == [op |-> "update", row |-> r, plain |-> v, sealed |-> Encrypt(ring[s], v)]
  <2>1. /\ req' = [req EXCEPT ![s] = c] \/ req' = [req EXCEPT ![s] = u]
        /\ req[s] = Idle /\ UNCHANGED <<row, ring>>
    BY DEF Create, Update
  <2>2. /\ c.op # "none" /\ c.row = r /\ c.plain = v
        /\ u.op # "none" /\ u.row = r /\ u.plain = v
    OBVIOUS
  <2> HIDE DEF c, u
  <2>3. QED
    BY <2>1, <2>2
<1>2. q # Idle
  BY <1>1 DEF Idle
<1>3. askedOf[s] = {} /\ askedOf' = [askedOf EXCEPT ![s] = {<<r, v>>}]
  BY <1>1, <1>2 DEF TypeOK, askedOf
<1>4. lifeOf' = lifeOf /\ readsOf' = readsOf
  BY <1>1 DEF lifeOf, readsOf, DecryptWithFallback, Here
<1>5. QED
  BY <1>3, <1>4 DEF Vault!Ask

\* It is written, or finds its row deleted.
LEMMA WriteSimulation ==
    ASSUME SyncInv, EverywhereKept, EverywhereKept', NEW s \in Servers, Write(s)
    PROVE  Vault!VaultNext
<1>1. PICK q : q = req[s]
  OBVIOUS
<1>2. /\ q \in Request /\ q # Idle /\ row \in [Rows -> Row]
      /\ q.row \in Rows /\ q.plain \in Values \cup {Null} /\ q.op \in {"create", "update"}
  BY <1>1 DEF Write, SyncInv, TypeOK, Request
<1>3. askedOf' = [askedOf EXCEPT ![s] = {}] /\ askedOf[s] = {<<q.row, q.plain>>}
  <2>1. req' = [req EXCEPT ![s] = Idle] /\ TypeOK
    BY DEF Write, SyncInv
  <2>2. QED
    BY <1>1, <1>2, <2>1, AskedEnds DEF askedOf
<1>4. CASE q.op = "create" \/ Here(q.row)
  <2> DEFINE x == [state |-> "here", plain |-> q.plain, sealed |-> q.sealed]
  <2>1. row' = [row EXCEPT ![q.row] = x]
    BY <1>1, <1>4 DEF Write, Store
  <2>2. x.state = "here" /\ x.plain = q.plain
    OBVIOUS
  <2> HIDE DEF x
  <2>3. lifeOf' = [lifeOf EXCEPT ![q.row] = "here"] /\ Vault!Holds(q.row, {q.plain})
    BY <1>2, <2>1, <2>2, RowNews
  <2>4. lifeOf[q.row] \in {"unborn", "here"}
    BY <1>1, <1>2, <1>4 DEF SyncInv, SavesAgree, Here, lifeOf
  <2>5. Vault!Save(s, q.row, q.plain)
    BY <1>3, <2>3, <2>4 DEF Vault!Save
  <2>6. QED
    BY <1>2, <2>5 DEF Vault!VaultNext
<1>5. CASE ~(q.op = "create" \/ Here(q.row))
  <2>1. row' = row /\ ring' = ring
    BY <1>1, <1>5 DEF Write
  <2>2. lifeOf' = lifeOf /\ readsOf' = readsOf
    BY <2>1 DEF lifeOf, readsOf, DecryptWithFallback, Here
  <2>3. Vault!Drop(s)
    BY <1>3, <2>2 DEF Vault!Drop
  <2>4. QED
    BY <2>3 DEF Vault!VaultNext
<1>6. QED
  BY <1>4, <1>5

LEMMA DeleteSimulation ==
    ASSUME SyncInv, EverywhereKept, EverywhereKept', NEW r \in Rows, Delete(r)
    PROVE  Vault!Remove(r)
<1> DEFINE x == [state |-> "deleted", plain |-> Null, sealed |-> Null]
<1>1. row' = [row EXCEPT ![r] = x] /\ Here(r) /\ UNCHANGED req /\ row \in [Rows -> Row] /\ x.state = "deleted"
  BY DEF Delete, SyncInv, TypeOK
<1> HIDE DEF x
<1>2. lifeOf' = [lifeOf EXCEPT ![r] = "deleted"] /\ Vault!Holds(r, {})
  BY <1>1, RowNews
<1>3. lifeOf[r] = "here" /\ askedOf' = askedOf
  BY <1>1 DEF Here, lifeOf, askedOf
<1>4. QED
  BY <1>2, <1>3 DEF Vault!Remove

\* A server is replaced: it reads with other keys, and the same.
LEMMA RestartSimulation ==
    ASSUME SyncInv, EverywhereKept, EverywhereKept', NEW s \in Servers, Restart(s)
    PROVE  Vault!Drop(s)
<1>1. req' = [req EXCEPT ![s] = Idle] /\ row' = row /\ TypeOK
  BY DEF Restart, SyncInv
<1>2. askedOf' = [askedOf EXCEPT ![s] = {}]
  BY <1>1, AskedEnds
<1>3. lifeOf' = lifeOf /\ Kept' = Kept
  BY <1>1 DEF lifeOf, Kept, Here
<1>4. readsOf' = readsOf
  BY <1>3 DEF EverywhereKept
<1>5. QED
  BY <1>2, <1>3, <1>4 DEF Vault!Drop

\* A command writes the ciphertext of a row that is there, and nothing else of it.
LEMMA SealsAlone ==
    ASSUME TypeOK, NEW r \in Rows, RotateRow(r) \/ BackfillRow(r)
    PROVE  \A x \in Rows : row'[x].state = row[x].state /\ row'[x].plain = row[x].plain
<1>1. CASE row' = row
  BY <1>1
<1>2. CASE row' # row
  <2>1. PICK c : Seal(r, c) /\ Here(r)
    BY <1>2 DEF RotateRow, BackfillRow, Stale, Candidate
  <2> DEFINE y == [state |-> "here", plain |-> row[r].plain, sealed |-> c]
  <2>2. row' = [row EXCEPT ![r] = y] /\ y.state = row[r].state /\ y.plain = row[r].plain
    BY <2>1 DEF Seal, Here
  <2> HIDE DEF y
  <2>3. QED
    BY <2>2 DEF TypeOK
<1>3. QED
  BY <1>1, <1>2

LEMMA VaultSimulation ==
    ASSUME SyncInv, EverywhereKept, EverywhereKept', [Next]_vars
    PROVE  Vault!VaultNext \/ UNCHANGED Vault!vaultVars
<1>1. TypeOK
  BY DEF SyncInv
<1>2. CASE \E s \in Servers, r \in Rows : \/ \E v \in Values \cup {Null} : Create(s, r, v)
                                          \/ \E v \in Values : Update(s, r, v)
  BY <1>1, <1>2, AskSimulation DEF Vault!VaultNext
<1>3. CASE \E s \in Servers : Write(s)
  BY <1>3, WriteSimulation
<1>4. CASE \E s \in Servers : Restart(s)
  BY <1>4, RestartSimulation DEF Vault!VaultNext
<1>5. CASE \E r \in Rows : Delete(r)
  BY <1>5, DeleteSimulation DEF Vault!VaultNext
<1>6. CASE \E r \in Rows : RotateRow(r) \/ BackfillRow(r)
  <2>1. UNCHANGED req
    BY <1>6 DEF RotateRow, BackfillRow
  <2>2. QED
    BY <1>1, <1>6, <2>1, SealsAlone, QuietVault
<1>7. CASE UNCHANGED <<row, req>>
  BY <1>7, QuietVault
<1>8. QED
  BY <1>2, <1>3, <1>4, <1>5, <1>6, <1>7
     DEF Next, vars, Rotate, DoBackfill, RotateRowFails, BackfillRowFails, rotateAdapters, rotateWebhooks,
         RotationEnds, backfillAdapters, backfillWebhooks, BackfillEnds, NextStage

\* Before the first step every server reads the rows of the releases before.
LEMMA VaultBegins ==
    ASSUME Init, EverywhereKept
    PROVE  Vault!VaultInit
<1>1. lifeOf \in [Rows -> {"unborn", "here"}] /\ \A r \in Rows : row[r].plain \in Values \cup {Null}
  BY DEF Init, Row, lifeOf
<1>2. PICK kept : kept = [r \in Rows |-> row[r].plain]
  OBVIOUS
<1>3. kept \in [Rows -> Values \cup {Null}]
  BY <1>1, <1>2
<1>4. Kept = [r \in Rows |-> IF lifeOf[r] = "here" THEN {kept[r]} ELSE {}]
  BY <1>2 DEF Kept, Here, lifeOf
<1>5. askedOf = [s \in Servers |-> {}]
  BY DEF Init, askedOf
<1>6. QED
  BY <1>1, <1>3, <1>4, <1>5 DEF EverywhereKept, Vault!VaultInit

\* With CMDB_SECRET_KEY_ACTIVE set to 1, the integrations are a vault: whichever
\* saves, commands, failures and restarts overlap, every server reads of a row
\* the last value somebody asked for, from the moment it is saved.
THEOREM VaultRefinement == ASSUME ActiveMeanwhile = 1 PROVE Spec => ImplementsVault
<1>1. Init /\ EverywhereKept => Vault!VaultInit
  BY VaultBegins
<1>2. SyncInv /\ EverywhereKept /\ EverywhereKept' /\ [Next]_vars => [Vault!VaultNext]_Vault!vaultVars
  BY VaultSimulation
<1>3. QED
  BY <1>1, <1>2, ReadsAreKept, NoSaveLost, NoKeyMissing, Sync, PTL DEF Spec, ImplementsVault, Vault!VaultSpec

------------------------------------------------------------------------------
(***************************************************************************)
(* The archive of the audit log's partitions, for any rows and any         *)
(* overlapping runs, crashes and failures of the store.                    *)
(*                                                                         *)
(* ArchiveInv: one run at a time is past the detach, and the partition is  *)
(* where that run put it (OneDetacher); its copy is the table, which can   *)
(* no longer change, and then the object (CopyIsWhole); and the rows are   *)
(* in the table until it is dropped, and then in the object                *)
(* (RowsAreKept).                                                          *)
(***************************************************************************)

ArchiveTypeOK ==
    /\ partition \in {"attached", "pending", "orphan", "dropped"}
    /\ object \in {NoObject, EmptyObject} \cup {Whole(rows) : rows \in SUBSET (MonthRows \cup LateRows)}
    /\ archiver \in [Runs -> [at : {"start", "done", "checked", "planned", "counted", "detaching", "detached",
                                    "exported", "uploaded", "verified", "failed"},
                              counted : {0} \cup {Cardinality(rows) : rows \in SUBSET (MonthRows \cup LateRows)}, buf : SUBSET (MonthRows \cup LateRows)]]
    /\ monthRows \in SUBSET (MonthRows \cup LateRows)

\* The steps of a run that has begun to detach the partition.
AtWork(r) == archiver[r].at \in {"detaching", "detached", "exported", "uploaded", "verified"}

\* One run at a time is past the detach, and the partition is where it put it.
OneDetacher ==
    /\ \A r, s \in Runs : AtWork(r) /\ AtWork(s) => r = s
    /\ \A r \in Runs : AtWork(r) => partition = IF archiver[r].at = "detaching" THEN "pending" ELSE "orphan"

\* Its copy is the table, which can no longer change, and then the object.
CopyIsWhole ==
    \A r \in Runs :
        /\ archiver[r].at \in {"exported", "uploaded", "verified"} => archiver[r].buf = monthRows
        /\ archiver[r].at = "uploaded" => object \in {Whole(monthRows), EmptyObject}
        /\ archiver[r].at = "verified" => object = Whole(monthRows)

\* The rows are in the table until it is dropped, and then in the object.
RowsAreKept ==
    /\ partition = "dropped" => object.body = "whole" /\ written \subseteq object.rows
    /\ partition # "dropped" => written = monthRows

ArchiveInv == ArchiveTypeOK /\ OneDetacher /\ CopyIsWhole /\ RowsAreKept
\* Every step keeps the types.
LEMMA ArchiveTypeStep ==
    ASSUME ArchiveTypeOK, [ArchiveNext]_archiveVars
    PROVE  ArchiveTypeOK'
<1>1. ASSUME NEW r \in Runs, PartitionIsAttached(r)
      PROVE  ArchiveTypeOK'
  BY <1>1 DEF PartitionIsAttached, Step, ArchiveTypeOK, EmptyObject, Whole, NoObject
<1>2. ASSUME NEW r \in Runs, NEW dryRun \in BOOLEAN, PartitionRowCount(r, dryRun)
      PROVE  ArchiveTypeOK'
  BY <1>2 DEF PartitionRowCount, ArchiveTypeOK, EmptyObject, Whole, NoObject
<1>3. ASSUME NEW r \in Runs, DetachPartition(r)
      PROVE  ArchiveTypeOK'
  BY <1>3 DEF DetachPartition, Step, ArchiveTypeOK, EmptyObject, Whole, NoObject
<1>4. ASSUME NEW r \in Runs, DetachCompletes(r)
      PROVE  ArchiveTypeOK'
  BY <1>4 DEF DetachCompletes, Step, ArchiveTypeOK, EmptyObject, Whole, NoObject
<1>5. ASSUME NEW r \in Runs, ExportPartitionParquet(r)
      PROVE  ArchiveTypeOK'
  BY <1>5 DEF ExportPartitionParquet, ArchiveTypeOK, EmptyObject, Whole, NoObject
<1>6. ASSUME NEW r \in Runs, UploadObject(r)
      PROVE  ArchiveTypeOK'
  BY <1>6 DEF UploadObject, Step, ArchiveTypeOK, EmptyObject, Whole, NoObject
<1>7. ASSUME NEW r \in Runs, VerifyObject(r)
      PROVE  ArchiveTypeOK'
  BY <1>7 DEF VerifyObject, Step, Verified, ArchiveTypeOK, EmptyObject, Whole, NoObject
<1>8. ASSUME NEW r \in Runs, DropPartition(r)
      PROVE  ArchiveTypeOK'
  BY <1>8 DEF DropPartition, Step, ArchiveTypeOK, EmptyObject, Whole, NoObject
<1>9. ASSUME NEW r \in Runs, RunFails(r)
      PROVE  ArchiveTypeOK'
  BY <1>9 DEF RunFails, Archiving, ArchiveTypeOK, EmptyObject, Whole, NoObject
<1>10. ASSUME NEW r \in Runs, AnswerIsLost(r)
       PROVE  ArchiveTypeOK'
  BY <1>10 DEF AnswerIsLost, Step, ArchiveTypeOK, EmptyObject, Whole, NoObject
<1>11. ASSUME NEW x \in LateRows, LateRow(x)
       PROVE  ArchiveTypeOK'
  BY <1>11 DEF LateRow, ArchiveTypeOK, EmptyObject, Whole, NoObject
<1>12. CASE OperatorRepairs
  BY <1>12 DEF OperatorRepairs, Archiving, ArchiveTypeOK, EmptyObject, Whole, NoObject
<1>13. CASE UNCHANGED archiveVars
  BY <1>13 DEF archiveVars, ArchiveTypeOK, EmptyObject, Whole, NoObject
<1>14. QED
  BY <1>1, <1>2, <1>3, <1>4, <1>5, <1>6, <1>7, <1>8, <1>9, <1>10, <1>11, <1>12, <1>13 DEF
     ArchiveNext

\* A detach needs an attached partition, and a repair a moment when no run is at work.
LEMMA OneDetacherStep ==
    ASSUME ArchiveTypeOK, OneDetacher, [ArchiveNext]_archiveVars
    PROVE  OneDetacher'
<1>1. ASSUME NEW r \in Runs, PartitionIsAttached(r)
      PROVE  OneDetacher'
  BY <1>1 DEF PartitionIsAttached, Step, ArchiveTypeOK, OneDetacher, AtWork
<1>2. ASSUME NEW r \in Runs, NEW dryRun \in BOOLEAN, PartitionRowCount(r, dryRun)
      PROVE  OneDetacher'
  BY <1>2 DEF PartitionRowCount, ArchiveTypeOK, OneDetacher, AtWork
<1>3. ASSUME NEW r \in Runs, DetachPartition(r)
      PROVE  OneDetacher'
  BY <1>3 DEF DetachPartition, Step, ArchiveTypeOK, OneDetacher, AtWork
<1>4. ASSUME NEW r \in Runs, DetachCompletes(r)
      PROVE  OneDetacher'
  BY <1>4 DEF DetachCompletes, Step, ArchiveTypeOK, OneDetacher, AtWork
<1>5. ASSUME NEW r \in Runs, ExportPartitionParquet(r)
      PROVE  OneDetacher'
  BY <1>5 DEF ExportPartitionParquet, ArchiveTypeOK, OneDetacher, AtWork
<1>6. ASSUME NEW r \in Runs, UploadObject(r)
      PROVE  OneDetacher'
  BY <1>6 DEF UploadObject, Step, ArchiveTypeOK, OneDetacher, AtWork
<1>7. ASSUME NEW r \in Runs, VerifyObject(r)
      PROVE  OneDetacher'
  BY <1>7 DEF VerifyObject, Step, Verified, ArchiveTypeOK, OneDetacher, AtWork
<1>8. ASSUME NEW r \in Runs, DropPartition(r)
      PROVE  OneDetacher'
  BY <1>8 DEF DropPartition, Step, ArchiveTypeOK, OneDetacher, AtWork
<1>9. ASSUME NEW r \in Runs, RunFails(r)
      PROVE  OneDetacher'
  BY <1>9 DEF RunFails, Archiving, ArchiveTypeOK, OneDetacher, AtWork
<1>10. ASSUME NEW r \in Runs, AnswerIsLost(r)
       PROVE  OneDetacher'
  BY <1>10 DEF AnswerIsLost, Step, ArchiveTypeOK, OneDetacher, AtWork
<1>11. ASSUME NEW x \in LateRows, LateRow(x)
       PROVE  OneDetacher'
  BY <1>11 DEF LateRow, ArchiveTypeOK, OneDetacher, AtWork
<1>12. CASE OperatorRepairs
  BY <1>12 DEF OperatorRepairs, Archiving, ArchiveTypeOK, OneDetacher, AtWork
<1>13. CASE UNCHANGED archiveVars
  BY <1>13 DEF archiveVars, ArchiveTypeOK, OneDetacher, AtWork
<1>14. QED
  BY <1>1, <1>2, <1>3, <1>4, <1>5, <1>6, <1>7, <1>8, <1>9, <1>10, <1>11, <1>12, <1>13 DEF
     ArchiveNext

\* Once the partition is a table of its own nothing inserts into it.
LEMMA CopyStep ==
    ASSUME ArchiveTypeOK, OneDetacher, CopyIsWhole, [ArchiveNext]_archiveVars
    PROVE  CopyIsWhole'
<1>1. ASSUME NEW r \in Runs, PartitionIsAttached(r)
      PROVE  CopyIsWhole'
  BY <1>1 DEF PartitionIsAttached, Step, ArchiveTypeOK, OneDetacher, CopyIsWhole, AtWork,
     EmptyObject, Whole
<1>2. ASSUME NEW r \in Runs, NEW dryRun \in BOOLEAN, PartitionRowCount(r, dryRun)
      PROVE  CopyIsWhole'
  BY <1>2 DEF PartitionRowCount, ArchiveTypeOK, OneDetacher, CopyIsWhole, AtWork, EmptyObject, Whole
<1>3. ASSUME NEW r \in Runs, DetachPartition(r)
      PROVE  CopyIsWhole'
  BY <1>3 DEF DetachPartition, Step, ArchiveTypeOK, OneDetacher, CopyIsWhole, AtWork, EmptyObject,
     Whole
<1>4. ASSUME NEW r \in Runs, DetachCompletes(r)
      PROVE  CopyIsWhole'
  BY <1>4 DEF DetachCompletes, Step, ArchiveTypeOK, OneDetacher, CopyIsWhole, AtWork, EmptyObject,
     Whole
<1>5. ASSUME NEW r \in Runs, ExportPartitionParquet(r)
      PROVE  CopyIsWhole'
  BY <1>5 DEF ExportPartitionParquet, ArchiveTypeOK, OneDetacher, CopyIsWhole, AtWork, EmptyObject,
     Whole
<1>6. ASSUME NEW r \in Runs, UploadObject(r)
      PROVE  CopyIsWhole'
  BY <1>6 DEF UploadObject, Step, ArchiveTypeOK, OneDetacher, CopyIsWhole, AtWork, EmptyObject, Whole
<1>7. ASSUME NEW r \in Runs, VerifyObject(r)
      PROVE  CopyIsWhole'
  BY <1>7 DEF VerifyObject, Step, Verified, ArchiveTypeOK, OneDetacher, CopyIsWhole, AtWork,
     EmptyObject, Whole
<1>8. ASSUME NEW r \in Runs, DropPartition(r)
      PROVE  CopyIsWhole'
  BY <1>8 DEF DropPartition, Step, ArchiveTypeOK, OneDetacher, CopyIsWhole, AtWork, EmptyObject,
     Whole
<1>9. ASSUME NEW r \in Runs, RunFails(r)
      PROVE  CopyIsWhole'
  BY <1>9 DEF RunFails, Archiving, ArchiveTypeOK, OneDetacher, CopyIsWhole, AtWork, EmptyObject,
     Whole
<1>10. ASSUME NEW r \in Runs, AnswerIsLost(r)
       PROVE  CopyIsWhole'
  BY <1>10 DEF AnswerIsLost, Step, ArchiveTypeOK, OneDetacher, CopyIsWhole, AtWork, EmptyObject,
     Whole
<1>11. ASSUME NEW x \in LateRows, LateRow(x)
       PROVE  CopyIsWhole'
  BY <1>11 DEF LateRow, ArchiveTypeOK, OneDetacher, CopyIsWhole, AtWork, EmptyObject, Whole
<1>12. CASE OperatorRepairs
  BY <1>12 DEF OperatorRepairs, Archiving, ArchiveTypeOK, OneDetacher, CopyIsWhole, AtWork,
     EmptyObject, Whole
<1>13. CASE UNCHANGED archiveVars
  BY <1>13 DEF archiveVars, ArchiveTypeOK, OneDetacher, CopyIsWhole, AtWork, EmptyObject, Whole
<1>14. QED
  BY <1>1, <1>2, <1>3, <1>4, <1>5, <1>6, <1>7, <1>8, <1>9, <1>10, <1>11, <1>12, <1>13 DEF
     ArchiveNext

\* The drop follows a whole copy.
LEMMA RowsStep ==
    ASSUME ArchiveTypeOK, OneDetacher, CopyIsWhole, RowsAreKept, [ArchiveNext]_archiveVars
    PROVE  RowsAreKept'
<1>1. ASSUME NEW r \in Runs, PartitionIsAttached(r)
      PROVE  RowsAreKept'
  BY <1>1 DEF PartitionIsAttached, Step, ArchiveTypeOK, OneDetacher, CopyIsWhole, RowsAreKept,
     AtWork, EmptyObject, Whole
<1>2. ASSUME NEW r \in Runs, NEW dryRun \in BOOLEAN, PartitionRowCount(r, dryRun)
      PROVE  RowsAreKept'
  BY <1>2 DEF PartitionRowCount, ArchiveTypeOK, OneDetacher, CopyIsWhole, RowsAreKept, AtWork,
     EmptyObject, Whole
<1>3. ASSUME NEW r \in Runs, DetachPartition(r)
      PROVE  RowsAreKept'
  BY <1>3 DEF DetachPartition, Step, ArchiveTypeOK, OneDetacher, CopyIsWhole, RowsAreKept,
     AtWork, EmptyObject, Whole
<1>4. ASSUME NEW r \in Runs, DetachCompletes(r)
      PROVE  RowsAreKept'
  BY <1>4 DEF DetachCompletes, Step, ArchiveTypeOK, OneDetacher, CopyIsWhole, RowsAreKept,
     AtWork, EmptyObject, Whole
<1>5. ASSUME NEW r \in Runs, ExportPartitionParquet(r)
      PROVE  RowsAreKept'
  BY <1>5 DEF ExportPartitionParquet, ArchiveTypeOK, OneDetacher, CopyIsWhole, RowsAreKept,
     AtWork, EmptyObject, Whole
<1>6. ASSUME NEW r \in Runs, UploadObject(r)
      PROVE  RowsAreKept'
  BY <1>6 DEF UploadObject, Step, ArchiveTypeOK, OneDetacher, CopyIsWhole, RowsAreKept, AtWork,
     EmptyObject, Whole
<1>7. ASSUME NEW r \in Runs, VerifyObject(r)
      PROVE  RowsAreKept'
  BY <1>7 DEF VerifyObject, Step, Verified, ArchiveTypeOK, OneDetacher, CopyIsWhole,
     RowsAreKept, AtWork, EmptyObject, Whole
<1>8. ASSUME NEW r \in Runs, DropPartition(r)
      PROVE  RowsAreKept'
  BY <1>8 DEF DropPartition, Step, ArchiveTypeOK, OneDetacher, CopyIsWhole, RowsAreKept,
     AtWork, EmptyObject, Whole
<1>9. ASSUME NEW r \in Runs, RunFails(r)
      PROVE  RowsAreKept'
  BY <1>9 DEF RunFails, Archiving, ArchiveTypeOK, OneDetacher, CopyIsWhole, RowsAreKept,
     AtWork, EmptyObject, Whole
<1>10. ASSUME NEW r \in Runs, AnswerIsLost(r)
       PROVE  RowsAreKept'
  BY <1>10 DEF AnswerIsLost, Step, ArchiveTypeOK, OneDetacher, CopyIsWhole, RowsAreKept,
     AtWork, EmptyObject, Whole
<1>11. ASSUME NEW x \in LateRows, LateRow(x)
       PROVE  RowsAreKept'
  BY <1>11 DEF LateRow, ArchiveTypeOK, OneDetacher, CopyIsWhole, RowsAreKept, AtWork, EmptyObject,
     Whole
<1>12. CASE OperatorRepairs
  BY <1>12 DEF OperatorRepairs, Archiving, ArchiveTypeOK, OneDetacher, CopyIsWhole,
     RowsAreKept, AtWork, EmptyObject, Whole
<1>13. CASE UNCHANGED archiveVars
  BY <1>13 DEF archiveVars, ArchiveTypeOK, OneDetacher, CopyIsWhole, RowsAreKept, AtWork,
     EmptyObject, Whole
<1>14. QED
  BY <1>1, <1>2, <1>3, <1>4, <1>5, <1>6, <1>7, <1>8, <1>9, <1>10, <1>11, <1>12, <1>13 DEF
     ArchiveNext

\* The invariant that the archive's safety rests on.
LEMMA ArchiveInvariant == ArchiveSpec => []ArchiveInv
<1>1. ArchiveInit => ArchiveInv
  BY DEF ArchiveInit, ArchiveInv, ArchiveTypeOK, OneDetacher, CopyIsWhole, RowsAreKept, AtWork
<1>2. ArchiveInv /\ [ArchiveNext]_archiveVars => ArchiveInv'
  BY ArchiveTypeStep, OneDetacherStep, CopyStep, RowsStep DEF ArchiveInv
<1>3. QED
  BY <1>1, <1>2, PTL DEF ArchiveSpec

\* No event of the month is ever in neither place, for any number of runs, rows and
\* repairs: the copy a run drops the table for is whole.
THEOREM NothingArchivedIsLost == ArchiveSpec => []NothingIsLost
<1>1. ArchiveInv => NothingIsLost
  BY DEF ArchiveInv, OneDetacher, CopyIsWhole, RowsAreKept, NothingIsLost, AtWork, Whole
<1>2. QED
  BY <1>1, ArchiveInvariant, PTL

------------------------------------------------------------------------------
(***************************************************************************)
(* Proofs about PredictiveRefresh: the recommendations are the rules' and  *)
(* the reviews the operators', for any assets, dates, horizons and scans.  *)
(***************************************************************************)

\* Every row has a status the schema knows and the stamp of a scan that has begun.
RowsOK ==
    \A k \in DOMAIN recommendations :
        /\ recommendations[k] = [score |-> recommendations[k].score, target |-> recommendations[k].target,
                                 detected |-> recommendations[k].detected, status |-> recommendations[k].status]
        /\ recommendations[k].status \in Statuses
        /\ recommendations[k].detected \in Nat /\ recommendations[k].detected <= stamps

HasRead(s) == s = [at |-> "read", day |-> s.day, found |-> s.found, met |-> s.met]
HasBegun(s) == /\ s = [at |-> "begun", day |-> s.day, found |-> s.found, met |-> s.met, stamp |-> s.stamp]
               /\ s.stamp \in Nat /\ s.stamp <= stamps

\* A scan that has met nothing holds what the rules say now of the day it read the
\* clock, and no row is as young as its transaction.
ScansOK ==
    /\ scan = [p \in Scanners |-> scan[p]]
    /\ \A p \in Scanners :
          scan[p] # NotScanning =>
              /\ HasRead(scan[p]) \/ HasBegun(scan[p])
              /\ scan[p].met \in BOOLEAN
              /\ ~scan[p].met =>
                    /\ scan[p].found = Found(ListAssetsForPredictiveScan, scan[p].day)
                    /\ scan[p].at = "begun" =>
                          \A k \in DOMAIN recommendations : recommendations[k].detected < scan[p].stamp

\* After a scan that nothing disturbed there is a row for every match, with its values,
\* and none of the others is open.
SettledOK ==
    settled =>
        LET found == Found(DOMAIN lifecycle, today)
        IN  /\ DOMAIN found \subseteq DOMAIN recommendations
            /\ \A k \in DOMAIN recommendations :
                  IF k \in DOMAIN found
                  THEN recommendations[k].score = found[k].score /\ recommendations[k].target = found[k].target
                  ELSE recommendations[k].status # "open"

RefreshInv ==
    /\ stamps \in Nat /\ settled \in BOOLEAN
    /\ RowsOK /\ ScansOK /\ SettledOK

------------------------------------------------------------------------------
\* The match of a kind, and what the rules say of a table of assets.
Chosen(matches, kind) == CHOOSE m \in matches : m.kind = kind
FoundOf(life, assets, day) ==
    LET keys == UNION {{<<d, m.kind>> : m \in evaluateAsset(life[d], day)} : d \in assets}
    IN  [k \in keys |-> CHOOSE m \in evaluateAsset(life[k[1]], day) : m.kind = k[2]]

LEMMA FoundOfIs ==
    ASSUME NEW life, NEW assets, NEW day
    PROVE  /\ FoundOf(life, assets, day) = [k \in DOMAIN FoundOf(life, assets, day) |-> FoundOf(life, assets, day)[k]]
           /\ \A k : k \in DOMAIN FoundOf(life, assets, day) <=>
                        \E d \in assets : \E m \in evaluateAsset(life[d], day) : k = <<d, m.kind>>
           /\ \A k \in DOMAIN FoundOf(life, assets, day) :
                 FoundOf(life, assets, day)[k] = Chosen(evaluateAsset(life[k[1]], day), k[2])
<1> DEFINE keys == UNION {{<<d, m.kind>> : m \in evaluateAsset(life[d], day)} : d \in assets}
<1>1. FoundOf(life, assets, day) = [k \in keys |-> Chosen(evaluateAsset(life[k[1]], day), k[2])]
  BY DEF FoundOf, Chosen
<1>2. \A k : k \in keys <=> \E d \in assets : \E m \in evaluateAsset(life[d], day) : k = <<d, m.kind>>
  OBVIOUS
<1> HIDE DEF keys
<1>3. QED
  BY <1>1, <1>2

\* An asset without dates matches no rule.
LEMMA NoDatesNoMatch ==
    ASSUME NEW a, NEW day, ~HasLifecycle(a)
    PROVE  evaluateAsset(a, day) = {}
  BY DEF HasLifecycle, evaluateAsset, Past, Ahead

\* So the query that leaves them out leaves nothing out.
LEMMA ScanSeesAll ==
    ASSUME NEW day
    PROVE  Found(ListAssetsForPredictiveScan, day) = Found(DOMAIN lifecycle, day)
<1> DEFINE f == FoundOf(lifecycle, ListAssetsForPredictiveScan, day)
           g == FoundOf(lifecycle, DOMAIN lifecycle, day)
<1>1. f = Found(ListAssetsForPredictiveScan, day) /\ g = Found(DOMAIN lifecycle, day)
  BY DEF Found, FoundOf
<1>2. ASSUME NEW d \in DOMAIN lifecycle, NEW m \in evaluateAsset(lifecycle[d], day)
      PROVE  d \in ListAssetsForPredictiveScan
  BY NoDatesNoMatch DEF ListAssetsForPredictiveScan
<1>3. ListAssetsForPredictiveScan \subseteq DOMAIN lifecycle
  BY DEF ListAssetsForPredictiveScan
<1>4. \A k : k \in DOMAIN f <=> k \in DOMAIN g
  BY <1>2, <1>3, FoundOfIs
<1>5. \A k \in DOMAIN f : f[k] = g[k]
  BY <1>4, FoundOfIs
<1>6. f = [k \in DOMAIN f |-> f[k]] /\ g = [k \in DOMAIN g |-> g[k]]
  BY FoundOfIs
<1> HIDE DEF f, g
<1>7. f = g
  <2>1. DOMAIN f = DOMAIN g
    BY <1>4
  <2>2. QED
    BY <1>5, <1>6, <2>1
<1>8. QED
  BY <1>1, <1>7

\* Without an asset the rules say the same of the others.
Without(rest, life, d) == rest = [e \in DOMAIN life \ {d} |-> life[e]]

LEMMA FoundWithout ==
    ASSUME NEW life, NEW d, NEW day, NEW rest, Without(rest, life, d)
    PROVE  /\ \A k : k \in DOMAIN FoundOf(rest, DOMAIN rest, day) <=>
                        (k \in DOMAIN FoundOf(life, DOMAIN life, day) /\ k[1] # d)
           /\ \A k \in DOMAIN FoundOf(rest, DOMAIN rest, day) :
                 FoundOf(rest, DOMAIN rest, day)[k] = FoundOf(life, DOMAIN life, day)[k]
<1> DEFINE f == FoundOf(life, DOMAIN life, day)
           g == FoundOf(rest, DOMAIN rest, day)
<1>1. DOMAIN rest = DOMAIN life \ {d} /\ \A e \in DOMAIN rest : rest[e] = life[e]
  BY DEF Without
<1>2. /\ \A k : k \in DOMAIN f <=> \E e \in DOMAIN life : \E m \in evaluateAsset(life[e], day) : k = <<e, m.kind>>
      /\ \A k : k \in DOMAIN g <=> \E e \in DOMAIN rest : \E m \in evaluateAsset(rest[e], day) : k = <<e, m.kind>>
      /\ \A k \in DOMAIN f : f[k] = Chosen(evaluateAsset(life[k[1]], day), k[2])
      /\ \A k \in DOMAIN g : g[k] = Chosen(evaluateAsset(rest[k[1]], day), k[2])
  BY FoundOfIs
<1> HIDE DEF f, g
<1>3. \A k : k \in DOMAIN g <=> (k \in DOMAIN f /\ k[1] # d)
  <2> SUFFICES ASSUME NEW k PROVE k \in DOMAIN g <=> (k \in DOMAIN f /\ k[1] # d)
    OBVIOUS
  <2>1. ASSUME k \in DOMAIN g PROVE k \in DOMAIN f /\ k[1] # d
    <3>1. PICK e \in DOMAIN rest : \E m \in evaluateAsset(rest[e], day) : k = <<e, m.kind>>
      BY <1>2, <2>1
    <3>2. e \in DOMAIN life /\ e # d /\ rest[e] = life[e] /\ k[1] = e
      BY <1>1, <3>1
    <3>3. QED
      BY <1>2, <3>1, <3>2
  <2>2. ASSUME k \in DOMAIN f, k[1] # d PROVE k \in DOMAIN g
    <3>1. PICK e \in DOMAIN life : \E m \in evaluateAsset(life[e], day) : k = <<e, m.kind>>
      BY <1>2, <2>2
    <3>2. k[1] = e
      BY <3>1
    <3>3. e \in DOMAIN rest /\ rest[e] = life[e]
      BY <1>1, <2>2, <3>1, <3>2
    <3>4. QED
      BY <1>2, <3>1, <3>3
  <2>3. QED
    BY <2>1, <2>2
<1>4. \A k \in DOMAIN g : k[1] \in DOMAIN rest
  BY <1>2
<1>5. \A k \in DOMAIN g : g[k] = f[k]
  BY <1>1, <1>2, <1>3, <1>4
<1>6. QED
  BY <1>3, <1>5 DEF f, g

\* While no asset changes, the rules say the same.
LEMMA FoundStays ==
    ASSUME lifecycle' = lifecycle
    PROVE  \A day : /\ Found(ListAssetsForPredictiveScan, day)' = Found(ListAssetsForPredictiveScan, day)
                    /\ Found(DOMAIN lifecycle, day)' = Found(DOMAIN lifecycle, day)
  BY DEF Found, ListAssetsForPredictiveScan

LEMMA SettledStays ==
    ASSUME SettledOK, UNCHANGED <<lifecycle, recommendations, today, settled>>
    PROVE  SettledOK'
  BY FoundStays DEF SettledOK

------------------------------------------------------------------------------
LEMMA RefreshStart == ASSUME RefreshInit PROVE RefreshInv
<1>1. recommendations = <<>> /\ DOMAIN recommendations = {}
  BY DEF RefreshInit
<1>2. scan = [p \in Scanners |-> NotScanning] /\ stamps = 0 /\ settled = FALSE
  BY DEF RefreshInit
<1>3. QED
  BY <1>1, <1>2 DEF RefreshInv, RowsOK, ScansOK, SettledOK

LEMMA MetChanges ==
    ASSUME NEW s, NEW met
    PROVE  /\ HasRead(s) => [s EXCEPT !.met = met] =
                 [at |-> "read", day |-> s.day, found |-> s.found, met |-> met]
           /\ HasBegun(s) => [s EXCEPT !.met = met] =
                 [at |-> "begun", day |-> s.day, found |-> s.found, met |-> met, stamp |-> s.stamp]
<1>1. ASSUME NEW a, NEW b, NEW c, s = [at |-> "read", day |-> a, found |-> b, met |-> c]
      PROVE  [s EXCEPT !.met = met] = [at |-> "read", day |-> a, found |-> b, met |-> met]
  BY <1>1
<1>2. ASSUME NEW a, NEW b, NEW c, NEW d, s = [at |-> "begun", day |-> a, found |-> b, met |-> c, stamp |-> d]
      PROVE  [s EXCEPT !.met = met] = [at |-> "begun", day |-> a, found |-> b, met |-> met, stamp |-> d]
  BY <1>2
<1>3. QED
  BY <1>1, <1>2 DEF HasRead, HasBegun

\* A disturbed scan is the same scan, and has met something.
LEMMA DisturbedIs ==
    ASSUME RefreshInv
    PROVE  /\ Disturbed = [p \in Scanners |-> Disturbed[p]]
           /\ \A p \in Scanners :
                 IF scan[p] = NotScanning THEN Disturbed[p] = NotScanning
                 ELSE /\ Disturbed[p] # NotScanning /\ Disturbed[p].met = TRUE
                      /\ HasRead(Disturbed[p]) \/ HasBegun(Disturbed[p])
<1> SUFFICES ASSUME NEW p \in Scanners, scan[p] # NotScanning
             PROVE  /\ Disturbed[p] # NotScanning /\ Disturbed[p].met = TRUE
                    /\ HasRead(Disturbed[p]) \/ HasBegun(Disturbed[p])
  BY DEF Disturbed
<1> DEFINE s == scan[p]  t == Disturbed[p]
<1>1. t = [s EXCEPT !.met = TRUE]
  BY DEF Disturbed
<1>2. HasRead(s) \/ HasBegun(s)
  BY DEF RefreshInv, ScansOK
<1> HIDE DEF s, t
<1>3. CASE HasRead(s)
  <2>1. t = [at |-> "read", day |-> s.day, found |-> s.found, met |-> TRUE]
    BY <1>1, <1>3, MetChanges
  <2>2. QED
    BY <2>1 DEF HasRead, NotScanning, t
<1>4. CASE HasBegun(s)
  <2>1. t = [at |-> "begun", day |-> s.day, found |-> s.found, met |-> TRUE, stamp |-> s.stamp]
    BY <1>1, <1>4, MetChanges
  <2>2. QED
    BY <1>4, <2>1 DEF HasBegun, NotScanning, t
<1>5. QED
  BY <1>2, <1>3, <1>4

\* When every scan has been disturbed, they are as they should be whatever the rows are.
LEMMA DisturbedAreOK ==
    ASSUME RefreshInv, scan' = Disturbed, stamps' = stamps
    PROVE  ScansOK'
<1>1. \A p \in Scanners : scan'[p] # NotScanning =>
          /\ scan'[p].met = TRUE
          /\ HasRead(scan'[p]) \/ HasBegun(scan'[p])
  BY DisturbedIs
<1>2. scan' = [p \in Scanners |-> scan'[p]]
  BY DisturbedIs
<1>3. \A p \in Scanners : HasBegun(scan'[p]) => HasBegun(scan[p])'
  BY DEF HasBegun
<1>4. \A p \in Scanners : HasRead(scan'[p]) => HasRead(scan[p])'
  BY DEF HasRead
<1>5. QED
  BY <1>1, <1>2, <1>3, <1>4 DEF ScansOK

LEMMA ReadKeeps ==
    ASSUME RefreshInv, NEW p \in Scanners, ReadAssets(p)
    PROVE  RefreshInv'
<1> DEFINE s == [at |-> "read", day |-> today, found |-> Found(ListAssetsForPredictiveScan, today), met |-> FALSE]
<1>1. /\ scan' = [scan EXCEPT ![p] = s]
      /\ UNCHANGED <<lifecycle, recommendations, today, stamps, specEdits, settled>>
  BY DEF ReadAssets
<1>2. /\ HasRead(s) /\ s # NotScanning /\ s.met = FALSE /\ s.at = "read"
      /\ s.found = Found(ListAssetsForPredictiveScan, s.day)
  BY DEF HasRead, NotScanning
<1> HIDE DEF s
<1>3. /\ scan' = [q \in Scanners |-> scan'[q]] /\ scan'[p] = s
      /\ \A q \in Scanners \ {p} : scan'[q] = scan[q]
  BY <1>1 DEF RefreshInv, ScansOK
<1>4. \A day : Found(ListAssetsForPredictiveScan, day)' = Found(ListAssetsForPredictiveScan, day)
  BY <1>1, FoundStays
<1>5. ScansOK'
  BY <1>1, <1>2, <1>3, <1>4 DEF RefreshInv, ScansOK, HasBegun, HasRead
<1>6. SettledOK'
  BY <1>1, SettledStays DEF RefreshInv
<1>7. QED
  BY <1>1, <1>5, <1>6 DEF RefreshInv, RowsOK

LEMMA BeginKeeps ==
    ASSUME RefreshInv, NEW p \in Scanners, BeginScan(p)
    PROVE  RefreshInv'
<1> DEFINE s == scan[p]
           t == [at |-> "begun", day |-> s.day, found |-> s.found, met |-> s.met, stamp |-> stamps + 1]
<1>1. /\ s.at = "read" /\ stamps' = stamps + 1
      /\ UNCHANGED <<lifecycle, recommendations, today, specEdits, settled>>
  BY DEF BeginScan
<1>2. /\ scan' = [q \in Scanners |-> scan'[q]] /\ scan'[p] = t
      /\ \A q \in Scanners \ {p} : scan'[q] = scan[q]
  BY DEF BeginScan, RefreshInv, ScansOK
<1>3. s # NotScanning
  BY <1>1 DEF NotScanning
<1>4. stamps \in Nat
  BY DEF RefreshInv
<1>5. \A day : Found(ListAssetsForPredictiveScan, day)' = Found(ListAssetsForPredictiveScan, day)
  BY <1>1, FoundStays
<1>6. RowsOK'
  BY <1>1, <1>4 DEF RefreshInv, RowsOK
<1>7. /\ t.at = "begun" /\ t.day = s.day /\ t.found = s.found /\ t.met = s.met /\ t.stamp = stamps + 1
      /\ t # NotScanning
      /\ t = [at |-> "begun", day |-> t.day, found |-> t.found, met |-> t.met, stamp |-> t.stamp]
  BY DEF NotScanning
<1> HIDE DEF s, t
<1>8. ScansOK'
  <2> SUFFICES ASSUME NEW q \in Scanners, scan'[q] # NotScanning
               PROVE  /\ HasRead(scan'[q]) \/ HasBegun(scan[q])'
                      /\ scan'[q].met \in BOOLEAN
                      /\ ~scan'[q].met =>
                            /\ scan'[q].found = Found(ListAssetsForPredictiveScan, scan'[q].day)
                            /\ scan'[q].at = "begun" =>
                                  \A k \in DOMAIN recommendations : recommendations[k].detected < scan'[q].stamp
    BY <1>1, <1>2, <1>5 DEF ScansOK, HasRead
  <2>1. CASE q = p
    <3>1. \A k \in DOMAIN recommendations : recommendations[k].detected < t.stamp
      BY <1>4, <1>7 DEF RefreshInv, RowsOK
    <3>2. HasBegun(scan[p])'
      BY <1>1, <1>2, <1>4, <1>7 DEF HasBegun
    <3>3. /\ s.met \in BOOLEAN
          /\ ~s.met => s.found = Found(ListAssetsForPredictiveScan, s.day)
      BY <1>3 DEF RefreshInv, ScansOK, s
    <3>4. QED
      BY <1>2, <1>7, <2>1, <3>1, <3>2, <3>3
  <2>2. CASE q # p
    BY <1>1, <1>2, <1>4, <2>2 DEF RefreshInv, ScansOK, HasBegun, HasRead
  <2>3. QED
    BY <2>1, <2>2
<1>9. SettledOK'
  BY <1>1, SettledStays DEF RefreshInv
<1>10. QED
  BY <1>1, <1>4, <1>6, <1>8, <1>9 DEF RefreshInv

\* What a scan leaves of the table: its matches with its stamp, and of the others what
\* is reviewed or as young.
LEMMA ScanLeaves ==
    ASSUME NEW table, NEW found, NEW stamp \in Nat
    PROVE  LET new == DeleteStalePredictiveRefresh(UpsertPredictiveRefresh(table, found, stamp), stamp)
           IN  /\ DOMAIN found \subseteq DOMAIN new
               /\ DOMAIN new \subseteq DOMAIN table \cup DOMAIN found
               /\ \A k \in DOMAIN found :
                     /\ new[k] = [score |-> new[k].score, target |-> new[k].target,
                                  detected |-> new[k].detected, status |-> new[k].status]
                     /\ new[k].score = found[k].score /\ new[k].target = found[k].target
                     /\ new[k].detected = stamp
                     /\ k \in DOMAIN table => new[k].status = table[k].status
                     /\ k \notin DOMAIN table => new[k].status = "open"
               /\ \A k \in DOMAIN new \ DOMAIN found :
                     new[k] = table[k] /\ ~(table[k].status = "open" /\ table[k].detected < stamp)
               /\ \A k \in DOMAIN table :
                     table[k].status # "open" => k \in DOMAIN new /\ new[k].status = table[k].status
<1> DEFINE t == UpsertPredictiveRefresh(table, found, stamp)
           new == DeleteStalePredictiveRefresh(t, stamp)
<1>1. /\ DOMAIN t = DOMAIN table \cup DOMAIN found
      /\ \A k \in DOMAIN t \ DOMAIN found : t[k] = table[k]
      /\ \A k \in DOMAIN found :
            t[k] = [score |-> found[k].score, target |-> found[k].target, detected |-> stamp,
                    status |-> IF k \in DOMAIN table THEN table[k].status ELSE "open"]
  BY DEF UpsertPredictiveRefresh
<1> HIDE DEF t
<1>2. /\ DOMAIN new = {j \in DOMAIN t : ~(t[j].status = "open" /\ t[j].detected < stamp)}
      /\ \A k \in DOMAIN new : new[k] = t[k]
  BY DEF DeleteStalePredictiveRefresh
<1>3. ASSUME NEW k \in DOMAIN found
      PROVE  /\ t[k] = [score |-> t[k].score, target |-> t[k].target, detected |-> t[k].detected, status |-> t[k].status]
             /\ t[k].score = found[k].score /\ t[k].target = found[k].target
             /\ t[k].detected = stamp
             /\ k \in DOMAIN table => t[k].status = table[k].status
             /\ k \notin DOMAIN table => t[k].status = "open"
  <2>1. CASE k \in DOMAIN table
    <3>1. t[k] = [score |-> found[k].score, target |-> found[k].target, detected |-> stamp, status |-> table[k].status]
      BY <1>1, <2>1
    <3>2. QED
      BY <2>1, <3>1
  <2>2. CASE k \notin DOMAIN table
    <3>1. t[k] = [score |-> found[k].score, target |-> found[k].target, detected |-> stamp, status |-> "open"]
      BY <1>1, <2>2
    <3>2. QED
      BY <2>2, <3>1
  <2>3. QED
    BY <2>1, <2>2
<1> HIDE DEF new
<1>4. DOMAIN found \subseteq DOMAIN new
  <2>1. ~(stamp < stamp)
    OBVIOUS
  <2>2. QED
    BY <1>1, <1>2, <1>3, <2>1
<1>5. \A k \in DOMAIN table : table[k].status # "open" => k \in DOMAIN new /\ new[k].status = table[k].status
  BY <1>1, <1>2, <1>3
<1>6. \A k \in DOMAIN new \ DOMAIN found :
          new[k] = table[k] /\ ~(table[k].status = "open" /\ table[k].detected < stamp)
  BY <1>1, <1>2
<1>7. QED
  <2>1. \A k \in DOMAIN found : new[k] = t[k]
    BY <1>2, <1>4
  <2>2. \A k \in DOMAIN found :
            /\ new[k] = [score |-> new[k].score, target |-> new[k].target,
                         detected |-> new[k].detected, status |-> new[k].status]
            /\ new[k].score = found[k].score /\ new[k].target = found[k].target
            /\ new[k].detected = stamp
            /\ k \in DOMAIN table => new[k].status = table[k].status
            /\ k \notin DOMAIN table => new[k].status = "open"
    BY <1>3, <2>1
  <2>3. DOMAIN new \subseteq DOMAIN table \cup DOMAIN found
    BY <1>1, <1>2
  <2>4. QED
    BY <1>4, <1>5, <1>6, <2>2, <2>3 DEF new, t

LEMMA UpsertKeeps ==
    ASSUME RefreshInv, NEW p \in Scanners, ScanAndUpsert(p)
    PROVE  RefreshInv'
<1> DEFINE s == scan[p]
<1>1. s.at = "begun" /\ UNCHANGED <<lifecycle, today, stamps, specEdits>>
  BY DEF ScanAndUpsert
<1>2. s # NotScanning /\ HasBegun(s) /\ s.met \in BOOLEAN
  BY <1>1 DEF RefreshInv, ScansOK, NotScanning, HasRead
<1>3. \A day : /\ Found(ListAssetsForPredictiveScan, day)' = Found(ListAssetsForPredictiveScan, day)
               /\ Found(DOMAIN lifecycle, day)' = Found(DOMAIN lifecycle, day)
  BY <1>1, FoundStays
<1>4. ASSUME UNCHANGED <<recommendations, settled>>, scan' = [scan EXCEPT ![p] = NotScanning]
      PROVE  RefreshInv'
  <2>1. /\ scan' = [q \in Scanners |-> scan'[q]] /\ scan'[p] = NotScanning
        /\ \A q \in Scanners \ {p} : scan'[q] = scan[q]
    BY <1>4 DEF RefreshInv, ScansOK
  <2>2. ScansOK'
    BY <1>1, <1>3, <1>4, <2>1 DEF RefreshInv, ScansOK, HasRead, HasBegun
  <2>3. SettledOK'
    BY <1>1, <1>3, <1>4 DEF RefreshInv, SettledOK
  <2>4. QED
    BY <1>1, <1>4, <2>2, <2>3 DEF RefreshInv, RowsOK
<1>5. ASSUME recommendations' = DeleteStalePredictiveRefresh(
                 UpsertPredictiveRefresh(recommendations, s.found, s.stamp), s.stamp),
             scan' = [Disturbed EXCEPT ![p] = NotScanning],
             settled' = (~s.met /\ s.day = today)
      PROVE  RefreshInv'
  <2>1. s.stamp \in Nat /\ s.stamp <= stamps /\ stamps \in Nat
    BY <1>2 DEF HasBegun, RefreshInv
  <2> DEFINE found == s.found  new == recommendations'
  <2>2. /\ DOMAIN found \subseteq DOMAIN new
        /\ DOMAIN new \subseteq DOMAIN recommendations \cup DOMAIN found
        /\ \A k \in DOMAIN found :
              /\ new[k] = [score |-> new[k].score, target |-> new[k].target,
                           detected |-> new[k].detected, status |-> new[k].status]
              /\ new[k].score = found[k].score /\ new[k].target = found[k].target
              /\ new[k].detected = s.stamp
              /\ k \in DOMAIN recommendations => new[k].status = recommendations[k].status
              /\ k \notin DOMAIN recommendations => new[k].status = "open"
        /\ \A k \in DOMAIN new \ DOMAIN found :
              /\ new[k] = recommendations[k]
              /\ ~(recommendations[k].status = "open" /\ recommendations[k].detected < s.stamp)
    BY <1>5, <2>1, ScanLeaves
  <2>3. RowsOK'
    <3> SUFFICES ASSUME NEW k \in DOMAIN new
                 PROVE  /\ new[k] = [score |-> new[k].score, target |-> new[k].target,
                                     detected |-> new[k].detected, status |-> new[k].status]
                        /\ new[k].status \in Statuses
                        /\ new[k].detected \in Nat /\ new[k].detected <= stamps
      BY <1>1 DEF RowsOK
    <3> HIDE DEF new
    <3>1. CASE k \in DOMAIN found
      <4>1. new[k].status \in Statuses
        BY <2>2, <3>1 DEF RefreshInv, RowsOK, Statuses
      <4>2. QED
        BY <2>1, <2>2, <3>1, <4>1
    <3>2. CASE k \notin DOMAIN found
      BY <2>2, <3>2 DEF RefreshInv, RowsOK
    <3>3. QED
      BY <3>1, <3>2
  <2>4. ScansOK'
    <3>1. /\ scan' = [q \in Scanners |-> scan'[q]] /\ scan'[p] = NotScanning
          /\ \A q \in Scanners \ {p} : scan'[q] = Disturbed[q]
      BY <1>5, DisturbedIs
    <3>2. \A q \in Scanners : scan'[q] # NotScanning =>
              /\ scan'[q].met = TRUE
              /\ HasRead(scan'[q]) \/ HasBegun(scan'[q])
      BY <3>1, DisturbedIs
    <3>3. \A q \in Scanners : /\ HasBegun(scan'[q]) => HasBegun(scan[q])'
                              /\ HasRead(scan'[q]) => HasRead(scan[q])'
      BY <1>1 DEF HasBegun, HasRead
    <3>4. QED
      BY <3>1, <3>2, <3>3 DEF ScansOK
  <2>5. SettledOK'
    <3> SUFFICES ASSUME ~s.met, s.day = today
                 PROVE  LET f == Found(DOMAIN lifecycle, today)
                        IN  /\ DOMAIN f \subseteq DOMAIN new
                            /\ \A k \in DOMAIN new :
                                  IF k \in DOMAIN f
                                  THEN new[k].score = f[k].score /\ new[k].target = f[k].target
                                  ELSE new[k].status # "open"
      BY <1>1, <1>3, <1>5 DEF SettledOK
    <3>1. found = Found(DOMAIN lifecycle, today)
      BY <1>2, ScanSeesAll DEF RefreshInv, ScansOK
    <3>2. \A k \in DOMAIN recommendations : recommendations[k].detected < s.stamp
      BY <1>1, <1>2 DEF RefreshInv, ScansOK
    <3> HIDE DEF found, new
    <3>3. \A k \in DOMAIN found : new[k].score = found[k].score /\ new[k].target = found[k].target
      BY <2>2
    <3>4. \A k \in DOMAIN new \ DOMAIN found : new[k].status # "open"
      BY <2>2, <3>2
    <3>5. QED
      BY <2>2, <3>1, <3>3, <3>4
  <2>6. QED
    BY <1>1, <1>2, <1>5, <2>3, <2>4, <2>5 DEF RefreshInv
<1>6. QED
  BY <1>4, <1>5 DEF ScanAndUpsert

LEMMA AbandonKeeps ==
    ASSUME RefreshInv, NEW p \in Scanners, AbandonScan(p)
    PROVE  RefreshInv'
<1>1. /\ scan' = [scan EXCEPT ![p] = NotScanning]
      /\ UNCHANGED <<lifecycle, recommendations, today, stamps, specEdits, settled>>
  BY DEF AbandonScan
<1>2. /\ scan' = [q \in Scanners |-> scan'[q]] /\ scan'[p] = NotScanning
      /\ \A q \in Scanners \ {p} : scan'[q] = scan[q]
  BY <1>1 DEF RefreshInv, ScansOK
<1>3. \A day : Found(ListAssetsForPredictiveScan, day)' = Found(ListAssetsForPredictiveScan, day)
  BY <1>1, FoundStays
<1>4. ScansOK'
  BY <1>1, <1>2, <1>3 DEF RefreshInv, ScansOK, HasRead, HasBegun
<1>5. SettledOK'
  BY <1>1, SettledStays DEF RefreshInv
<1>6. QED
  BY <1>1, <1>4, <1>5 DEF RefreshInv, RowsOK

LEMMA TransitionKeeps ==
    ASSUME RefreshInv, NEW k \in DOMAIN recommendations, NEW status \in Statuses,
           TransitionPredictiveRefresh(k, status)
    PROVE  RefreshInv'
<1> DEFINE x == recommendations[k]
<1>1. /\ recommendations' = [recommendations EXCEPT ![k] = [x EXCEPT !.status = status]]
      /\ settled' = (settled /\ status # "open")
      /\ UNCHANGED <<lifecycle, scan, today, stamps, specEdits>>
  BY DEF TransitionPredictiveRefresh
<1>2. /\ x = [score |-> x.score, target |-> x.target, detected |-> x.detected, status |-> x.status]
      /\ x.detected \in Nat /\ x.detected <= stamps
  BY DEF RefreshInv, RowsOK
<1>3. /\ DOMAIN recommendations' = DOMAIN recommendations
      /\ \A j \in DOMAIN recommendations \ {k} : recommendations'[j] = recommendations[j]
      /\ recommendations'[k] = [x EXCEPT !.status = status]
  BY <1>1
<1> HIDE DEF x
<1>4. recommendations'[k] = [score |-> x.score, target |-> x.target, detected |-> x.detected, status |-> status]
  BY <1>2, <1>3
<1>5. /\ recommendations'[k].score = x.score /\ recommendations'[k].target = x.target
      /\ recommendations'[k].detected = x.detected /\ recommendations'[k].status = status
  BY <1>4
<1>6. RowsOK'
  <2> SUFFICES ASSUME NEW j \in DOMAIN recommendations
               PROVE  /\ recommendations'[j] = [score |-> recommendations'[j].score, target |-> recommendations'[j].target,
                                 detected |-> recommendations'[j].detected, status |-> recommendations'[j].status]
                      /\ recommendations'[j].status \in Statuses
                      /\ recommendations'[j].detected \in Nat /\ recommendations'[j].detected <= stamps
    BY <1>1, <1>3 DEF RowsOK
  <2>1. CASE j = k
    BY <1>2, <1>4, <1>5, <2>1
  <2>2. CASE j # k
    BY <1>3, <2>2 DEF RefreshInv, RowsOK
  <2>3. QED
    BY <2>1, <2>2
<1>7. \A j \in DOMAIN recommendations : recommendations'[j].detected = recommendations[j].detected
  BY <1>3, <1>5 DEF x
<1>8. \A day : Found(ListAssetsForPredictiveScan, day)' = Found(ListAssetsForPredictiveScan, day)
  BY <1>1, FoundStays
<1>9. ScansOK'
  BY <1>1, <1>3, <1>7, <1>8 DEF RefreshInv, ScansOK, HasRead, HasBegun
<1>10. SettledOK'
  <2> DEFINE f == Found(DOMAIN lifecycle, today)
  <2> SUFFICES ASSUME settled, status # "open"
               PROVE  /\ DOMAIN f \subseteq DOMAIN recommendations
                      /\ \A j \in DOMAIN recommendations :
                            IF j \in DOMAIN f
                            THEN recommendations'[j].score = f[j].score /\ recommendations'[j].target = f[j].target
                            ELSE recommendations'[j].status # "open"
    BY <1>1, <1>3, FoundStays DEF SettledOK
  <2>1. /\ DOMAIN f \subseteq DOMAIN recommendations
        /\ \A j \in DOMAIN recommendations :
              IF j \in DOMAIN f
              THEN recommendations[j].score = f[j].score /\ recommendations[j].target = f[j].target
              ELSE recommendations[j].status # "open"
    BY DEF RefreshInv, SettledOK
  <2> HIDE DEF f
  <2>2. QED
    BY <1>3, <1>5, <2>1 DEF x
<1>11. QED
  BY <1>1, <1>6, <1>9, <1>10 DEF RefreshInv

LEMMA UpdateKeeps ==
    ASSUME RefreshInv, NEW d \in Devices, NEW spec \in Specs, UpdateLifecycle(d, spec)
    PROVE  RefreshInv'
  BY DisturbedAreOK DEF UpdateLifecycle, RefreshInv, RowsOK, SettledOK

LEMMA RemoveKeeps ==
    ASSUME RefreshInv, NEW d \in Devices, RemoveDevice(d)
    PROVE  RefreshInv'
<1>1. /\ lifecycle' = [e \in DOMAIN lifecycle \ {d} |-> lifecycle[e]]
      /\ DOMAIN recommendations' = {j \in DOMAIN recommendations : j[1] # d}
      /\ \A k \in DOMAIN recommendations' : recommendations'[k] = recommendations[k]
      /\ scan' = Disturbed
      /\ UNCHANGED <<today, stamps, settled>>
  BY DEF RemoveDevice
<1>2. RowsOK'
  BY <1>1 DEF RefreshInv, RowsOK
<1>3. ScansOK'
  BY <1>1, DisturbedAreOK
<1>4. SettledOK'
  <2> DEFINE f == Found(DOMAIN lifecycle, today)
             g == Found(DOMAIN lifecycle, today)'
  <2>1. f = FoundOf(lifecycle, DOMAIN lifecycle, today) /\ g = FoundOf(lifecycle', DOMAIN lifecycle', today)
    BY <1>1 DEF Found, FoundOf
  <2>2. DOMAIN g = {k \in DOMAIN f : k[1] # d} /\ \A k \in DOMAIN g : g[k] = f[k]
    <3> HIDE DEF f, g
    <3> DEFINE F == FoundOf(lifecycle, DOMAIN lifecycle, today)
               G == FoundOf(lifecycle', DOMAIN lifecycle', today)
    <3>1. /\ \A k : k \in DOMAIN G <=> (k \in DOMAIN F /\ k[1] # d)
          /\ \A k \in DOMAIN G : G[k] = F[k]
      <4>1. Without(lifecycle', lifecycle, d)
        BY <1>1 DEF Without
      <4>2. QED
        BY <4>1, FoundWithout
    <3> HIDE DEF F, G
    <3>2. f = F /\ g = G
      BY <2>1 DEF F, G
    <3>3. QED
      BY <3>1, <3>2
  <2>3. ASSUME settled
        PROVE  /\ DOMAIN f \subseteq DOMAIN recommendations
               /\ \A k \in DOMAIN recommendations :
                     IF k \in DOMAIN f
                     THEN recommendations[k].score = f[k].score /\ recommendations[k].target = f[k].target
                     ELSE recommendations[k].status # "open"
    BY <2>3 DEF RefreshInv, SettledOK
  <2>4. SettledOK' = (settled' =>
            /\ DOMAIN g \subseteq DOMAIN recommendations'
            /\ \A k \in DOMAIN recommendations' :
                  IF k \in DOMAIN g
                  THEN recommendations'[k].score = g[k].score /\ recommendations'[k].target = g[k].target
                  ELSE recommendations'[k].status # "open")
    BY DEF SettledOK
  <2> HIDE DEF f, g
  <2>5. QED
    BY <1>1, <2>2, <2>3, <2>4
<1>5. QED
  BY <1>1, <1>2, <1>3, <1>4 DEF RefreshInv

LEMMA DayKeeps == ASSUME RefreshInv, NextDay PROVE RefreshInv'
<1>1. settled' = FALSE /\ UNCHANGED <<lifecycle, recommendations, scan, stamps, specEdits>>
  BY DEF NextDay
<1>2. \A day : Found(ListAssetsForPredictiveScan, day)' = Found(ListAssetsForPredictiveScan, day)
  BY <1>1, FoundStays
<1>3. ScansOK'
  BY <1>1, <1>2 DEF RefreshInv, ScansOK, HasRead, HasBegun
<1>4. QED
  BY <1>1, <1>3 DEF RefreshInv, RowsOK, SettledOK

LEMMA RefreshStep == ASSUME RefreshInv, [RefreshNext]_refreshVars PROVE RefreshInv'
<1>1. CASE UNCHANGED refreshVars
  <2>1. UNCHANGED <<lifecycle, recommendations, scan, today, stamps, settled>>
    BY <1>1 DEF refreshVars
  <2>2. \A day : Found(ListAssetsForPredictiveScan, day)' = Found(ListAssetsForPredictiveScan, day)
    BY <2>1, FoundStays
  <2>3. ScansOK'
    BY <2>1, <2>2 DEF RefreshInv, ScansOK, HasRead, HasBegun
  <2>4. SettledOK'
    BY <2>1, SettledStays DEF RefreshInv
  <2>5. QED
    BY <2>1, <2>3, <2>4 DEF RefreshInv, RowsOK
<1>2. CASE RefreshNext
  BY <1>2, ReadKeeps, BeginKeeps, UpsertKeeps, AbandonKeeps, TransitionKeeps, UpdateKeeps, RemoveKeeps, DayKeeps
     DEF RefreshNext, RunScanTick, RunPredictiveRefreshScan
<1>3. QED
  BY <1>1, <1>2

\* Rows that agree with the matches one by one agree in number, and month by month.
LEMMA MatchingRows == ASSUME RefreshInv PROVE OpenRowsMatchTheRules
<1> SUFFICES ASSUME settled, NEW found, found = Found(DOMAIN lifecycle, today),
                    NEW closed, closed = ListPredictiveRefresh("ack") \cup ListPredictiveRefresh("resolved")
             PROVE  /\ ListPredictiveRefresh("open") = DOMAIN found \ closed
                    /\ \A k \in DOMAIN found :
                          /\ recommendations[k].score = found[k].score
                          /\ AggregatePredictiveRefreshByMonth(found[k].target)
                                = Cardinality({j \in DOMAIN found \ closed : found[j].target = found[k].target})
  BY DEF OpenRowsMatchTheRules, CountPredictiveRefresh
<1>1. /\ DOMAIN found \subseteq DOMAIN recommendations
      /\ \A k \in DOMAIN recommendations :
            IF k \in DOMAIN found
            THEN recommendations[k].score = found[k].score /\ recommendations[k].target = found[k].target
            ELSE recommendations[k].status # "open"
  BY DEF RefreshInv, SettledOK
<1>2. \A k \in DOMAIN recommendations : recommendations[k].status \in {"open", "ack", "resolved"}
  BY DEF RefreshInv, RowsOK, Statuses
<1>3. ListPredictiveRefresh("open") = DOMAIN found \ closed
  BY <1>1, <1>2 DEF ListPredictiveRefresh
<1>4. ASSUME NEW month
      PROVE  {k \in ListPredictiveRefresh("open") : recommendations[k].target = month}
                 = {j \in DOMAIN found \ closed : found[j].target = month}
  BY <1>1, <1>3
<1>5. QED
  BY <1>1, <1>3, <1>4 DEF AggregatePredictiveRefreshByMonth

\* A step that is a scan's keeps the rows that were reviewed.
LEMMA ReviewedStay ==
    ASSUME RefreshInv, [RefreshNext]_refreshVars, scan' # scan,
           NEW k \in DOMAIN recommendations, recommendations[k].status # "open", k[1] \in DOMAIN lifecycle'
    PROVE  k \in DOMAIN recommendations' /\ recommendations'[k].status = recommendations[k].status
<1>1. ASSUME NEW p \in Scanners, ReadAssets(p) \/ BeginScan(p) \/ AbandonScan(p)
      PROVE  recommendations' = recommendations
  BY <1>1 DEF ReadAssets, BeginScan, AbandonScan
<1>2. ASSUME NEW p \in Scanners, ScanAndUpsert(p)
      PROVE  k \in DOMAIN recommendations' /\ recommendations'[k].status = recommendations[k].status
  <2>1. CASE recommendations' = recommendations
    BY <2>1
  <2>2. CASE recommendations' = DeleteStalePredictiveRefresh(
                 UpsertPredictiveRefresh(recommendations, scan[p].found, scan[p].stamp), scan[p].stamp)
    <3>1. scan[p].stamp \in Nat
      BY <1>2 DEF ScanAndUpsert, RefreshInv, ScansOK, NotScanning, HasRead, HasBegun
    <3>2. QED
      BY <2>2, <3>1, ScanLeaves
  <2>3. QED
    BY <1>2, <2>1, <2>2 DEF ScanAndUpsert
<1>3. ASSUME NEW d \in Devices, RemoveDevice(d)
      PROVE  k \in DOMAIN recommendations' /\ recommendations'[k].status = recommendations[k].status
  BY <1>3 DEF RemoveDevice
<1>4. ASSUME NEW d \in Devices, NEW spec \in Specs, UpdateLifecycle(d, spec)
      PROVE  recommendations' = recommendations
  BY <1>4 DEF UpdateLifecycle
<1>5. CASE NextDay
  BY <1>5 DEF NextDay
<1>6. ASSUME NEW j \in DOMAIN recommendations, NEW status \in Statuses, TransitionPredictiveRefresh(j, status)
      PROVE  FALSE
  BY <1>6 DEF TransitionPredictiveRefresh
<1>7. RefreshNext
  BY DEF refreshVars
<1>8. QED
  BY <1>1, <1>2, <1>3, <1>4, <1>5, <1>6, <1>7 DEF RefreshNext, RunScanTick, RunPredictiveRefreshScan

\* The recommendations are the rules' and the reviews the operators' (refresh.go:72).
THEOREM RecommendationsStand == RefreshSpec => RecommendationsAreSound
<1>1. RefreshInv => OpenRowsMatchTheRules
  BY MatchingRows
<1>2. RefreshInv /\ [RefreshNext]_refreshVars =>
          [scan' # scan =>
              \A k \in DOMAIN recommendations :
                  recommendations[k].status # "open" /\ k[1] \in DOMAIN lifecycle' =>
                      k \in DOMAIN recommendations' /\ recommendations'[k].status = recommendations[k].status
          ]_refreshVars
  BY ReviewedStay
<1>3. QED
  BY <1>1, <1>2, RefreshStart, RefreshStep, PTL DEF RefreshSpec, RecommendationsAreSound, ReviewsOutliveScans
==============================================================================
