---------------------------- MODULE SecretRotation ----------------------------
(***************************************************************************)
(* The encrypted columns of the integrations: adapter configs and webhook  *)
(* secrets, the key ring each server holds                                 *)
(* (internal/platform/crypto/keyring.go), the requests that save them, the *)
(* command that encrypts rows of older releases, the command that moves    *)
(* rows to a new key, and the operators who bring the new key in and take  *)
(* the old one out.                                                        *)
(*                                                                         *)
(* A ciphertext is the key version it names and what it decrypts to;       *)
(* version 0 stands for the bytes without a prefix, which key 1 wrote.     *)
(* The operators go from key 1 to key 2 as section 8 of                    *)
(* docs/integration-encryption-deployment.md says; ActiveMeanwhile is the  *)
(* selector they set while servers are given the second key.               *)
(*                                                                         *)
(* Abstracted: dry runs and counts, tenants, endpoints and other columns.  *)
(* Each command runs once at a time.  MaxFailures bounds failed statements *)
(* and commands that die.                                                  *)
(***************************************************************************)
EXTENDS Naturals

CONSTANTS
    Adapters,         \* rows of integration_adapters
    Webhooks,         \* rows of webhook_subscriptions
    Servers,
    Configs,          \* configs and secrets with something in them
    Empty,            \* '{}' and ''
    Null,             \* SQL NULL
    ActiveMeanwhile,  \* CMDB_SECRET_KEY_ACTIVE of stage 2, 0 if it is not set
    MaxFailures

ASSUME SecretAssumption ==
    /\ Adapters \cap Webhooks = {}
    /\ Empty \notin Configs
    /\ Null \notin Configs \cup {Empty}
    /\ Null \notin [version : 0 .. 2, value : Configs \cup {Empty}]
    /\ Null \notin Adapters \cup Webhooks
    /\ ActiveMeanwhile \in {0, 1}
    /\ MaxFailures \in Nat

VARIABLES
    row,       \* the two columns of each row
    stage,     \* the environment processes are started with
    ring,      \* the environment each server was started with
    req,       \* the save each server is handling
    rotation,  \* the rotate command
    backfill,  \* the backfill command
    failures

vars == <<row, stage, ring, req, rotation, backfill, failures>>

Rows == Adapters \cup Webhooks
Values == Configs \cup {Empty}
Sealed == [version : 0 .. 2, value : Values]

------------------------------------------------------------------------------
(* The key ring.                                                           *)

\* 1: before the rotation.  2: the new key is there.  3: and is active.
\* 4: the old key is gone.  A selector of 0 is one that is not set.
Stages == 1 .. 4

Keys(e) == IF e = 1 THEN {1} ELSE IF e = 4 THEN {2} ELSE {1, 2}

Selector(e) == IF e = 2 THEN ActiveMeanwhile ELSE IF e = 3 THEN 2 ELSE 0

resolveActiveVersion(e) ==
    IF Selector(e) # 0 THEN Selector(e) ELSE IF 2 \in Keys(e) THEN 2 ELSE 1

Encrypt(e, v) == [version |-> resolveActiveVersion(e), value |-> v]

\* The key a ciphertext needs.
parseVersionPrefix(c) == IF c.version = 0 THEN 1 ELSE c.version

Decrypts(e, c) == parseVersionPrefix(c) \in Keys(e)

------------------------------------------------------------------------------
Row == [state : {"unborn", "here", "deleted"}, plain : Values \cup {Null}, sealed : Sealed \cup {Null}]

Here(r) == row[r].state = "here"

Idle == [op |-> "none", row |-> Null, plain |-> Null, sealed |-> Null]

Request == [op : {"create", "update"}, row : Rows, plain : Values \cup {Null}, sealed : Sealed \cup {Null}]

Tables == {"none", "adapters", "webhooks"}

\* hand: the rows the SELECT returned and the loop has not reached, each with its
\* column as the SELECT saw it.
Rotation == [table : Tables, hand : [Rows -> Sealed \cup {Null}]]
Backfill == [table : Tables, hand : [Rows -> Values \cup {Null}], stage : Stages]

Nothing == [r \in Rows |-> Null]
NoRotation == [table |-> "none", hand |-> Nothing]
NoBackfill == [table |-> "none", hand |-> Nothing, stage |-> 1]

\* Rows that were never encrypted, by the release without key versions, and by
\* the one with them; a webhook may have no secret.
Init ==
    /\ row \in [Rows -> {x \in Row :
            \/ x.plain = Null /\ x.sealed = Null /\ x.state = "unborn"
            \/ x.state = "here" /\ x.plain \in Values
               /\ x.sealed \in {Null} \cup [version : 0 .. 1, value : {x.plain}]
            \/ x.state = "here" /\ x.plain = Null /\ x.sealed = Null}]
    /\ \A a \in Adapters : Here(a) => row[a].plain # Null
    /\ stage = 1
    /\ ring = [s \in Servers |-> 1]
    /\ req = [s \in Servers |-> Idle]
    /\ rotation = NoRotation
    /\ backfill = NoBackfill
    /\ failures = 0

------------------------------------------------------------------------------
(* Requests.  The value is encrypted first and both columns are written in *)
(* one statement.                                                          *)

\* An adapter without a config gets an empty one, a webhook without a secret
\* has none.
Create(s, r, v) ==
    /\ req[s] = Idle
    /\ row[r].state = "unborn"
    /\ \A t \in Servers : req[t].row # r
    /\ r \in Adapters => v # Null
    /\ req' = [req EXCEPT ![s] = [op |-> "create", row |-> r, plain |-> v,
                                  sealed |-> IF v = Null THEN Null ELSE Encrypt(ring[s], v)]]
    /\ UNCHANGED <<row, stage, ring, rotation, backfill, failures>>

\* A request without the field leaves both columns and is not modelled.
Update(s, r, v) ==
    /\ req[s] = Idle
    /\ Here(r)
    /\ req' = [req EXCEPT ![s] = [op |-> "update", row |-> r, plain |-> v,
                                  sealed |-> Encrypt(ring[s], v)]]
    /\ UNCHANGED <<row, stage, ring, rotation, backfill, failures>>

Store(q) ==
    row' = [row EXCEPT ![q.row] = [state |-> "here", plain |-> q.plain, sealed |-> q.sealed]]

\* An update that finds its row deleted is answered with an error.
Write(s) ==
    /\ req[s] # Idle
    /\ IF req[s].op = "create" \/ Here(req[s].row)
       THEN Store(req[s])
       ELSE UNCHANGED row
    /\ req' = [req EXCEPT ![s] = Idle]
    /\ UNCHANGED <<stage, ring, rotation, backfill, failures>>

Delete(r) ==
    /\ Here(r)
    /\ row' = [row EXCEPT ![r] = [state |-> "deleted", plain |-> Null, sealed |-> Null]]
    /\ UNCHANGED <<stage, ring, req, rotation, backfill, failures>>

------------------------------------------------------------------------------
(* The rotate command: the rows of one table whose ciphertext does not     *)
(* start with the active version, then the other table's.                  *)

Active == resolveActiveVersion(stage)

\* Mutant: bytes without a prefix are not looked for.
Candidate_Prefixed(r) == Here(r) /\ row[r].sealed # Null /\ row[r].sealed.version = 1

Candidate(r) == Here(r) /\ row[r].sealed # Null /\ row[r].sealed.version # Active

Seal(r, c) == row' = [row EXCEPT ![r] = [state |-> "here", plain |-> row[r].plain, sealed |-> c]]

Fail == failures < MaxFailures /\ failures' = failures + 1

Select(table, rows) ==
    rotation' = [table |-> table,
                 hand |-> [r \in Rows |-> IF r \in rows /\ Candidate(r) THEN row[r].sealed ELSE Null]]

\* Prerequisites of the command: the new key is active on every server.
rotateAdapters ==
    /\ rotation.table = "none"
    /\ stage = 3
    /\ \A s \in Servers : ring[s] = 3
    /\ \E r \in Rows : Here(r) /\ row[r].sealed # Null /\ row[r].sealed.version # 2
    /\ Select("adapters", Adapters)
    /\ UNCHANGED <<row, stage, ring, req, backfill, failures>>

rotateWebhooks ==
    /\ rotation.table = "adapters"
    /\ rotation.hand = Nothing
    /\ Select("webhooks", Webhooks)
    /\ UNCHANGED <<row, stage, ring, req, backfill, failures>>

\* Mutant: the UPDATE goes by the row's identity alone.
Stale_Unchecked(r) == Here(r)

\* The UPDATE's predicate: the row still is a candidate, whatever it holds now.
Stale(r) == Candidate(r)

Reached(r) == rotation' = [table |-> rotation.table, hand |-> [rotation.hand EXCEPT ![r] = Null]]

\* A row that cannot be decrypted is counted and left alone.
RotateRow(r) ==
    /\ rotation.hand[r] # Null
    /\ IF Decrypts(stage, rotation.hand[r]) /\ Stale(r)
       THEN Seal(r, Encrypt(stage, rotation.hand[r].value))
       ELSE UNCHANGED row
    /\ Reached(r)
    /\ UNCHANGED <<stage, ring, req, backfill, failures>>

RotateRowFails(r) ==
    /\ rotation.hand[r] # Null
    /\ Fail
    /\ Reached(r)
    /\ UNCHANGED <<row, stage, ring, req, backfill>>

RotationEnds ==
    /\ \/ rotation.table = "webhooks" /\ rotation.hand = Nothing /\ UNCHANGED failures
       \/ rotation.table # "none" /\ Fail
    /\ rotation' = NoRotation
    /\ UNCHANGED <<row, stage, ring, req, backfill>>

------------------------------------------------------------------------------
(* The backfill command: rows with something in the plain column and no    *)
(* ciphertext.  It may be run at any time, with the environment of then.   *)

Unencrypted(r) == Here(r) /\ row[r].plain \in Configs /\ row[r].sealed = Null

List(table, rows, e) ==
    backfill' = [table |-> table, stage |-> e,
                 hand |-> [r \in Rows |-> IF r \in rows /\ Unencrypted(r) THEN row[r].plain ELSE Null]]

backfillAdapters ==
    /\ backfill.table = "none"
    /\ \E r \in Rows : Unencrypted(r)
    /\ List("adapters", Adapters, stage)
    /\ UNCHANGED <<row, stage, ring, req, rotation, failures>>

backfillWebhooks ==
    /\ backfill.table = "adapters"
    /\ backfill.hand = Nothing
    /\ List("webhooks", Webhooks, backfill.stage)
    /\ UNCHANGED <<row, stage, ring, req, rotation, failures>>

Filled(r) == backfill' = [table |-> backfill.table, stage |-> backfill.stage,
                         hand |-> [backfill.hand EXCEPT ![r] = Null]]

BackfillRow(r) ==
    /\ backfill.hand[r] # Null
    /\ IF Here(r) /\ row[r].sealed = Null
       THEN Seal(r, Encrypt(backfill.stage, backfill.hand[r]))
       ELSE UNCHANGED row
    /\ Filled(r)
    /\ UNCHANGED <<stage, ring, req, rotation, failures>>

BackfillRowFails(r) ==
    /\ backfill.hand[r] # Null
    /\ Fail
    /\ Filled(r)
    /\ UNCHANGED <<row, stage, ring, req, rotation>>

BackfillEnds ==
    /\ \/ backfill.table = "webhooks" /\ backfill.hand = Nothing /\ UNCHANGED failures
       \/ backfill.table # "none" /\ Fail
    /\ backfill' = NoBackfill
    /\ UNCHANGED <<row, stage, ring, req, rotation>>

------------------------------------------------------------------------------
(* The operators.                                                          *)

\* A server is replaced; what it was handling is lost.
Restart(s) ==
    /\ ring' = [ring EXCEPT ![s] = stage]
    /\ req' = [req EXCEPT ![s] = Idle]
    /\ UNCHANGED <<row, stage, rotation, backfill, failures>>

\* The query of section 8.5: no ciphertext of the old key.
PreActive == {r \in Rows : Here(r) /\ row[r].sealed # Null /\ row[r].sealed.version # 2}

\* Every server has been restarted with the last change before the next one.
\* The old key goes when none of its ciphertexts is left, a release later: a
\* command lives for thirty minutes.
NextStage ==
    /\ stage < 4
    /\ \A s \in Servers : ring[s] = stage
    /\ stage = 3 => PreActive = {} /\ rotation = NoRotation
                    /\ (backfill.table # "none" => backfill.stage = 3)
    /\ stage' = stage + 1
    /\ UNCHANGED <<row, ring, req, rotation, backfill, failures>>

------------------------------------------------------------------------------
(* The divergence sampler, which reads rows whose two columns are filled   *)
(* and counts those that are not the same secret.                          *)

Sampled(r) == Here(r) /\ row[r].plain \in Configs /\ row[r].sealed # Null

Diverges(e, r) == ~Decrypts(e, row[r].sealed) \/ row[r].sealed.value # row[r].plain

checkAdapterDivergence(s) == {a \in Adapters : Sampled(a) /\ Diverges(ring[s], a)}

checkWebhookDivergence(s) == {w \in Webhooks : Sampled(w) /\ Diverges(ring[s], w)}

runDivergenceCheck(s) == checkAdapterDivergence(s) \cup checkWebhookDivergence(s)

------------------------------------------------------------------------------
Rotate == rotateAdapters \/ rotateWebhooks \/ RotationEnds \/ \E r \in Rows : RotateRow(r)

DoBackfill == backfillAdapters \/ backfillWebhooks \/ BackfillEnds \/ \E r \in Rows : BackfillRow(r)

Next ==
    \/ \E s \in Servers, r \in Rows : \/ \E v \in Values \cup {Null} : Create(s, r, v)
                                      \/ \E v \in Values : Update(s, r, v)
    \/ \E s \in Servers : Write(s) \/ Restart(s)
    \/ \E r \in Rows : Delete(r) \/ RotateRowFails(r) \/ BackfillRowFails(r)
    \/ Rotate
    \/ DoBackfill
    \/ NextStage

\* Requests and commands end, and the operators see the rotation through: they
\* replace servers, run the commands again and move on when they may.
Fairness ==
    /\ \A s \in Servers : WF_vars(Write(s)) /\ WF_vars(ring[s] # stage /\ Restart(s))
    /\ WF_vars(Rotate)
    /\ WF_vars(DoBackfill)
    /\ WF_vars(NextStage)

Spec == Init /\ [][Next]_vars /\ Fairness

------------------------------------------------------------------------------
TypeOK ==
    /\ row \in [Rows -> Row]
    /\ stage \in Stages
    /\ ring \in [Servers -> Stages]
    /\ req \in [Servers -> Request \cup {Idle}]
    /\ rotation \in Rotation
    /\ backfill \in Backfill
    /\ failures \in 0 .. MaxFailures

\* rotate-integration-secrets/main.go:217 "a concurrent writer that beats us to
\* the row doesn't get clobbered" and the columns compared by divergence.go: what
\* the ciphertext decrypts to is what was saved last, whichever requests and
\* commands overlapped with the save.
SavedSecretIsServed ==
    \A r \in Rows : Here(r) /\ row[r].sealed # Null => row[r].sealed.value = row[r].plain

\* keyring.go "a drop-in replacement at every call site": no server, old or
\* restarted, meets a ciphertext it has no key for, from the first restart with
\* the new key to the last without the old one.
EveryServerReads ==
    \A s \in Servers, r \in Rows :
        Here(r) /\ row[r].sealed # Null => Decrypts(ring[s], row[r].sealed)

\* rotate-integration-secrets/main.go "every row ends up at the active KeyRing
\* version": the rotation ends with no row and no server on the old key, though
\* rows are saved, encrypted and deleted meanwhile.
RotationCompletes == <>[](PreActive = {} /\ \A s \in Servers : ring[s] = 4)

\* divergence.go "Any mismatch increments
\* telemetry.IntegrationDualWriteDivergenceTotal": whichever server samples the
\* tables, and whenever it does, it has nothing to count.
SamplerStaysSilent == \A s \in Servers : runDivergenceCheck(s) = {}

\* Through a rotation every ciphertext stays readable and holds what was saved,
\* and the sampler agrees.
SecretsStayReadable == SavedSecretIsServed /\ EveryServerReads /\ SamplerStaysSilent

\* What an adapter's puller and a webhook's dispatcher get of a row: nothing of
\* one that is not there or that they have no key for.
DecryptWithFallback(s, r) ==
    IF ~Here(r) THEN {}
    ELSE IF row[r].sealed = Null THEN {row[r].plain}
    ELSE IF Decrypts(ring[s], row[r].sealed) THEN {row[r].sealed.value} ELSE {}

lifeOf == [r \in Rows |-> row[r].state]
readsOf == [s \in Servers |-> [r \in Rows |-> DecryptWithFallback(s, r)]]
askedOf == [s \in Servers |-> IF req[s] = Idle THEN {} ELSE {<<req[s].row, req[s].plain>>}]

\* To whoever reads rows, on whichever server, a rotation shows in nothing: not
\* the commands and their failures, not the restarts, not the keys that come and
\* go.  A row is what was saved last, everywhere from the same moment.
Vault == INSTANCE SecretVault WITH life <- lifeOf, reads <- readsOf, asked <- askedOf
ImplementsVault == Vault!VaultSpec
==============================================================================
