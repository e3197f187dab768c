----------------------------- MODULE SecretVault -----------------------------
(***************************************************************************)
(* What the encrypted columns promise to their readers (KeyRing is a       *)
(* "drop-in replacement at every call site", platform/crypto/keyring.go),  *)
(* with no keys, no ciphertexts, no rotation and no restarts: every server *)
(* reads of a row what was saved last, from the moment it is saved.        *)
(* SecretRotation is shown to implement this module.                       *)
(***************************************************************************)
CONSTANTS
    Rows,       \* adapters and webhooks
    Servers,
    Values,     \* configs and secrets
    Null        \* SQL NULL

VARIABLES
    life,       \* whether each row is there yet, is there, or was
    reads,      \* what each server can read of each row: nothing, or one value
    asked       \* what each server has been asked to save: nothing, or a row and its value

vaultVars == <<life, reads, asked>>

VaultInit ==
    /\ life \in [Rows -> {"unborn", "here"}]
    /\ \E kept \in [Rows -> Values \cup {Null}] :
          reads = [s \in Servers |-> [r \in Rows |-> IF life[r] = "here" THEN {kept[r]} ELSE {}]]
    /\ asked = [s \in Servers |-> {}]

Ask(s, r, v) ==
    /\ asked[s] = {}
    /\ asked' = [asked EXCEPT ![s] = {<<r, v>>}]
    /\ UNCHANGED <<life, reads>>

\* All servers change what they read at one instant.
Holds(r, values) == reads' = [s \in Servers |-> [reads[s] EXCEPT ![r] = values]]

\* A value comes into a row because somebody asked for it, once.
Save(s, r, v) ==
    /\ asked[s] = {<<r, v>>}
    /\ life[r] \in {"unborn", "here"}
    /\ life' = [life EXCEPT ![r] = "here"]
    /\ Holds(r, {v})
    /\ asked' = [asked EXCEPT ![s] = {}]

\* The server dies, or the row is gone.
Drop(s) ==
    /\ asked' = [asked EXCEPT ![s] = {}]
    /\ UNCHANGED <<life, reads>>

Remove(r) ==
    /\ life[r] = "here"
    /\ life' = [life EXCEPT ![r] = "deleted"]
    /\ Holds(r, {})
    /\ UNCHANGED asked

VaultNext ==
    \/ \E s \in Servers : Drop(s)
    \/ \E r \in Rows : Remove(r)
    \/ \E s \in Servers, r \in Rows, v \in Values \cup {Null} : Save(s, r, v) \/ Ask(s, r, v)

VaultSpec == VaultInit /\ [][VaultNext]_vaultVars
==============================================================================
