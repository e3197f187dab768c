---------------------------- MODULE ReviewOutcome ----------------------------
(***************************************************************************)
(* What the review of discovered rows promises (the contract above         *)
(* ApproveAndCreateAsset, discovery/service.go), with no requests, no      *)
(* locks and no transactions: a verdict, the asset it makes, the link to   *)
(* it and the audit event are one step, a row gets one asset for good, and *)
(* whoever is told of an asset is told of that one.  AssetRecords is shown *)
(* to implement this module.                                               *)
(***************************************************************************)
CONSTANTS
    Discovered,     \* rows to review
    AssetIds,
    NoAsset

VARIABLES
    verdict,    \* what a reader of the row sees
    link,       \* the asset a row is approved with
    made,       \* the assets there are that came of a row, each with its row
    record,     \* the audit events
    told        \* what approvals have answered: the row and its asset

outcomeVars == <<verdict, link, made, record, told>>

OutcomeInit ==
    /\ verdict = [d \in Discovered |-> "none"]
    /\ link = [d \in Discovered |-> NoAsset]
    /\ made = {}
    /\ record = {}
    /\ told = {}

\* A device is discovered once.
Report(d) ==
    /\ verdict[d] = "none"
    /\ verdict' = [verdict EXCEPT ![d] = "open"]
    /\ UNCHANGED <<link, made, record, told>>

\* A verdict shows together with its audit event.
Pronounce(d, v) ==
    /\ verdict[d] # "none"
    /\ verdict' = [verdict EXCEPT ![d] = v]
    /\ record' = record \cup {<<v, d>>}

\* A row without an asset gets a new one; the answer may be lost.
Approve(d, a) ==
    /\ link[d] = NoAsset
    /\ Pronounce(d, "approved")
    /\ \A e \in Discovered : <<e, a>> \notin made
    /\ link' = [link EXCEPT ![d] = a]
    /\ made' = made \cup {<<d, a>>}
    /\ told' \in {told, told \cup {<<d, a>>}}

\* The asset of a row that has one stays.
Ignore(d) ==
    /\ Pronounce(d, "ignored")
    /\ UNCHANGED <<link, made, told>>

\* A second approval is answered with the asset of the first.
Repeat(d) ==
    /\ link[d] # NoAsset
    /\ told' = told \cup {<<d, link[d]>>}
    /\ UNCHANGED <<verdict, link, made, record>>

OutcomeNext ==
    \E d \in Discovered :
        \/ Report(d) \/ Ignore(d) \/ Repeat(d)
        \/ \E a \in AssetIds : Approve(d, a)

OutcomeSpec == OutcomeInit /\ [][OutcomeNext]_outcomeVars
==============================================================================
