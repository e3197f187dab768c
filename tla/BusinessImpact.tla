---------------------------- MODULE BusinessImpact ----------------------------
(***************************************************************************)
(* Business impact assessments and the level they give to assets           *)
(* (internal/domain/bia, internal/api/impl_bia.go).  An asset's bia_level  *)
(* is stored, and recomputed by one UPDATE over the tiers of the           *)
(* assessments that depend on it.  PostgreSQL runs READ COMMITTED: the     *)
(* UPDATE computes the tiers on the snapshot it starts with, waits for the *)
(* rows other transactions hold, and writes what it computed.              *)
(***************************************************************************)
EXTENDS Naturals, FiniteSets

CONSTANTS
    Assessments, Assets,
    Clients,            \* requests, on any replica
    Tiers,              \* of the four, those the instance uses
    MaxErrors, MaxHandEdits     \* bounds

ASSUME TiersAssumption == Tiers \subseteq {"critical", "important", "normal", "minor"}

VARIABLES
    tier,       \* bia_assessments: absent, deleted, or the tier
    links,      \* bia_dependencies, pairs <<assessment, asset>>
    level,      \* assets.bia_level
    request,    \* what each request is doing
    adrift,     \* the assets whose level was last set by something other than an undisturbed recomputation
    errors, handEdits

impactVars == <<tier, links, level, request, adrift, errors, handEdits>>

Exists(x) == tier[x] \in Tiers

\* The CASE over array_agg(tier); no assessment at all falls back to 'normal'.
MaxTier(tiers) ==
    IF tiers = {} THEN "normal"
    ELSE IF "critical" \in tiers THEN "critical"
    ELSE IF "important" \in tiers THEN "important"
    ELSE IF "normal" \in tiers THEN "normal"
    ELSE "minor"

Depending(linked, a) == {x \in Assessments : <<x, a>> \in linked}
LevelOf(linked, a) == MaxTier({tier[x] : x \in Depending(linked, a)})

PropagateBIALevelByAssessment_OwnTier(x, linked) ==
    [a \in {b \in Assets : <<x, b>> \in linked} |-> MaxTier({tier[x]})]

\* PropagateBIALevelByAssessment, RecomputeBIALevelForAsset: what the statement
\* computes for each asset it will update, on the links the transaction sees.
PropagateBIALevelByAssessment(x, linked) ==
    [a \in {b \in Assets : <<x, b>> \in linked} |-> LevelOf(linked, a)]
RecomputeBIALevelForAsset(a, linked) == [b \in {a} |-> LevelOf(linked, b)]

NoRequest == [op |-> "none"]
\* found is what the UPDATE computed, stale the assets among them whose tiers
\* another request has changed since.
Computed(op, x, a, found) == [op |-> op, x |-> x, a |-> a, found |-> found, stale |-> {}]

Starts(r, q) == request[r] = NoRequest /\ request' = [request EXCEPT ![r] = q]

\* Whoever has computed a level for one of S holds a stale value.
Disturb(r, after, S) ==
    [q \in Clients |->
        IF q = r THEN after
        ELSE IF request[q].op \in {"create", "delete", "propagate"}
        THEN [request[q] EXCEPT !.stale = @ \cup (S \cap DOMAIN request[q].found)]
        ELSE request[q]]

\* The UPDATE gets its rows and writes them; its transaction commits.
Overwrite(q) ==
    /\ level' = [a \in Assets |-> IF a \in DOMAIN q.found THEN q.found[a] ELSE level[a]]
    /\ adrift' = (adrift \ DOMAIN q.found) \cup q.stale

ImpactInit ==
    /\ tier = [x \in Assessments |-> "absent"]
    /\ links = {}
    /\ level = [a \in Assets |-> "normal"]
    /\ request = [r \in Clients |-> NoRequest]
    /\ adrift = {}
    /\ errors = 0
    /\ handEdits = 0

CreateAssessment(x, t) ==
    /\ tier[x] = "absent"
    /\ tier' = [tier EXCEPT ![x] = t]
    /\ UNCHANGED <<links, level, request, adrift, errors, handEdits>>

\* An open transaction holds the pair: UNIQUE (assessment_id, asset_id) and the
\* row lock of a DELETE make the next one wait.
PairHeld(x, a) == \E r \in Clients : request[r].op \in {"create", "delete"}
                                     /\ request[r].x = x /\ request[r].a = a

\* CreateDependency: the tenant's assessment, the INSERT, and the propagation up
\* to the rows it will write.
CreateDependency(r, x, a) ==
    /\ Exists(x) /\ <<x, a>> \notin links /\ ~PairHeld(x, a)
    /\ Starts(r, Computed("create", x, a, PropagateBIALevelByAssessment(x, links \cup {<<x, a>>})))
    /\ UNCHANGED <<tier, links, level, adrift, errors, handEdits>>

CommitCreate(r) ==
    LET q == request[r] IN
    /\ q.op = "create"
    /\ Overwrite(q)
    /\ links' = links \cup {<<q.x, q.a>>}
    /\ request' = Disturb(r, NoRequest, {q.a})
    /\ UNCHANGED <<tier, errors, handEdits>>

\* DeleteDependency: the row read, the DELETE, and the recomputation for its asset.
DeleteDependency(r, x, a) ==
    /\ <<x, a>> \in links /\ ~PairHeld(x, a)
    /\ Starts(r, Computed("delete", x, a, RecomputeBIALevelForAsset(a, links \ {<<x, a>>})))
    /\ UNCHANGED <<tier, links, level, adrift, errors, handEdits>>

CommitDelete(r) ==
    LET q == request[r] IN
    /\ q.op = "delete"
    /\ Overwrite(q)
    /\ links' = links \ {<<q.x, q.a>>}
    /\ request' = Disturb(r, NoRequest, {q.a})
    /\ UNCHANGED <<tier, errors, handEdits>>

\* The links a request sees or is about to commit count as the assessment's.
Reached(x) == {a \in Assets : <<x, a>> \in links}
              \cup {request[q].a : q \in {c \in Clients : request[c].op = "create" /\ request[c].x = x}}

\* The handler UpdateBIAAssessment with a tier: one UPDATE that commits at once ...
UpdateAssessment(r, x, t) ==
    /\ request[r] = NoRequest
    /\ Exists(x)
    /\ tier' = [tier EXCEPT ![x] = t]
    /\ request' = Disturb(r, [op |-> "update", x |-> x], Reached(x))
    /\ UNCHANGED <<links, level, adrift, errors, handEdits>>

\* ... and then the propagation, a statement of its own,
PropagateBIALevel(r) ==
    LET q == request[r] IN
    /\ q.op = "update"
    /\ request' = [request EXCEPT ![r] =
          Computed("propagate", q.x, q.x, PropagateBIALevelByAssessment(q.x, links))]
    /\ UNCHANGED <<tier, links, level, adrift, errors, handEdits>>

CommitPropagate(r) ==
    /\ request[r].op = "propagate"
    /\ Overwrite(request[r])
    /\ request' = [request EXCEPT ![r] = NoRequest]
    /\ UNCHANGED <<tier, links, errors, handEdits>>

\* whose error is logged, and the answer is 200 all the same.  A transaction
\* that fails, also as the victim of a deadlock, is rolled back.
Fails(r) ==
    LET q == request[r] IN
    /\ q # NoRequest
    /\ errors < MaxErrors
    /\ errors' = errors + 1
    /\ request' = [request EXCEPT ![r] = NoRequest]
    /\ adrift' = IF q.op \in {"update", "propagate"} THEN adrift \cup Reached(q.x) ELSE adrift
    /\ UNCHANGED <<tier, links, level, handEdits>>

\* DeleteAssessment: the foreign key cascades over its links, and nothing
\* recomputes the levels.  It waits for open transactions that link to it.
DeleteAssessment(x) ==
    /\ Exists(x)
    /\ \A q \in Clients : ~(request[q].op \in {"create", "delete"} /\ request[q].x = x)
    /\ tier' = [tier EXCEPT ![x] = "deleted"]
    /\ links' = {l \in links : l[1] # x}
    /\ adrift' = adrift \cup Reached(x)
    /\ request' = [q \in Clients |-> IF request[q].op \in {"create", "delete", "propagate"}
                       THEN [request[q] EXCEPT !.stale = @ \cup (Reached(x) \cap DOMAIN request[q].found)]
                       ELSE request[q]]
    /\ UNCHANGED <<level, errors, handEdits>>

\* The asset API sets bia_level by hand.
UpdateAsset(a, l) ==
    /\ handEdits < MaxHandEdits
    /\ handEdits' = handEdits + 1
    /\ level' = [level EXCEPT ![a] = l]
    /\ adrift' = adrift \cup {a}
    /\ UNCHANGED <<tier, links, request, errors>>

ImpactNext ==
    \/ \E x \in Assessments, t \in Tiers : CreateAssessment(x, t)
    \/ \E r \in Clients, x \in Assessments, a \in Assets : CreateDependency(r, x, a)
    \/ \E r \in Clients, x \in Assessments, a \in Assets : DeleteDependency(r, x, a)
    \/ \E r \in Clients, x \in Assessments, t \in Tiers : UpdateAssessment(r, x, t)
    \/ \E r \in Clients : CommitCreate(r)
    \/ \E r \in Clients : CommitDelete(r)
    \/ \E r \in Clients : PropagateBIALevel(r)
    \/ \E r \in Clients : CommitPropagate(r)
    \/ \E r \in Clients : Fails(r)
    \/ \E x \in Assessments : DeleteAssessment(x)
    \/ \E a \in Assets, l \in Tiers : UpdateAsset(a, l)

ImpactSpec == ImpactInit /\ [][ImpactNext]_impactVars

\* The assets a tier change has yet to reach.
Owed(a) == \E r \in Clients : request[r].op \in {"update", "propagate"} /\ <<request[r].x, a>> \in links

\* An asset's level is the highest tier of the assessments that depend on it,
\* and 'normal' when none does: unless a tier change is still on its way, or the
\* level was last touched by a recomputation that another request's commit made
\* stale, a propagation that failed, a deleted assessment, or a hand edit.  The
\* next undisturbed recomputation sets it right.
LevelFollowsTiers ==
    \A a \in Assets : a \in adrift \/ Owed(a) \/ level[a] = LevelOf(links, a)
==============================================================================
