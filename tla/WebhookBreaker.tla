---------------------------- MODULE WebhookBreaker ----------------------------
(***************************************************************************)
(* Outbound webhooks: the deliveries of the dispatcher                     *)
(* (internal/domain/integration/webhook_dispatcher.go), each a goroutine   *)
(* of some replica, the circuit breaker they share through the row of the  *)
(* subscription, the dead-letter queue, the operators who edit or delete a *)
(* subscription, and the daily retention sweep of both logs.               *)
(*                                                                         *)
(* A delivery lists the subscription, posts up to MaxAttempts times and    *)
(* records how it ended; every SQL statement after the posts is a step of  *)
(* its own.  Nothing in the code clears disabled_at.  Timestamps are kept  *)
(* as ages in whole months; deliveries and sweeps end within minutes.      *)
(*                                                                         *)
(* Abstracted: the event and its payload; the BIA filter, kept as a        *)
(* delivery that may be skipped; the URL guard, which may reject a host at *)
(* any time because it resolves it; signatures; the wait between attempts. *)
(* An event that matches several subscriptions is one HandleEvent for each *)
(* and one that reaches several replicas is one for each of them.          *)
(***************************************************************************)
EXTENDS Integers, FiniteSets

CONSTANTS
    Hooks,        \* webhook subscriptions
    Workers,      \* delivery goroutines that may be alive at once, over all replicas
    Threshold,    \* circuitBreakerThreshold
    MaxAttempts,  \* POSTs of one delivery
    LogMonths,    \* WebhookDeliveriesRetentionDays
    DLQMonths,    \* WebhookDLQRetentionDays
    MaxErrors     \* bound: failed statements, shutdowns and crashes

ASSUME WebhookAssumption ==
    /\ Threshold \in Nat \ {0}
    /\ MaxAttempts \in Nat \ {0}
    /\ LogMonths \in Nat \ {0} /\ DLQMonths \in Nat \ {0}
    /\ IsFiniteSet(Workers)
    /\ Hooks # {}

VARIABLES
    hook,     \* webhook_subscriptions
    logged,   \* logged[w]: the youngest row of w in webhook_deliveries
    dlq,      \* dlq[w]: the youngest row of w in webhook_deliveries_dlq
    up,       \* up[w]: the receiver of w answers 2xx
    lost,     \* history: deliveries to w that ran out of attempts, up to Threshold
    worker,   \* what each delivery goroutine is doing
    sweep,    \* the DELETE the retention sweep is at
    errors

vars == <<hook, logged, dlq, up, lost, worker, sweep, errors>>

\* No such timestamp, or how old it is; beyond the retention it does not matter.
Never == -1
Ages(months) == {Never} \cup 0 .. months
Older(age, months) == IF age = Never \/ age >= months THEN age ELSE age + 1

\* disabled is disabled_at.
Row == [present: BOOLEAN, enabled: BOOLEAN, disabled: Ages(DLQMonths), failures: 0 .. Threshold]

Steps == {"idle", "listed", "post", "succeeded", "failed", "trip", "park", "notify", "done"}

Delivery == [pc: Steps, hook: Hooks, attempt: 1 .. MaxAttempts,
             parked: BOOLEAN, noticed: BOOLEAN]

NoDelivery == [pc |-> "idle", hook |-> CHOOSE w \in Hooks : TRUE, attempt |-> 1,
               parked |-> FALSE, noticed |-> FALSE]

Target(s) == worker[s].hook
At(s, pc) == worker[s].pc = pc
Disabled(w) == hook[w].disabled # Never
DeliveringTo(w, pcs) == {s \in Workers : Target(s) = w /\ worker[s].pc \in pcs}

\* Rows as CreateWebhook inserts them.
Init ==
    /\ hook \in [Hooks -> {r \in Row : r.present /\ r.disabled = Never /\ r.failures = 0}]
    /\ logged = [w \in Hooks |-> Never]
    /\ dlq = [w \in Hooks |-> Never]
    /\ up \in [Hooks -> BOOLEAN]
    /\ lost = [w \in Hooks |-> 0]
    /\ worker = [s \in Workers |-> NoDelivery]
    /\ sweep = "idle"
    /\ errors = 0

------------------------------------------------------------------------------
Goto(s, pc) == worker' = [worker EXCEPT ![s].pc = pc]
End(s) == worker' = [worker EXCEPT ![s] = NoDelivery]

\* The counter is only compared with Threshold, so it stops there.
Bump(n) == IF n < Threshold THEN n + 1 ELSE n

Lose(w) == lost' = [lost EXCEPT ![w] = Bump(lost[w])]

\* CreateDelivery: the row needs its subscription, and errors are ignored.
Log(w) ==
    \/ /\ logged' = [logged EXCEPT ![w] = IF hook[w].present THEN 0 ELSE @]
       /\ UNCHANGED errors
    \/ /\ errors < MaxErrors
       /\ errors' = errors + 1
       /\ UNCHANGED logged

\* The receiver recovers or breaks.
Fluctuate(w) ==
    /\ up' = [up EXCEPT ![w] = ~up[w]]
    /\ UNCHANGED <<hook, logged, dlq, lost, worker, sweep, errors>>

------------------------------------------------------------------------------
(* HandleEvent and deliver.                                                *)

\* Mutant: a tripped subscription is still listed.
Listable_Tripped(w) == hook[w].present /\ hook[w].enabled

Listable(w) == hook[w].present /\ hook[w].enabled /\ ~Disabled(w)

HandleEvent(s, w) ==
    /\ At(s, "idle")
    /\ Listable(w)
    /\ worker' = [worker EXCEPT ![s] = [NoDelivery EXCEPT !.pc = "listed", !.hook = w]]
    /\ UNCHANGED <<hook, logged, dlq, up, lost, sweep, errors>>

\* The asset's BIA level is not one the subscription asks for.
Skip(s) ==
    /\ At(s, "listed")
    /\ End(s)
    /\ UNCHANGED <<hook, logged, dlq, up, lost, sweep, errors>>

\* The check of disabled_at here is on the row as it was listed.
Start(s) ==
    /\ At(s, "listed")
    /\ Goto(s, "post")
    /\ UNCHANGED <<hook, logged, dlq, up, lost, sweep, errors>>

RejectURL(s) ==
    /\ At(s, "listed")
    /\ Log(Target(s))
    /\ Lose(Target(s))
    /\ Goto(s, "failed")
    /\ UNCHANGED <<hook, dlq, up, sweep>>

PostAccepted(s) ==
    /\ At(s, "post")
    /\ up[Target(s)]
    /\ Log(Target(s))
    /\ Goto(s, "succeeded")
    /\ UNCHANGED <<hook, dlq, up, lost, sweep>>

PostRefused(s) ==
    /\ At(s, "post")
    /\ ~up[Target(s)]
    /\ Log(Target(s))
    /\ IF worker[s].attempt < MaxAttempts
       THEN /\ worker' = [worker EXCEPT ![s].attempt = worker[s].attempt + 1]
            /\ UNCHANGED lost
       ELSE Goto(s, "failed") /\ Lose(Target(s))
    /\ UNCHANGED <<hook, dlq, up, sweep>>

------------------------------------------------------------------------------
(* recordSuccess and recordFailure.                                        *)

Cleared(r) == IF r.present /\ r.disabled = Never THEN [r EXCEPT !.failures = 0] ELSE r

RecordSuccess(s) ==
    /\ At(s, "succeeded")
    /\ hook' = [hook EXCEPT ![Target(s)] = Cleared(@)]
    /\ End(s)
    /\ UNCHANGED <<logged, dlq, up, lost, sweep, errors>>

\* Mutant: the breaker trips one failure late.
Trips_Late(count) == count > Threshold

Trips(count) == count >= Threshold

\* The UPDATE returns the counter it leaves; of a deleted row it returns none.
RecordFailure(s) ==
    LET w == Target(s)
        count == Bump(hook[w].failures)
    IN  /\ At(s, "failed")
        /\ IF hook[w].present
           THEN /\ hook' = [hook EXCEPT ![w].failures = count]
                /\ IF Trips(count) THEN Goto(s, "trip") ELSE End(s)
           ELSE UNCHANGED hook /\ End(s)
        /\ UNCHANGED <<logged, dlq, up, lost, sweep, errors>>

\* Not guarded: the row may have been disabled or cleared meanwhile, or be gone.
DisableWebhook(s) ==
    /\ At(s, "trip")
    /\ hook' = [hook EXCEPT ![Target(s)].disabled = IF hook[Target(s)].present THEN 0 ELSE @]
    /\ Goto(s, "park")
    /\ UNCHANGED <<logged, dlq, up, lost, sweep, errors>>

CreateDLQEntry(s) ==
    /\ At(s, "park")
    /\ hook[Target(s)].present
    /\ dlq' = [dlq EXCEPT ![Target(s)] = 0]
    /\ worker' = [worker EXCEPT ![s].pc = "notify", ![s].parked = TRUE]
    /\ UNCHANGED <<hook, logged, up, lost, sweep, errors>>

\* The row's foreign key fails without its subscription; the code goes on.
CreateDLQEntryOfDeleted(s) ==
    /\ At(s, "park")
    /\ ~hook[Target(s)].present
    /\ Goto(s, "notify")
    /\ UNCHANGED <<hook, logged, dlq, up, lost, sweep, errors>>

PublishDisabled(s) ==
    /\ At(s, "notify")
    /\ worker' = [worker EXCEPT ![s].pc = "done", ![s].noticed = TRUE]
    /\ UNCHANGED <<hook, logged, dlq, up, lost, sweep, errors>>

Return(s) ==
    /\ At(s, "done")
    /\ End(s)
    /\ UNCHANGED <<hook, logged, dlq, up, lost, sweep, errors>>

------------------------------------------------------------------------------
(* Failures.                                                               *)

\* A shutdown or a crash, or an error of RecordWebhookSuccess,
\* RecordWebhookFailure or DisableWebhook: the delivery ends where it is.
Abandon(s) ==
    /\ worker[s].pc \notin {"idle", "done"}
    /\ errors < MaxErrors
    /\ errors' = errors + 1
    /\ End(s)
    /\ UNCHANGED <<hook, logged, dlq, up, lost, sweep>>

\* An error of CreateDLQEntry is logged, one of Publish is ignored.
LogAndGoOn(s, from, to) ==
    /\ At(s, from)
    /\ errors < MaxErrors
    /\ errors' = errors + 1
    /\ Goto(s, to)
    /\ UNCHANGED <<hook, logged, dlq, up, lost, sweep>>

------------------------------------------------------------------------------
(* Operators and the retention sweep.                                      *)

UpdateWebhook(w, enabled) ==
    /\ hook[w].present
    /\ hook' = [hook EXCEPT ![w].enabled = enabled]
    /\ UNCHANGED <<logged, dlq, up, lost, worker, sweep, errors>>

\* Rows of webhook_deliveries keep their subscription; those of the
\* dead-letter queue go with it.
DeleteWebhook(w) ==
    /\ hook[w].present
    /\ logged[w] = Never
    /\ hook' = [hook EXCEPT ![w].present = FALSE]
    /\ dlq' = [dlq EXCEPT ![w] = Never]
    /\ UNCHANGED <<logged, up, lost, worker, sweep, errors>>

\* A month without a delivery or a sweep under way.
MonthPasses ==
    /\ \A s \in Workers : At(s, "idle")
    /\ sweep = "idle"
    /\ hook' = [w \in Hooks |-> [hook[w] EXCEPT !.disabled = Older(@, DLQMonths)]]
    /\ logged' = [w \in Hooks |-> Older(logged[w], LogMonths)]
    /\ dlq' = [w \in Hooks |-> Older(dlq[w], DLQMonths)]
    /\ UNCHANGED <<up, lost, worker, sweep, errors>>

\* DELETE ... WHERE the timestamp is older than the window.
Swept(age, months) == IF age >= months THEN Never ELSE age

RetentionSweep ==
    /\ sweep = "idle"
    /\ logged' = [w \in Hooks |-> Swept(logged[w], LogMonths)]
    /\ sweep' = "dlq"
    /\ UNCHANGED <<hook, dlq, up, lost, worker, errors>>

\* Mutant: the dead-letter queue is swept with the window of the deliveries.
DeleteOldWebhookDLQ_LogWindow ==
    /\ sweep = "dlq"
    /\ dlq' = [w \in Hooks |-> Swept(dlq[w], LogMonths)]
    /\ sweep' = "idle"
    /\ UNCHANGED <<hook, logged, up, lost, worker, errors>>

DeleteOldWebhookDLQ ==
    /\ sweep = "dlq"
    /\ dlq' = [w \in Hooks |-> Swept(dlq[w], DLQMonths)]
    /\ sweep' = "idle"
    /\ UNCHANGED <<hook, logged, up, lost, worker, errors>>

\* Either DELETE may fail, which is logged, and the second still follows the first.
SweepFails ==
    /\ errors < MaxErrors
    /\ errors' = errors + 1
    /\ sweep' = IF sweep = "idle" THEN "dlq" ELSE "idle"
    /\ UNCHANGED <<hook, logged, dlq, up, lost, worker>>

------------------------------------------------------------------------------
Progress(s) ==
    \/ Start(s) \/ RejectURL(s) \/ Skip(s)
    \/ PostAccepted(s) \/ PostRefused(s)
    \/ RecordSuccess(s) \/ RecordFailure(s)
    \/ DisableWebhook(s)
    \/ CreateDLQEntry(s) \/ CreateDLQEntryOfDeleted(s)
    \/ PublishDisabled(s)
    \/ Return(s)

Failure(s) ==
    \/ Abandon(s)
    \/ LogAndGoOn(s, "park", "notify")
    \/ LogAndGoOn(s, "notify", "done")

Next ==
    \/ \E s \in Workers, w \in Hooks : HandleEvent(s, w)
    \/ \E s \in Workers : Progress(s) \/ Failure(s)
    \/ \E w \in Hooks :
          \/ Fluctuate(w)
          \/ \E enabled \in BOOLEAN : UpdateWebhook(w, enabled)
          \/ DeleteWebhook(w)
    \/ MonthPasses
    \/ RetentionSweep \/ DeleteOldWebhookDLQ \/ SweepFails

\* Every wait of a delivery ends: the client times out after ten seconds and
\* the back-off is a timer.  Events, receivers and operators are not fair.
Fairness == \A s \in Workers : WF_vars(Progress(s))

Safety == Init /\ [][Next]_vars
Spec == Safety /\ Fairness

------------------------------------------------------------------------------
TypeOK ==
    /\ hook \in [Hooks -> Row]
    /\ logged \in [Hooks -> Ages(LogMonths)]
    /\ dlq \in [Hooks -> Ages(DLQMonths)]
    /\ up \in [Hooks -> BOOLEAN]
    /\ lost \in [Hooks -> 0 .. Threshold]
    /\ worker \in [Workers -> Delivery]
    /\ sweep \in {"idle", "dlq"}
    /\ errors \in Nat

\* The breaker counts deliveries, not attempts (webhook_dispatcher.go:338-361):
\* however deliveries interleave, a subscription is disabled only after
\* Threshold of them ran out of attempts.
TripNeedsThreshold ==
    \A w \in Hooks : Disabled(w) => lost[w] = Threshold

\* 000048_webhook_circuit_breaker.up.sql:5-7: a subscription that was disabled has
\* a payload in the dead-letter queue for all of the queue's retention since
\* disabled_at, unless a delivery is only about to park it, as long as no statement
\* failed and nothing was cut short: neither deliveries that overlap nor the sweeps
\* of the two logs take the payload away earlier.
DisabledHookHasParkedPayload ==
    \A w \in Hooks :
        Disabled(w) /\ hook[w].present /\ errors = 0 =>
            \/ dlq[w] # Never
            \/ hook[w].disabled >= DLQMonths
            \/ DeliveringTo(w, {"park"}) # {}

\* ListWebhooksByEvent: a tripped subscription stops receiving events, so when
\* the deliveries under way have ended its receiver is never called again.
DisabledHookFallsSilent ==
    \A w \in Hooks : Disabled(w) ~> [](DeliveringTo(w, {"post"}) = {})

\* The point of the breaker: a receiver that stays down while deliveries to it
\* go on is cut off, in spite of the errors in between.
DeadReceiverIsCutOff ==
    \A w \in Hooks :
        <>[]~up[w] /\ []<>(DeliveringTo(w, {"post"}) # {}) =>
            <>Disabled(w)

==============================================================================
