------------------------------- MODULE EventBus -------------------------------
(***************************************************************************)
(* Subjects and subscriptions of the NATS bus (internal/eventbus).  A      *)
(* subject is the sequence of its dot-separated tokens.                    *)
(***************************************************************************)
EXTENDS Naturals, Sequences

CONSTANT NoTenant   \* the empty TenantID of an event

\* Publish: a tenant's event goes out on a subject of its own.
PublishedSubject(subject, tenant) ==
    IF tenant = NoTenant THEN subject ELSE Append(subject, tenant)

\* A plain NATS subscription: equal tokens, or a last ">" for one token or more.
Matches(pattern, subject) ==
    \/ pattern = subject
    \/ /\ pattern # <<>>
       /\ pattern[Len(pattern)] = ">"
       /\ Len(subject) >= Len(pattern)
       /\ \A i \in 1 .. Len(pattern) - 1 : pattern[i] = subject[i]

\* Subscribe: the handler gets the subject it arrived on and the payload; the
\* tenant of the event it builds stays empty.
Received(message) == [subject |-> message.subject, tenant |-> NoTenant]
==============================================================================
