---------------------------- MODULE WebSocketHub -----------------------------
(***************************************************************************)
(* The hub of the live feed (internal/websocket) and the bridge that feeds *)
(* it (cmd/server/workers.go).  One goroutine serves three channels; each  *)
(* connection has a reader and a writer.  A message that finds a client's  *)
(* buffer full is dropped for that client and a goroutine is sent to       *)
(* unregister it; it waits its turn like everyone else, and messages that  *)
(* follow may be buffered meanwhile.                                       *)
(***************************************************************************)
EXTENDS Naturals, Sequences, FiniteSets

CONSTANTS
    Browsers, FeedTenants, TenantOf,
    BroadcastCap, SendCap,      \* the buffers, 256 in the code
    Malformed,                  \* the messages whose payload is no JSON
    MaxMessages                 \* bound

VARIABLES
    hub,            \* "running" or "stopped"
    broadcast,      \* the buffered channel of messages
    register,       \* the clients blocked in Register
    unregister,     \* per client: the goroutines blocked in Unregister
    clients,        \* the hub's map
    send, closed,   \* each client's Send buffer, and the ones that are closed
    reader, writer, \* each client's pumps: "none", "runs" or "done"
    received,       \* what reached each browser
    owed,           \* per client: its tenant's messages the hub handled since it joined
    said            \* messages published so far

hubVars == <<hub, broadcast, register, unregister, clients, send, closed, reader, writer, received, owed, said>>

HubInit ==
    /\ hub = "running" /\ broadcast = <<>> /\ register = {}
    /\ unregister = [c \in Browsers |-> 0]
    /\ clients = {} /\ closed = {}
    /\ send = [c \in Browsers |-> <<>>]
    /\ reader = [c \in Browsers |-> "none"] /\ writer = [c \in Browsers |-> "none"]
    /\ received = [c \in Browsers |-> <<>>] /\ owed = [c \in Browsers |-> <<>>]
    /\ said = 0

-----------------------------------------------------------------------------
\* The bridge's callback; it waits while the buffer is full.
Broadcast(tenant) ==
    /\ said < MaxMessages /\ Len(broadcast) < BroadcastCap
    /\ said' = said + 1
    /\ broadcast' = Append(broadcast, [tenant |-> tenant, number |-> said + 1])
    /\ UNCHANGED <<hub, register, unregister, clients, send, closed, reader, writer, received, owed>>

\* The handler registers before it starts the pumps.
HandleWS(c) ==
    /\ c \notin register /\ c \notin clients \cup closed /\ reader[c] = "none"
    /\ register' = register \cup {c}
    /\ UNCHANGED <<hub, broadcast, unregister, clients, send, closed, reader, writer, received, owed, said>>

-----------------------------------------------------------------------------
TakeRegister(c) ==
    /\ hub = "running" /\ c \in register
    /\ register' = register \ {c} /\ clients' = clients \cup {c}
    /\ reader' = [reader EXCEPT ![c] = "runs"] /\ writer' = [writer EXCEPT ![c] = "runs"]
    /\ UNCHANGED <<hub, broadcast, unregister, send, closed, received, owed, said>>

\* Only the first Unregister of a client finds it in the map.
TakeUnregister(c) ==
    /\ hub = "running" /\ unregister[c] > 0
    /\ unregister' = [unregister EXCEPT ![c] = @ - 1]
    /\ clients' = clients \ {c}
    /\ closed' = closed \cup ({c} \cap clients)
    /\ UNCHANGED <<hub, broadcast, register, send, reader, writer, received, owed, said>>

Fits(c) == Len(send[c]) < SendCap
Addressed(tenant) == {c \in clients : TenantOf[c] = tenant}

\* Whom a full buffer sends on the way out.
Slow_Skipped(tenant) == {}
Slow(tenant) == {c \in Addressed(tenant) : ~Fits(c)}

TakeBroadcast ==
    /\ hub = "running" /\ broadcast # <<>>
    /\ broadcast' = Tail(broadcast)
    /\ LET msg == Head(broadcast)
           to == IF msg.number \in Malformed THEN {} ELSE Addressed(msg.tenant)
       IN  /\ send' = [c \in Browsers |-> IF c \in to /\ Fits(c) THEN Append(send[c], msg.number) ELSE send[c]]
           /\ unregister' = [c \in Browsers |->
                  unregister[c] + (IF c \in to \cap Slow(msg.tenant) THEN 1 ELSE 0)]
           /\ owed' = [c \in Browsers |-> IF c \in to THEN Append(owed[c], msg.number) ELSE owed[c]]
    /\ UNCHANGED <<hub, register, clients, closed, reader, writer, received, said>>

\* The context is cancelled: all channels are closed, and nobody serves the hub's own.
Stop ==
    /\ hub = "running"
    /\ hub' = "stopped" /\ closed' = closed \cup clients /\ clients' = {}
    /\ UNCHANGED <<broadcast, register, unregister, send, reader, writer, received, owed, said>>

-----------------------------------------------------------------------------
\* A closed channel still gives what it holds.
WriteMessage(c) ==
    /\ writer[c] = "runs" /\ send[c] # <<>>
    /\ send' = [send EXCEPT ![c] = Tail(@)]
    /\ received' = [received EXCEPT ![c] = Append(@, Head(send[c]))]
    /\ UNCHANGED <<hub, broadcast, register, unregister, clients, closed, reader, writer, owed, said>>

\* A ping or a write fails, which loses the message, or the channel is closed and empty:
\* the connection is closed.
WriterEnds(c) ==
    /\ writer[c] = "runs"
    /\ writer' = [writer EXCEPT ![c] = "done"]
    /\ send' \in {send, [send EXCEPT ![c] = IF @ = <<>> THEN @ ELSE Tail(@)]}
    /\ UNCHANGED <<hub, broadcast, register, unregister, clients, closed, reader, received, owed, said>>

\* The peer left, missed its pongs, or the writer closed the connection.
ReaderEnds(c) ==
    /\ reader[c] = "runs"
    /\ reader' = [reader EXCEPT ![c] = "done"]
    /\ unregister' = [unregister EXCEPT ![c] = @ + 1]
    /\ UNCHANGED <<hub, broadcast, register, clients, send, closed, writer, received, owed, said>>

HubNext ==
    \/ \E t \in FeedTenants : Broadcast(t)
    \/ TakeBroadcast
    \/ Stop
    \/ \E c \in Browsers : HandleWS(c) \/ TakeRegister(c) \/ TakeUnregister(c)
    \/ \E c \in Browsers : WriteMessage(c) \/ WriterEnds(c) \/ ReaderEnds(c)

HubSpec == HubInit /\ [][HubNext]_hubVars

-----------------------------------------------------------------------------
\* A closed channel is never sent on again nor closed twice: its client has left the map
\* for good, whoever unregistered it and however often; a stopped hub keeps none open.
ClosedIsOut ==
    /\ clients \cap (closed \cup register) = {}
    /\ hub = "stopped" => clients = {}

\* What a browser got and will get comes in the order of the hub.
InOrder ==
    \A c \in Browsers :
        LET feed == received[c] \o send[c]
        IN  \A i, j \in DOMAIN feed : i < j => feed[i] < feed[j]

\* A client in the map has all of its tenant's messages since it joined, or someone is
\* on the way to remove it, or its writer ended and its reader is about to find out.
NoSilentGap ==
    \A c \in clients : \/ received[c] \o send[c] = owed[c]
                       \/ unregister[c] > 0
                       \/ writer[c] = "done" /\ reader[c] = "runs"

\* What the hub promises a browser (websocket/hub.go:81): the whole feed in order, or
\* the end of the connection.
FeedIsOrderly == ClosedIsOut /\ InOrder /\ NoSilentGap
==============================================================================
