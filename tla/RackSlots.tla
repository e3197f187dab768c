------------------------------ MODULE RackSlots ------------------------------
(***************************************************************************)
(* Racks, the slots of a rack, and the rack an asset says it is in         *)
(* (internal/api/impl_racks.go, internal/domain/topology/service.go).      *)
(* Placing and taking out run several statements with no transaction, and  *)
(* assets.rack_id is kept in step with rack_slots by the last of them.     *)
(***************************************************************************)
EXTENDS Naturals, FiniteSets

CONSTANTS
    Racks, NoRack,
    Equipment,          \* the assets that are mounted
    Mounters,           \* requests, on any replica
    Sides,
    FullHeight,         \* total_u as created
    MaxMounts, MaxLapses, MaxManual     \* bounds

ASSUME RacksAssumption == NoRack \notin Racks /\ FullHeight \in Nat \ {0}

VARIABLES
    racks,      \* total_u, and whether deleted_at is set
    slots,      \* rack_slots
    rackOf,     \* assets.rack_id
    mount,      \* what each request has done so far
    astray,     \* the assets whose rack_id an overlap, an error or a hand edit has put in doubt
    mounts, lapses, manual

rackVars == <<racks, slots, rackOf, mount, astray, mounts, lapses, manual>>

Units == 1..FullHeight

\* CheckSlotConflict: NOT (end_u < start OR start_u > end).
Overlaps(s, first, last) == ~(s.end < first \/ s.start > last)
CheckSlotConflict(r, side, first, last) ==
    {s \in slots : s.rack = r /\ s.side = side /\ Overlaps(s, first, last)}

SlotsOf(a, r) == {s \in slots : s.asset = a /\ s.rack = r}
MountedElsewhere(a, r) == \E s \in slots : s.asset = a /\ s.rack # r

GetRack(r) == ~racks[r].gone

\* A request; met once another one was at work on the same asset.
Free == [op |-> "none"]
Doing(op, at, s) == [op |-> op, at |-> at, slot |-> s, met |-> FALSE]
AtWork(m, a) == mount[m].op # "none" /\ mount[m].at # "checked" /\ mount[m].slot.asset = a

\* m starts to work on its asset: it meets those that do so already.
Begins(m, d) ==
    LET others == {x \in Mounters \ {m} : AtWork(x, d.slot.asset)} IN
    [x \in Mounters |-> IF x = m THEN [d EXCEPT !.met = others # {}]
                        ELSE IF x \in others THEN [mount[x] EXCEPT !.met = TRUE]
                        ELSE mount[x]]

Finishes(m) == mount' = [mount EXCEPT ![m] = Free]

\* Those that met another leave their asset in doubt.
InDoubt(m) == IF mount[m].met THEN {mount[m].slot.asset} ELSE {}

RackInit ==
    /\ racks = [r \in Racks |-> [total |-> FullHeight, gone |-> FALSE]]
    /\ slots = {}
    /\ rackOf = [a \in Equipment |-> NoRack]
    /\ mount = [m \in Mounters |-> Free]
    /\ astray = {}
    /\ mounts = 0 /\ lapses = 0 /\ manual = 0

\* The handler CreateRackSlot up to its INSERT: the rack, the range, the conflict.
CheckSlot(m, r, a, first, last, side) ==
    /\ mount[m] = Free
    /\ mounts < MaxMounts
    /\ GetRack(r)
    /\ 1 <= first /\ last <= racks[r].total /\ first <= last
    /\ CheckSlotConflict(r, side, first, last) = {}
    /\ mounts' = mounts + 1
    /\ mount' = [mount EXCEPT ![m] = Doing("create", "checked",
          [id |-> mounts', rack |-> r, asset |-> a, start |-> first, end |-> last,
           side |-> side, blind |-> FALSE])]
    /\ UNCHANGED <<racks, slots, rackOf, astray, lapses, manual>>

\* The INSERT; UNIQUE (rack_id, start_u, side) refuses it on an occupied start.
\* blind records that another slot went in between a slot's check and this.
CreateRackSlot(m) ==
    LET s == mount[m].slot
        busy == Begins(m, Doing("create", "inserted", s))
    IN
    /\ mount[m].op = "create" /\ mount[m].at = "checked"
    /\ IF \E o \in slots : o.rack = s.rack /\ o.start = s.start /\ o.side = s.side
       THEN Finishes(m) /\ UNCHANGED <<slots, astray>>
       ELSE /\ slots' = slots \cup {s}
            /\ mount' = [x \in Mounters |->
                  IF busy[x].op = "create" /\ busy[x].at = "checked"
                  THEN [busy[x] EXCEPT !.slot.blind = TRUE] ELSE busy[x]]
            /\ astray' = IF MountedElsewhere(s.asset, s.rack) THEN astray \cup {s.asset} ELSE astray
    /\ UNCHANGED <<racks, rackOf, mounts, lapses, manual>>

\* assets.rack_id follows the INSERT, whatever it was.
SyncRackID(m) ==
    LET s == mount[m].slot IN
    /\ mount[m].op = "create" /\ mount[m].at = "inserted"
    /\ rackOf' = [rackOf EXCEPT ![s.asset] = s.rack]
    /\ astray' = (IF MountedElsewhere(s.asset, s.rack) THEN astray ELSE astray \ {s.asset})
                 \cup InDoubt(m)
    /\ Finishes(m)
    /\ UNCHANGED <<racks, slots, mounts, lapses, manual>>

\* DeleteRackSlot reads the slot's rack and asset, which never change,
ReadSlot(m, s) ==
    /\ mount[m] = Free
    /\ s \in slots
    /\ mount' = Begins(m, Doing("delete", "read", s))
    /\ UNCHANGED <<racks, slots, rackOf, astray, mounts, lapses, manual>>

\* deletes it (a second deletion finds no row and goes on all the same),
DeleteRackSlot(m) ==
    /\ mount[m].op = "delete" /\ mount[m].at = "read"
    /\ slots' = slots \ {mount[m].slot}
    /\ mount' = [mount EXCEPT ![m].at = "deleted"]
    /\ UNCHANGED <<racks, rackOf, astray, mounts, lapses, manual>>

\* counts the slots that still link the asset to the rack,
CountRemaining(m) ==
    LET s == mount[m].slot IN
    /\ mount[m].op = "delete" /\ mount[m].at = "deleted"
    /\ IF SlotsOf(s.asset, s.rack) = {}
       THEN mount' = [mount EXCEPT ![m].at = "last"] /\ UNCHANGED astray
       ELSE Finishes(m) /\ astray' = astray \cup InDoubt(m)
    /\ UNCHANGED <<racks, slots, rackOf, mounts, lapses, manual>>

ClearRackID_Never(m) ==
    LET s == mount[m].slot IN
    /\ mount[m].op = "delete" /\ mount[m].at = "last"
    /\ astray' = astray \cup InDoubt(m)
    /\ Finishes(m)
    /\ UNCHANGED <<racks, slots, rackOf, mounts, lapses, manual>>

\* and with none left clears rack_id, if it still names the rack.
ClearRackID(m) ==
    LET s == mount[m].slot IN
    /\ mount[m].op = "delete" /\ mount[m].at = "last"
    /\ rackOf' = [rackOf EXCEPT ![s.asset] = IF @ = s.rack THEN NoRack ELSE @]
    /\ astray' = astray \cup InDoubt(m)
    /\ Finishes(m)
    /\ UNCHANGED <<racks, slots, mounts, lapses, manual>>

\* A count that fails is logged and leaves zero, so the rack_id is cleared.
CountFails(m) ==
    /\ mount[m].op = "delete" /\ mount[m].at = "deleted"
    /\ lapses < MaxLapses
    /\ lapses' = lapses + 1
    /\ mount' = [mount EXCEPT ![m].at = "last"]
    /\ astray' = astray \cup {mount[m].slot.asset}
    /\ UNCHANGED <<racks, slots, rackOf, mounts, manual>>

\* An error after the first write is only logged; a request can also die there.
Lapse(m) ==
    /\ mount[m] # Free
    /\ lapses < MaxLapses
    /\ lapses' = lapses + 1
    /\ astray' = IF mount[m].at \in {"checked", "read"} THEN astray ELSE astray \cup {mount[m].slot.asset}
    /\ Finishes(m)
    /\ UNCHANGED <<racks, slots, rackOf, mounts, manual>>

\* UpdateRack may lower the rack under its slots; DeleteRack sets deleted_at and
\* leaves slots and assets as they are.
UpdateRack(r, total) ==
    /\ GetRack(r) /\ total < racks[r].total
    /\ manual < MaxManual /\ manual' = manual + 1
    /\ racks' = [racks EXCEPT ![r].total = total]
    /\ UNCHANGED <<slots, rackOf, mount, astray, mounts, lapses>>

DeleteRack(r) ==
    /\ GetRack(r)
    /\ manual < MaxManual /\ manual' = manual + 1
    /\ racks' = [racks EXCEPT ![r].gone = TRUE]
    /\ UNCHANGED <<slots, rackOf, mount, astray, mounts, lapses>>

\* The asset API writes rack_id without a slot.
SetRackByHand(a, r) ==
    /\ manual < MaxManual
    /\ manual' = manual + 1
    /\ rackOf' = [rackOf EXCEPT ![a] = r]
    /\ astray' = astray \cup {a}
    /\ mount' = [m \in Mounters |-> IF AtWork(m, a) THEN [mount[m] EXCEPT !.met = TRUE] ELSE mount[m]]
    /\ UNCHANGED <<racks, slots, mounts, lapses>>

RackNext ==
    \/ \E m \in Mounters, r \in Racks, a \in Equipment, first, last \in Units, side \in Sides :
          CheckSlot(m, r, a, first, last, side)
    \/ \E m \in Mounters : CreateRackSlot(m)
    \/ \E m \in Mounters : SyncRackID(m)
    \/ \E m \in Mounters, s \in slots : ReadSlot(m, s)
    \/ \E m \in Mounters : DeleteRackSlot(m)
    \/ \E m \in Mounters : CountRemaining(m)
    \/ \E m \in Mounters : ClearRackID(m)
    \/ \E m \in Mounters : CountFails(m)
    \/ \E m \in Mounters : Lapse(m)
    \/ \E r \in Racks, total \in Units : UpdateRack(r, total)
    \/ \E r \in Racks : DeleteRack(r)
    \/ \E a \in Equipment, r \in Racks : SetRackByHand(a, r)

RackSpec == RackInit /\ [][RackNext]_rackVars

\* Two slots on one side of a rack share a unit only when one of them went in
\* blind: another slot was inserted between its conflict check and its INSERT.
SlotsDisjointUnlessBlind ==
    \A s, o \in slots : s.id # o.id /\ s.rack = o.rack /\ s.side = o.side
                        /\ Overlaps(s, o.start, o.end) => s.blind \/ o.blind

\* assets.rack_id and rack_slots agree: an asset names a rack exactly when it
\* has a slot there, unless a request is still at work on it, or two of them met,
\* one broke off, a hand edit interfered or the asset has been in two racks at
\* once.  The next undisturbed placement settles it.
RackAgreesWithSlots ==
    \A a \in Equipment :
        \/ a \in astray
        \/ \E m \in Mounters : AtWork(m, a)
        \/ \A r \in Racks : rackOf[a] = r <=> SlotsOf(a, r) # {}

\* What a rack's drawing shows is possible and agrees with what its assets say of
\* themselves (impl_racks.go:210, 286).
PlacementsAreSound == SlotsDisjointUnlessBlind /\ RackAgreesWithSlots
==============================================================================
