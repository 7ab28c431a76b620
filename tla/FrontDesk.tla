------------------------------ MODULE FrontDesk ------------------------------
(***************************************************************************)
(* What customers hand in over their portal link and at the gate: wishes and  *)
(* their pickup slots (portal_requests.go, pickup.go, portal.go), the person   *)
(* they belong to and its anonymisation (persons.go), and the photos of a      *)
(* handover protocol (handover.go).  The transactions that count before they   *)
(* insert hold advisory locks of PostgreSQL; each statement is a step here, so *)
(* that what the locks keep apart shows.                                     *)
(***************************************************************************)
EXTENDS Naturals, FiniteSets, FiniteSetsExt

CONSTANTS
    Guests,         \* persons.id
    Visitors,       \* requests of the portal in flight
    Uploaders,      \* uploads of photos in flight
    PickupWindows,  \* windows an operator may set: [slot, capacity]
    WishIds,        \* bound: portal_requests.id
    ProtocolIds,    \* bound: handover_protocols.id
    MaxOpenWishes,  \* maxOpenPortalRequests, 5 in the code
    MaxPhotos       \* maxHandoverPhotos, 12 in the code

NoSlot == 0
ASSUME FrontDeskAssumption ==
    /\ {MaxOpenWishes, MaxPhotos} \subseteq Nat \ {0}
    /\ WishIds \cup ProtocolIds \subseteq Nat /\ IsFiniteSet(WishIds)
    /\ IsFiniteSet(PickupWindows)
    /\ \A w \in PickupWindows : w.slot # NoSlot /\ w.capacity \in Nat \ {0}

VARIABLES
    guest,     \* persons: the row and its contact data
    link,      \* guests with a valid row of self_service_tokens
    wish,      \* portal_requests
    windows,   \* pickup_windows
    errand,     \* PortalCreateRequest in flight
    protocol,  \* handover_protocols and the number of their photos
    upload     \* UploadHandoverPhoto in flight

portalVars == <<guest, link, wish, windows, errand>>
gateVars   == <<protocol, upload>>
deskVars   == <<guest, link, wish, windows, errand, protocol, upload>>

PickupSlots == { w.slot : w \in PickupWindows }
WishKinds   == {"contact_update", "pickup"}
\* room: the capacity of the slot when the wish took it (history).
NoWish      == [status |-> "none", of |-> 0, kind |-> "pickup", slot |-> NoSlot, filled |-> FALSE, room |-> 0]
NoVisit     == [at |-> "out", of |-> 0, kind |-> "pickup", slot |-> NoSlot, room |-> 0]
NoProtocol  == [status |-> "none", of |-> 0, signed |-> FALSE, photos |-> 0]
NoUpload    == [at |-> "out", to |-> 0]

WishType     == [status : {"none", "offen", "erledigt", "abgelehnt"}, of : Guests \cup {0}, kind : WishKinds,
                 slot : PickupSlots \cup {NoSlot}, filled : BOOLEAN, room : Nat]
ErrandType   == [at : {"out", "door", "counted", "slot"}, of : Guests \cup {0}, kind : WishKinds,
                 slot : PickupSlots \cup {NoSlot}, room : Nat]
ProtocolType == [status : {"none", "open", "closed", "deleted"}, of : Guests \cup {0},
                 signed : BOOLEAN, photos : Nat]

FrontDeskTypeOK ==
    /\ guest \in [Guests -> [status : {"active", "anonymized", "gone"}, contact : {"given", "changed", "none"}]]
    /\ link \subseteq Guests
    /\ wish \in [WishIds -> WishType]
    /\ windows \subseteq PickupWindows
    /\ errand \in [Visitors -> ErrandType]
    /\ protocol \in [ProtocolIds -> ProtocolType]
    /\ upload \in [Uploaders -> [at : {"out", "shared", "counted"}, to : ProtocolIds \cup {0}]]

FrontDeskInit ==
    /\ guest = [g \in Guests |-> [status |-> "active", contact |-> "given"]]
    /\ link = {}
    /\ wish = [w \in WishIds |-> NoWish]
    /\ windows = {}
    /\ errand = [v \in Visitors |-> NoVisit]
    /\ protocol = [h \in ProtocolIds |-> NoProtocol]
    /\ upload = [u \in Uploaders |-> NoUpload]

-----------------------------------------------------------------------------
(* Persons and their links                                                   *)

UpdatePerson(g) ==
    /\ guest[g].status = "active"
    /\ guest' = [guest EXCEPT ![g].contact = "given"]
    /\ UNCHANGED <<link, wish, windows, errand, protocol, upload>>

\* Nothing asks whether the person is anonymised.
CreatePortalLink(g) ==
    /\ guest[g].status # "gone"
    /\ link' = link \cup {g}
    /\ UNCHANGED <<guest, wish, windows, errand, protocol, upload>>

\* Revoked, or past expires_at.
LinkEnds(g) ==
    /\ g \in link
    /\ link' = link \ {g}
    /\ UNCHANGED <<guest, wish, windows, errand, protocol, upload>>

Shared(h) == \E u \in Uploaders : upload[u].at # "out" /\ upload[u].to = h
ProtocolsOf(g) == { h \in ProtocolIds : protocol[h].status \in {"open", "closed"} /\ protocol[h].of = g }

\* One transaction; its update of the protocols waits for uploads that share them.
AnonymizePerson(g) ==
    /\ guest[g].status = "active"
    /\ \A h \in ProtocolsOf(g) : protocol[h].signed => ~Shared(h)
    /\ guest' = [guest EXCEPT ![g] = [status |-> "anonymized", contact |-> "none"]]
    /\ link' = link \ {g}
    /\ wish' = [w \in WishIds |-> IF wish[w].of = g THEN [wish[w] EXCEPT !.filled = FALSE] ELSE wish[w]]
    /\ protocol' = [h \in ProtocolIds |-> IF h \in ProtocolsOf(g) THEN [protocol[h] EXCEPT !.signed = FALSE] ELSE protocol[h]]
    /\ UNCHANGED <<windows, errand, upload>>

\* Protocols restrict the delete; wishes and links go with the person.
ErasePerson(g) ==
    /\ guest[g].status # "gone" /\ ProtocolsOf(g) = {}
    /\ guest' = [guest EXCEPT ![g] = [status |-> "gone", contact |-> "none"]]
    /\ link' = link \ {g}
    /\ wish' = [w \in WishIds |-> IF wish[w].of = g THEN NoWish ELSE wish[w]]
    /\ UNCHANGED <<windows, errand, protocol, upload>>

-----------------------------------------------------------------------------
(* Wishes                                                                    *)

OpenWishes(g) == { w \in WishIds : wish[w].status = "offen" /\ wish[w].of = g }
\* A cleared payload no longer names its slot.
Holders(s)    == { w \in WishIds : wish[w].kind = "pickup" /\ wish[w].status \in {"offen", "erledigt"}
                                   /\ wish[w].filled /\ wish[w].slot = s }
\* Windows that overlap offer a slot as long as one of them has room.
RoomOf(s)     == LET cs == { w.capacity : w \in { x \in windows : x.slot = s } } IN IF cs = {} THEN 0 ELSE Max(cs)
Leaves(v)     == errand' = [errand EXCEPT ![v] = NoVisit]

\* The link is resolved and the input is checked; a time is wanted once there are windows.
KnockAtPortal(v, g, k, s) ==
    /\ errand[v].at = "out" /\ g \in link
    /\ s # NoSlot <=> k = "pickup" /\ windows # {}
    /\ errand' = [errand EXCEPT ![v] = [at |-> "door", of |-> g, kind |-> k, slot |-> s, room |-> 0]]
    /\ UNCHANGED <<guest, link, wish, windows, gateVars>>

\* pg_advisory_xact_lock parkrr.portal_request.<person>, held to the end of the transaction.
PersonLockFree(v) == \A x \in Visitors : errand[x].at \in {"counted", "slot"} => errand[x].of # errand[v].of

CountOpenWishes(v) ==
    /\ errand[v].at = "door" /\ PersonLockFree(v)
    /\ IF Cardinality(OpenWishes(errand[v].of)) >= MaxOpenWishes
       THEN Leaves(v)
       ELSE errand' = [errand EXCEPT ![v].at = "counted"]
    /\ UNCHANGED <<guest, link, wish, windows, gateVars>>

\* pg_advisory_xact_lock parkrr.pickup.slot.<date time>, then windows and takers are counted.
MutantSlotLock(v) == \A x \in Visitors : errand[x].at = "slot" => errand[x].of # errand[v].of
SlotLockFree(v) == \A x \in Visitors : errand[x].at = "slot" => errand[x].slot # errand[v].slot

SlotStillFree(v) ==
    /\ errand[v].at = "counted" /\ errand[v].slot # NoSlot /\ SlotLockFree(v)
    /\ errand' = IF Cardinality(Holders(errand[v].slot)) < RoomOf(errand[v].slot)
                THEN [errand EXCEPT ![v].at = "slot", ![v].room = RoomOf(errand[v].slot)]
                ELSE [errand EXCEPT ![v] = NoVisit]
    /\ UNCHANGED <<guest, link, wish, windows, gateVars>>

FreeWishes == { x \in WishIds : wish[x].status = "none" }

\* A foreign key refuses the wish of a person who is gone by now.
StoreWish(v) ==
    /\ errand[v].at = (IF errand[v].slot = NoSlot THEN "counted" ELSE "slot")
    /\ \/ /\ guest[errand[v].of].status # "gone"
          /\ \E w \in FreeWishes :
                /\ \A x \in FreeWishes : w <= x
                /\ wish' = [wish EXCEPT ![w] = [status |-> "offen", of |-> errand[v].of, kind |-> errand[v].kind,
                                                slot |-> errand[v].slot, filled |-> TRUE, room |-> errand[v].room]]
       \/ guest[errand[v].of].status = "gone" /\ UNCHANGED wish
    /\ Leaves(v)
    /\ UNCHANGED <<guest, link, windows, gateVars>>

\* The visitor hangs up: the transaction rolls back.
AbortVisit(v) ==
    /\ errand[v].at # "out"
    /\ Leaves(v)
    /\ UNCHANGED <<guest, link, wish, windows, gateVars>>

MutantMayApply(w) == wish[w].kind = "contact_update"
MayApply(w) == wish[w].kind = "contact_update" /\ guest[wish[w].of].status # "anonymized"

\* ResolvePortalRequest with apply: the row, then the person, FOR UPDATE.
ApplyWish(w) ==
    /\ wish[w].status = "offen" /\ MayApply(w)
    /\ guest' = IF wish[w].filled THEN [guest EXCEPT ![wish[w].of].contact = "changed"] ELSE guest
    /\ wish' = [wish EXCEPT ![w].status = "erledigt"]
    /\ UNCHANGED <<link, windows, errand, gateVars>>

\* Done without a change, or rejected.
CloseWish(w, s) ==
    /\ wish[w].status = "offen" /\ s \in {"erledigt", "abgelehnt"}
    /\ wish' = [wish EXCEPT ![w].status = s]
    /\ UNCHANGED <<guest, link, windows, errand, gateVars>>

SavePickupWindows(ws) ==
    /\ windows' = ws
    /\ UNCHANGED <<guest, link, wish, errand, gateVars>>

-----------------------------------------------------------------------------
(* Handover protocols and their photos                                       *)

FreeProtocols == { x \in ProtocolIds : protocol[x].status = "none" }

CreateHandover(g, signed) ==
    /\ guest[g].status # "gone"
    /\ \E h \in ProtocolIds :
          /\ h \in FreeProtocols /\ \A x \in FreeProtocols : h <= x
          /\ protocol' = [protocol EXCEPT ![h] = [status |-> "open", of |-> g, signed |-> signed, photos |-> 0]]
    /\ UNCHANGED <<portalVars, upload>>

\* 24 hours have passed.
PhotosClose(h) ==
    /\ protocol[h].status = "open"
    /\ protocol' = [protocol EXCEPT ![h].status = "closed"]
    /\ UNCHANGED <<portalVars, upload>>

ShareProtocol(u, h) ==
    /\ upload[u].at = "out" /\ protocol[h].status = "open"
    /\ upload' = [upload EXCEPT ![u] = [at |-> "shared", to |-> h]]
    /\ UNCHANGED <<portalVars, protocol>>

\* pg_advisory_xact_lock parkrr.handover.photos.<protocol>.
PhotoLockFree(u) == \A x \in Uploaders : upload[x].at = "counted" => upload[x].to # upload[u].to

CountPhotos(u) ==
    /\ upload[u].at = "shared" /\ PhotoLockFree(u)
    /\ upload' = IF protocol[upload[u].to].photos >= MaxPhotos THEN [upload EXCEPT ![u] = NoUpload]
                                                               ELSE [upload EXCEPT ![u].at = "counted"]
    /\ UNCHANGED <<portalVars, protocol>>

StorePhoto(u) ==
    /\ upload[u].at = "counted"
    /\ protocol' = [protocol EXCEPT ![upload[u].to].photos = @ + 1]
    /\ upload' = [upload EXCEPT ![u] = NoUpload]
    /\ UNCHANGED portalVars

AbortUpload(u) ==
    /\ upload[u].at # "out"
    /\ upload' = [upload EXCEPT ![u] = NoUpload]
    /\ UNCHANGED <<portalVars, protocol>>

\* The delete waits for whoever shares the row; the photos go with the protocol.
DeleteHandover(h) ==
    /\ protocol[h].status \in {"open", "closed"} /\ ~Shared(h)
    /\ protocol' = [protocol EXCEPT ![h] = [NoProtocol EXCEPT !.status = "deleted"]]
    /\ UNCHANGED <<portalVars, upload>>

-----------------------------------------------------------------------------
PersonNext == \E g \in Guests : UpdatePerson(g) \/ CreatePortalLink(g) \/ LinkEnds(g) \/ AnonymizePerson(g) \/ ErasePerson(g)
PortalNext ==
    \/ \E v \in Visitors :
          \/ \E g \in Guests, k \in WishKinds, s \in PickupSlots \cup {NoSlot} : KnockAtPortal(v, g, k, s)
          \/ CountOpenWishes(v) \/ SlotStillFree(v) \/ StoreWish(v) \/ AbortVisit(v)
    \/ \E w \in WishIds : ApplyWish(w) \/ \E s \in {"erledigt", "abgelehnt"} : CloseWish(w, s)
    \/ \E ws \in SUBSET PickupWindows : SavePickupWindows(ws)
GateNext ==
    \/ \E g \in Guests, b \in BOOLEAN : CreateHandover(g, b)
    \/ \E h \in ProtocolIds : PhotosClose(h) \/ DeleteHandover(h) \/ \E u \in Uploaders : ShareProtocol(u, h)
    \/ \E u \in Uploaders : CountPhotos(u) \/ StorePhoto(u) \/ AbortUpload(u)
FrontDeskNext == PersonNext \/ PortalNext \/ GateNext
FrontDeskSpec == FrontDeskInit /\ [][FrontDeskNext]_deskVars

-----------------------------------------------------------------------------
\* What counts before it inserts keeps its limit against requests that arrive together:
\* open wishes of a person, pickups of one slot, photos of a protocol.
WithinCapacity ==
    /\ \A g \in Guests : Cardinality(OpenWishes(g)) <= MaxOpenWishes
    /\ \A s \in PickupSlots : LET hs == Holders(s) IN hs # {} => Cardinality(hs) <= Max({ wish[w].room : w \in hs })
    /\ \A h \in ProtocolIds : protocol[h].photos <= MaxPhotos

\* No edit and no older wish brings contact data back to a person who was anonymised.
AnonymizedStaysEmpty == \A g \in Guests : guest[g].status = "anonymized" => guest[g].contact = "none"
==============================================================================
