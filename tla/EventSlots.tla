----------------------------- MODULE EventSlots -----------------------------
(***************************************************************************)
(* One sign-up slot of an event (backend/app/routers/event_slots.py): the  *)
(* slot under its name, its capacity and who has signed up.                *)
(***************************************************************************)
EXTENDS Integers, FiniteSets

CONSTANTS
    SlotSession, \* requests being served at once
    Signer,     \* the members who may sign up
    Capacities, \* capacities a manager may set; 0 stands for null, unlimited
    MaxEdits    \* bound on the edits of the slot

ASSUME EventSlotsAssumption ==
    IsFiniteSet(Signer) /\ Capacities \subseteq Nat /\ MaxEdits \in Nat

VARIABLES
    slot,      \* the row that carries the name: [state, capacity]
    signup,    \* the row of each member for this slot
    slotReq,   \* what each session is doing
    edits,     \* edits made
    straddled  \* history: an edit or a delete ran beside a sign-up

slotsVars == <<slot, signup, slotReq, edits, straddled>>

RowStates == {"none", "active", "deleted"}
SlotOps == {"idle", "create", "edit", "delete", "leave", "join", "seated"}
SlotIdle == [op |-> "idle", who |-> {}, capacity |-> 0, revives |-> FALSE]
Active == {m \in Signer : signup[m] = "active"}

\* SELECT ... FOR UPDATE on the slot, kept to the commit.
HoldsSlot(p) == slotReq[p].op = "seated" /\ slotReq[p].capacity # 0
SlotFree(p) == \A q \in SlotSession \ {p} : ~HoldsSlot(q)

SlotStraddled ==
    \E p, q \in SlotSession : /\ slotReq[p].op \in {"join", "seated"}
                          /\ slotReq[q].op \in {"edit", "delete"}
WatchSlot == straddled' = (straddled \/ SlotStraddled')

SlotBegins(p, r) == slotReq[p].op = "idle" /\ slotReq' = [slotReq EXCEPT ![p] = r]
SlotEnds(p, op) == slotReq[p].op = op /\ slotReq' = [slotReq EXCEPT ![p] = SlotIdle]
-----------------------------------------------------------------------------
CreateSlot(p) ==
    /\ slot.state # "active"
    /\ SlotBegins(p, [SlotIdle EXCEPT !.op = "create"])
    /\ UNCHANGED <<slot, signup, edits>> /\ WatchSlot

\* uq_event_slots_event_name covers deleted slots as well.
CommitCreateSlot(p, c) ==
    /\ SlotEnds(p, "create")
    /\ slot' = IF slot.state = "none" THEN [state |-> "active", capacity |-> c] ELSE slot
    /\ UNCHANGED <<signup, edits>> /\ WatchSlot

UpdateSlot(p) ==
    /\ slot.state = "active" /\ edits < MaxEdits
    /\ SlotBegins(p, [SlotIdle EXCEPT !.op = "edit"])
    /\ edits' = edits + 1
    /\ UNCHANGED <<slot, signup>> /\ WatchSlot

CommitUpdateSlot(p, c) ==
    /\ SlotFree(p) /\ SlotEnds(p, "edit")
    /\ slot' = [slot EXCEPT !.capacity = c]
    /\ UNCHANGED <<signup, edits>> /\ WatchSlot

DeleteSlot(p) ==
    /\ slot.state = "active"
    /\ SlotBegins(p, [SlotIdle EXCEPT !.op = "delete", !.who = Active])
    /\ UNCHANGED <<slot, signup, edits>> /\ WatchSlot

\* Leaving the sign-ups to go with their slot.
CommitDeleteSlotAlone(p) ==
    /\ SlotFree(p) /\ SlotEnds(p, "delete")
    /\ slot' = [slot EXCEPT !.state = "deleted"]
    /\ UNCHANGED <<signup, edits>> /\ WatchSlot

\* The sign-ups it found go with the slot.
CommitDeleteSlot(p) ==
    /\ SlotFree(p) /\ SlotEnds(p, "delete")
    /\ slot' = [slot EXCEPT !.state = "deleted"]
    /\ signup' = [m \in Signer |-> IF m \in slotReq[p].who THEN "deleted" ELSE signup[m]]
    /\ UNCHANGED edits /\ WatchSlot

\* create_signup reads the slot and looks for an active sign-up.
CreateSignup(p, m) ==
    /\ slot.state = "active" /\ signup[m] # "active"
    /\ SlotBegins(p, [SlotIdle EXCEPT !.op = "join", !.who = {m}, !.capacity = slot.capacity])
    /\ UNCHANGED <<slot, signup, edits>> /\ WatchSlot

Full(p) == slotReq[p].capacity # 0 /\ Cardinality(Active) >= slotReq[p].capacity

Seated(p) ==
    IF Full(p) THEN SlotIdle
    ELSE [slotReq[p] EXCEPT !.op = "seated",
            !.revives = \A m \in slotReq[p].who : signup[m] = "deleted"]

\* Counting without the lock.
TakeSeatUnlocked(p) ==
    /\ slotReq[p].op = "join"
    /\ slotReq' = [slotReq EXCEPT ![p] = Seated(p)]
    /\ UNCHANGED <<slot, signup, edits>> /\ WatchSlot

\* The lock, when the slot as it was read has a capacity; the count, against
\* that capacity; the search for a withdrawn sign-up to revive.
TakeSeat(p) ==
    /\ slotReq[p].op = "join"
    /\ slotReq[p].capacity # 0 => SlotFree(p)
    /\ slotReq' = [slotReq EXCEPT ![p] = Seated(p)]
    /\ UNCHANGED <<slot, signup, edits>> /\ WatchSlot

\* An insert beside an existing row is refused (uq_event_slot_signups_slot_member).
CommitSignup(p) ==
    /\ SlotEnds(p, "seated")
    /\ signup' = [m \in Signer |->
                    IF m \in slotReq[p].who /\ (slotReq[p].revives \/ signup[m] = "none")
                    THEN "active" ELSE signup[m]]
    /\ UNCHANGED <<slot, edits>> /\ WatchSlot

DeleteSignup(p, m) ==
    /\ slot.state = "active" /\ signup[m] = "active"
    /\ SlotBegins(p, [SlotIdle EXCEPT !.op = "leave", !.who = {m}])
    /\ UNCHANGED <<slot, signup, edits>> /\ WatchSlot

CommitDeleteSignup(p) ==
    /\ SlotEnds(p, "leave")
    /\ signup' = [m \in Signer |-> IF m \in slotReq[p].who THEN "deleted" ELSE signup[m]]
    /\ UNCHANGED <<slot, edits>> /\ WatchSlot
-----------------------------------------------------------------------------
SlotsInit ==
    /\ slot = [state |-> "none", capacity |-> 0]
    /\ signup = [m \in Signer |-> "none"]
    /\ slotReq = [p \in SlotSession |-> SlotIdle]
    /\ edits = 0 /\ straddled = FALSE

SlotsNext ==
    \/ \E p \in SlotSession : CreateSlot(p)
    \/ \E p \in SlotSession, c \in Capacities : CommitCreateSlot(p, c)
    \/ \E p \in SlotSession : UpdateSlot(p)
    \/ \E p \in SlotSession, c \in Capacities : CommitUpdateSlot(p, c)
    \/ \E p \in SlotSession : DeleteSlot(p)
    \/ \E p \in SlotSession : CommitDeleteSlot(p)
    \/ \E p \in SlotSession, m \in Signer : CreateSignup(p, m)
    \/ \E p \in SlotSession : TakeSeat(p)
    \/ \E p \in SlotSession : CommitSignup(p)
    \/ \E p \in SlotSession, m \in Signer : DeleteSignup(p, m)
    \/ \E p \in SlotSession : CommitDeleteSignup(p)

SlotsSpec == SlotsInit /\ [][SlotsNext]_slotsVars
-----------------------------------------------------------------------------
(* Type correctness of the slot, its sign-ups and the requests; one request at
   a time has the lock. *)
SlotsTypeOK ==
    /\ slot \in [state : RowStates, capacity : Capacities \cup {0}]
    /\ signup \in [Signer -> RowStates]
    /\ slotReq \in [SlotSession -> [op : SlotOps, who : SUBSET Signer,
                                capacity : Capacities \cup {0}, revives : BOOLEAN]]
    /\ \A p, q \in SlotSession : HoldsSlot(p) /\ HoldsSlot(q) => p = q
    /\ edits \in 0..MaxEdits /\ straddled \in BOOLEAN

(* However many sign up at once, the last seat is given once: no sign-up
   lands beyond the capacity, as long as no manager's change of the slot ran
   beside a sign-up (which goes on with the capacity it read). *)
LastSeatOnce ==
    [][~straddled' /\ slot.capacity # 0 /\ ~(Active' \subseteq Active)
          => Cardinality(Active') <= slot.capacity]_slotsVars

(* A deleted slot keeps nobody signed up, unless a sign-up overlapped the
   delete: that one lands afterwards, on a slot nobody can open any more. *)
DeletedSlotIsEmpty == slot.state = "deleted" /\ ~straddled => Active = {}
=============================================================================
