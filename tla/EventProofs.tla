----------------------------- MODULE EventProofs -----------------------------
(***************************************************************************)
(* Proofs about EventSlots and PhotoQuota, for any number of members,      *)
(* photos, requests and edits and any capacities, claims, sizes and quota. *)
(*                                                                         *)
(* Slots: the last seat is given once and a deleted slot is empty.  The    *)
(* two properties speak of one step and of the rows.  What makes them      *)
(* inductive is what a request still knows when it commits: as long as no  *)
(* edit or delete ran beside a sign-up, the capacity it read is the slot's *)
(* and, once it is seated, there is room; and a delete has found everybody *)
(* who is signed up.                                                       *)
(*                                                                         *)
(* Photos: the meter is exact, the gallery has its objects and the quota   *)
(* is kept.  The sums are counted as sets of pairs, one for each byte, so  *)
(* that what one row adds to each can be taken apart (the columns below).  *)
(* The invariant is again what each session knows (Knows): whether its     *)
(* photos are still what it read, and that the room its check found is     *)
(* still there when it reserves.                                           *)
(***************************************************************************)
EXTENDS EventSlots, PhotoQuota, FiniteSetTheorems, TLAPS

-----------------------------------------------------------------------------
(* Slots: sign-ups. *)

Joining(p) == slotReq[p].op \in {"join", "seated"}

\* The history variable has recorded what is going on now.
Noted == SlotStraddled => straddled

\* A sign-up is of one member.
OneEach == \A p \in SlotSession : Joining(p) => \E m \in Signer : slotReq[p].who = {m}

\* What a request read still holds.
Undisturbed ==
    ~straddled => \A p \in SlotSession :
        /\ Joining(p) => slot.state = "active" /\ slotReq[p].capacity = slot.capacity
        /\ HoldsSlot(p) => Cardinality(Active) < slotReq[p].capacity
        /\ slotReq[p].op = "delete" => Active \subseteq slotReq[p].who

SlotsInv == SlotsTypeOK /\ Noted /\ OneEach /\ Undisturbed /\ DeletedSlotIsEmpty
-----------------------------------------------------------------------------
LEMMA SeatsCounted == IsFiniteSet(Active) /\ Cardinality(Active) \in Nat
BY EventSlotsAssumption, FS_Subset, FS_CardinalityType DEF Active

LEMMA CapacitiesCount == \A c \in Capacities \cup {0} : c \in Nat
<1>1. Capacities \subseteq Nat
  BY EventSlotsAssumption
<1> QED
  BY <1>1

LEMMA SlotIdleType ==
    SlotIdle \in [op : SlotOps, who : SUBSET Signer, capacity : Capacities \cup {0},
                  revives : BOOLEAN]
BY DEF SlotIdle, SlotOps

\* A session begins a request with a well-typed record and without the lock.
LEMMA BeginType ==
    ASSUME SlotsTypeOK, NEW p \in SlotSession,
           NEW r \in [op : SlotOps, who : SUBSET Signer, capacity : Capacities \cup {0},
                      revives : BOOLEAN],
           r.op # "seated" \/ r.capacity = 0 \/ SlotFree(p),
           slotReq' = [slotReq EXCEPT ![p] = r],
           slot' \in [state : RowStates, capacity : Capacities \cup {0}],
           signup' \in [Signer -> RowStates], edits' \in 0..MaxEdits, WatchSlot
    PROVE  SlotsTypeOK'
<1>1. straddled' \in BOOLEAN
  BY DEF WatchSlot, SlotsTypeOK
<1>2. slotReq' \in [SlotSession -> [op : SlotOps, who : SUBSET Signer,
                        capacity : Capacities \cup {0}, revives : BOOLEAN]]
  BY DEF SlotsTypeOK
<1>3. \A q, s \in SlotSession : HoldsSlot(q)' /\ HoldsSlot(s)' => q = s
  BY DEF SlotsTypeOK, HoldsSlot, SlotFree
<1> QED
  BY <1>1, <1>2, <1>3 DEF SlotsTypeOK

LEMMA SlotsTypeInit == SlotsInit => SlotsTypeOK
<1> SUFFICES ASSUME SlotsInit PROVE SlotsTypeOK
  OBVIOUS
<1>1. /\ slot \in [state : RowStates, capacity : Capacities \cup {0}]
      /\ signup \in [Signer -> RowStates]
      /\ edits \in 0..MaxEdits
  BY EventSlotsAssumption DEF SlotsInit, RowStates
<1>s. straddled \in BOOLEAN
  BY DEF SlotsInit
<1>2. \A p \in SlotSession : ~HoldsSlot(p)
  BY DEF SlotsInit, HoldsSlot, SlotIdle
<1>3. slotReq \in [SlotSession -> [op : SlotOps, who : SUBSET Signer,
                        capacity : Capacities \cup {0}, revives : BOOLEAN]]
  BY SlotIdleType DEF SlotsInit
<1> QED
  BY <1>1, <1>s, <1>2, <1>3 DEF SlotsTypeOK

LEMMA SlotsTypeStep == SlotsTypeOK /\ [SlotsNext]_slotsVars => SlotsTypeOK'
<1> SUFFICES ASSUME SlotsTypeOK, [SlotsNext]_slotsVars PROVE SlotsTypeOK'
  OBVIOUS
<1> DEFINE Req == [op : SlotOps, who : SUBSET Signer, capacity : Capacities \cup {0},
                   revives : BOOLEAN]
<1>0. /\ slot \in [state : RowStates, capacity : Capacities \cup {0}]
      /\ signup \in [Signer -> RowStates] /\ edits \in 0..MaxEdits
      /\ slotReq \in [SlotSession -> Req] /\ SlotIdle \in Req
      /\ Active \subseteq Signer
  BY SlotIdleType DEF SlotsTypeOK, Active
<1>a. ASSUME NEW p \in SlotSession, CreateSlot(p) PROVE SlotsTypeOK'
  <2>1. [SlotIdle EXCEPT !.op = "create"] \in Req
    BY <1>0 DEF SlotIdle, SlotOps
  <2> QED
    BY <1>0, <1>a, <2>1, BeginType DEF CreateSlot, SlotBegins, SlotIdle
<1>b. ASSUME NEW p \in SlotSession, NEW c \in Capacities, CommitCreateSlot(p, c)
      PROVE SlotsTypeOK'
  <2>1. slot' \in [state : RowStates, capacity : Capacities \cup {0}]
    BY <1>0, <1>b DEF CommitCreateSlot, RowStates
  <2> QED
    BY <1>0, <1>b, <2>1, BeginType DEF CommitCreateSlot, SlotEnds, SlotIdle
<1>c. ASSUME NEW p \in SlotSession, UpdateSlot(p) PROVE SlotsTypeOK'
  <2>1. [SlotIdle EXCEPT !.op = "edit"] \in Req
    BY <1>0 DEF SlotIdle, SlotOps
  <2>2. edits' \in 0..MaxEdits
    BY <1>0, <1>c, EventSlotsAssumption DEF UpdateSlot
  <2> QED
    BY <1>0, <1>c, <2>1, <2>2, BeginType DEF UpdateSlot, SlotBegins, SlotIdle
<1>d. ASSUME NEW p \in SlotSession, NEW c \in Capacities, CommitUpdateSlot(p, c)
      PROVE SlotsTypeOK'
  <2>1. slot' \in [state : RowStates, capacity : Capacities \cup {0}]
    BY <1>0, <1>d DEF CommitUpdateSlot
  <2> QED
    BY <1>0, <1>d, <2>1, BeginType DEF CommitUpdateSlot, SlotEnds, SlotIdle
<1>e. ASSUME NEW p \in SlotSession, DeleteSlot(p) PROVE SlotsTypeOK'
  <2>1. [SlotIdle EXCEPT !.op = "delete", !.who = Active] \in Req
    BY <1>0 DEF SlotIdle, SlotOps
  <2> QED
    BY <1>0, <1>e, <2>1, BeginType DEF DeleteSlot, SlotBegins, SlotIdle
<1>f. ASSUME NEW p \in SlotSession, CommitDeleteSlot(p) PROVE SlotsTypeOK'
  <2>1. slot' \in [state : RowStates, capacity : Capacities \cup {0}]
    BY <1>0, <1>f DEF CommitDeleteSlot, RowStates
  <2>2. signup' \in [Signer -> RowStates]
    BY <1>0, <1>f DEF CommitDeleteSlot, RowStates
  <2> QED
    BY <1>0, <1>f, <2>1, <2>2, BeginType DEF CommitDeleteSlot, SlotEnds, SlotIdle
<1>g. ASSUME NEW p \in SlotSession, NEW m \in Signer, CreateSignup(p, m)
      PROVE SlotsTypeOK'
  <2>1. [SlotIdle EXCEPT !.op = "join", !.who = {m}, !.capacity = slot.capacity] \in Req
    BY <1>0 DEF SlotIdle, SlotOps
  <2> QED
    BY <1>0, <1>g, <2>1, BeginType DEF CreateSignup, SlotBegins, SlotIdle
<1>h. ASSUME NEW p \in SlotSession, TakeSeat(p) PROVE SlotsTypeOK'
  <2>1. Seated(p) \in Req
    BY <1>0 DEF Seated, SlotOps
  <2>2. Seated(p).op # "seated" \/ Seated(p).capacity = 0 \/ SlotFree(p)
    BY <1>0, <1>h DEF TakeSeat, Seated, SlotIdle
  <2> QED
    BY <1>0, <1>h, <2>1, <2>2, BeginType DEF TakeSeat
<1>i. ASSUME NEW p \in SlotSession, CommitSignup(p) PROVE SlotsTypeOK'
  <2>1. signup' \in [Signer -> RowStates]
    BY <1>0, <1>i DEF CommitSignup, RowStates
  <2> QED
    BY <1>0, <1>i, <2>1, BeginType DEF CommitSignup, SlotEnds, SlotIdle
<1>j. ASSUME NEW p \in SlotSession, NEW m \in Signer, DeleteSignup(p, m)
      PROVE SlotsTypeOK'
  <2>1. [SlotIdle EXCEPT !.op = "leave", !.who = {m}] \in Req
    BY <1>0 DEF SlotIdle, SlotOps
  <2> QED
    BY <1>0, <1>j, <2>1, BeginType DEF DeleteSignup, SlotBegins, SlotIdle
<1>k. ASSUME NEW p \in SlotSession, CommitDeleteSignup(p) PROVE SlotsTypeOK'
  <2>1. signup' \in [Signer -> RowStates]
    BY <1>0, <1>k DEF CommitDeleteSignup, RowStates
  <2> QED
    BY <1>0, <1>k, <2>1, BeginType DEF CommitDeleteSignup, SlotEnds, SlotIdle
<1>l. CASE UNCHANGED slotsVars
  BY <1>l DEF slotsVars, SlotsTypeOK, HoldsSlot
<1> QED
  BY <1>a, <1>b, <1>c, <1>d, <1>e, <1>f, <1>g, <1>h, <1>i, <1>j, <1>k, <1>l DEF SlotsNext

(* The types hold throughout, and one request at a time has the lock of a slot
   with a capacity, for any number of them. *)
THEOREM SlotsTypeCorrect == SlotsSpec => []SlotsTypeOK
BY SlotsTypeInit, SlotsTypeStep, PTL DEF SlotsSpec
-----------------------------------------------------------------------------
(* What requests know. *)

LEMMA SlotsSafeInit == SlotsInit => SlotsInv
<1> SUFFICES ASSUME SlotsInit PROVE SlotsInv
  OBVIOUS
<1>1. \A p \in SlotSession : slotReq[p].op = "idle" /\ ~Joining(p) /\ ~HoldsSlot(p)
  BY DEF SlotsInit, SlotIdle, Joining, HoldsSlot
<1>2. Noted
  BY <1>1 DEF Noted, SlotStraddled
<1>3. OneEach /\ Undisturbed
  BY <1>1 DEF OneEach, Undisturbed
<1>4. DeletedSlotIsEmpty
  BY DEF SlotsInit, DeletedSlotIsEmpty
<1> QED
  BY <1>2, <1>3, <1>4, SlotsTypeInit DEF SlotsInv

\* While nothing is recorded, no edit or delete runs beside a sign-up.
LEMMA Apart ==
    ASSUME Noted, ~straddled, NEW p \in SlotSession, NEW q \in SlotSession
    PROVE  ~(Joining(p) /\ slotReq[q].op \in {"edit", "delete"})
BY DEF Noted, SlotStraddled, Joining

LEMMA NotedStep == Noted /\ [SlotsNext]_slotsVars => Noted'
<1>1. WatchSlot => Noted'
  BY DEF WatchSlot, Noted
<1>2. SlotsNext => WatchSlot
  BY DEF SlotsNext, CreateSlot, CommitCreateSlot, UpdateSlot, CommitUpdateSlot, DeleteSlot,
         CommitDeleteSlot, CreateSignup, TakeSeat, CommitSignup, DeleteSignup,
         CommitDeleteSignup
<1>3. Noted /\ UNCHANGED slotsVars => Noted'
  BY DEF slotsVars, Noted, SlotStraddled
<1> QED
  BY <1>1, <1>2, <1>3

LEMMA OneEachStep == SlotsTypeOK /\ OneEach /\ [SlotsNext]_slotsVars => OneEach'
<1> SUFFICES ASSUME SlotsTypeOK, OneEach, [SlotsNext]_slotsVars PROVE OneEach'
  OBVIOUS
<1> DEFINE Fine(r) == r.op \in {"join", "seated"} => \E m \in Signer : r.who = {m}
<1>1. ASSUME NEW p \in SlotSession, NEW r, Fine(r), slotReq' = [slotReq EXCEPT ![p] = r]
      PROVE  OneEach'
  BY <1>1 DEF OneEach, Joining, SlotsTypeOK
<1>2. Fine(SlotIdle)
  BY DEF SlotIdle
<1>3. ASSUME NEW p \in SlotSession, NEW op \in SlotOps, SlotEnds(p, op) PROVE OneEach'
  BY <1>1, <1>2, <1>3 DEF SlotEnds
<1>4. ASSUME NEW p \in SlotSession, CreateSlot(p) \/ UpdateSlot(p) \/ DeleteSlot(p)
      PROVE  OneEach'
  <2>1. /\ Fine([SlotIdle EXCEPT !.op = "create"]) /\ Fine([SlotIdle EXCEPT !.op = "edit"])
        /\ Fine([SlotIdle EXCEPT !.op = "delete", !.who = Active])
    BY DEF SlotIdle
  <2> HIDE DEF Fine
  <2> QED
    BY <1>1, <1>4, <2>1 DEF CreateSlot, UpdateSlot, DeleteSlot, SlotBegins
<1>5. ASSUME NEW p \in SlotSession, NEW m \in Signer, CreateSignup(p, m) \/ DeleteSignup(p, m)
      PROVE  OneEach'
  <2>1. /\ Fine([SlotIdle EXCEPT !.op = "join", !.who = {m}, !.capacity = slot.capacity])
        /\ Fine([SlotIdle EXCEPT !.op = "leave", !.who = {m}])
    BY DEF SlotIdle
  <2> HIDE DEF Fine
  <2> QED
    BY <1>1, <1>5, <2>1 DEF CreateSignup, DeleteSignup, SlotBegins
<1>6. ASSUME NEW p \in SlotSession, TakeSeat(p) PROVE OneEach'
  <2>1. Fine(Seated(p))
    BY <1>6, <1>2 DEF TakeSeat, Seated, OneEach, Joining, SlotsTypeOK
  <2> HIDE DEF Fine
  <2> QED
    BY <1>1, <1>6, <2>1 DEF TakeSeat
<1>7. CASE UNCHANGED slotsVars
  BY <1>7 DEF slotsVars, OneEach, Joining
<1> HIDE DEF Fine
<1> QED
  BY <1>3, <1>4, <1>5, <1>6, <1>7 DEF SlotsNext, CommitCreateSlot, CommitUpdateSlot,
     CommitDeleteSlot, CommitSignup, CommitDeleteSignup, SlotOps

\* Fewer who are signed up leave room for whoever had it.
LEMMA RoomKept ==
    ASSUME Active' \subseteq Active
    PROVE  \A n \in Nat : Cardinality(Active) < n => Cardinality(Active') < n
<1>1. Cardinality(Active') \in Nat /\ Cardinality(Active') <= Cardinality(Active)
  BY SeatsCounted, FS_Subset, FS_CardinalityType
<1> QED
  BY <1>1, SeatsCounted

\* A step that seats nobody, and leaves the slot alone beside a sign-up, leaves
\* the other requests what they know.
LEMMA UndisturbedKept ==
    ASSUME SlotsTypeOK, Undisturbed, ~straddled,
           NEW p \in SlotSession, NEW r, slotReq' = [slotReq EXCEPT ![p] = r],
           r.op \in {"join", "seated"} => slot'.state = "active" /\ r.capacity = slot'.capacity,
           r.op = "seated" /\ r.capacity # 0 => Cardinality(Active') < r.capacity,
           r.op = "delete" => Active' \subseteq r.who,
           Active' \subseteq Active,
           (\E q \in SlotSession \ {p} : Joining(q)) => slot' = slot
    PROVE  Undisturbed'
<1> SUFFICES ASSUME NEW q \in SlotSession
             PROVE  /\ Joining(q)' => slot'.state = "active" /\ slotReq'[q].capacity = slot'.capacity
                    /\ HoldsSlot(q)' => Cardinality(Active') < slotReq'[q].capacity
                    /\ slotReq'[q].op = "delete" => Active' \subseteq slotReq'[q].who
  BY DEF Undisturbed
<1>1. CASE q = p
  BY <1>1 DEF Joining, HoldsSlot, SlotsTypeOK
<1>2. CASE q # p
  <2>1. slotReq'[q] = slotReq[q]
    BY <1>2 DEF SlotsTypeOK
  <2>2. slotReq[q].capacity \in Capacities \cup {0}
    BY DEF SlotsTypeOK
  <2>3. slotReq[q].capacity \in Nat
    BY <2>2, CapacitiesCount
  <2>4. Cardinality(Active) < slotReq[q].capacity => Cardinality(Active') < slotReq[q].capacity
    BY <2>3, RoomKept
  <2> QED
    BY <1>2, <2>1, <2>4 DEF Undisturbed, Joining, HoldsSlot
<1> QED
  BY <1>1, <1>2

\* A sign-up that commits has a seat: nobody else holds the lock, and the slot
\* is active with the capacity it read.
LEMMA SeatThere ==
    ASSUME SlotsInv, ~straddled, NEW p \in SlotSession, CommitSignup(p)
    PROVE  /\ slot.state = "active" /\ slotReq[p].capacity = slot.capacity
           /\ slot.capacity # 0 => Cardinality(Active) < slot.capacity
           /\ \E m \in Signer : Active' \subseteq Active \cup {m}
<1>1. slotReq[p].op = "seated"
  BY DEF CommitSignup, SlotEnds
<1>2. Active' \subseteq Active \cup slotReq[p].who
  BY DEF CommitSignup, Active, SlotsInv, SlotsTypeOK
<1> QED
  BY <1>1, <1>2 DEF SlotsInv, Undisturbed, OneEach, Joining, HoldsSlot

LEMMA SlotsSafeStep ==
    SlotsInv /\ [SlotsNext]_slotsVars /\ ~straddled' => Undisturbed' /\ DeletedSlotIsEmpty'
<1> SUFFICES ASSUME SlotsInv, [SlotsNext]_slotsVars, ~straddled'
             PROVE  Undisturbed' /\ DeletedSlotIsEmpty'
  OBVIOUS
<1>0. SlotsTypeOK /\ Noted /\ OneEach /\ Undisturbed /\ DeletedSlotIsEmpty /\ SlotsTypeOK' /\ Noted'
  BY SlotsTypeStep, NotedStep DEF SlotsInv
<1>s. ~straddled
  BY DEF SlotsNext, CreateSlot, CommitCreateSlot, UpdateSlot, CommitUpdateSlot, DeleteSlot,
         CommitDeleteSlot, CreateSignup, TakeSeat, CommitSignup, DeleteSignup,
         CommitDeleteSignup, WatchSlot, slotsVars
<1>a. ASSUME NEW p \in SlotSession, CreateSlot(p) \/ UpdateSlot(p)
      PROVE  Undisturbed' /\ DeletedSlotIsEmpty'
  <2> DEFINE r == slotReq'[p]
  <2>1. /\ slotReq' = [slotReq EXCEPT ![p] = r] /\ r.op \in {"create", "edit"}
        /\ slot' = slot /\ signup' = signup
    BY <1>0, <1>a DEF CreateSlot, UpdateSlot, SlotBegins, SlotIdle, SlotsTypeOK
  <2>2. Active' = Active
    BY <2>1 DEF Active
  <2> HIDE DEF r
  <2>3. Undisturbed'
    BY <1>0, <1>s, <2>1, <2>2, UndisturbedKept
  <2> QED
    BY <1>0, <1>s, <2>1, <2>2, <2>3 DEF DeletedSlotIsEmpty
<1>b. ASSUME NEW p \in SlotSession, NEW c \in Capacities, CommitCreateSlot(p, c)
      PROVE  Undisturbed' /\ DeletedSlotIsEmpty'
  <2>1. /\ slotReq' = [slotReq EXCEPT ![p] = SlotIdle] /\ SlotIdle.op = "idle"
        /\ signup' = signup
    BY <1>b DEF CommitCreateSlot, SlotEnds, SlotIdle
  <2>2. Active' = Active
    BY <2>1 DEF Active
  <2>3. (\E q \in SlotSession \ {p} : Joining(q)) => slot' = slot
    BY <1>0, <1>s, <1>b DEF CommitCreateSlot, Undisturbed
  <2>4. Undisturbed'
    BY <1>0, <1>s, <2>1, <2>2, <2>3, UndisturbedKept
  <2> QED
    BY <1>0, <1>s, <1>b, <2>2, <2>4 DEF DeletedSlotIsEmpty, CommitCreateSlot
<1>c. ASSUME NEW p \in SlotSession, NEW c \in Capacities, CommitUpdateSlot(p, c)
      PROVE  Undisturbed' /\ DeletedSlotIsEmpty'
  <2>1. /\ slotReq' = [slotReq EXCEPT ![p] = SlotIdle] /\ SlotIdle.op = "idle"
        /\ signup' = signup /\ slotReq[p].op = "edit" /\ slot'.state = slot.state
    BY <1>0, <1>c DEF CommitUpdateSlot, SlotEnds, SlotIdle, SlotsTypeOK
  <2>2. Active' = Active
    BY <2>1 DEF Active
  <2>3. ~\E q \in SlotSession \ {p} : Joining(q)
    BY <1>0, <1>s, <2>1, Apart
  <2>4. Undisturbed'
    BY <1>0, <1>s, <2>1, <2>2, <2>3, UndisturbedKept
  <2> QED
    BY <1>0, <1>s, <2>1, <2>2, <2>4 DEF DeletedSlotIsEmpty
<1>d. ASSUME NEW p \in SlotSession, DeleteSlot(p)
      PROVE  Undisturbed' /\ DeletedSlotIsEmpty'
  <2> DEFINE r == [SlotIdle EXCEPT !.op = "delete", !.who = Active]
  <2>1. /\ slotReq' = [slotReq EXCEPT ![p] = r] /\ r.op = "delete" /\ r.who = Active
        /\ slot' = slot /\ signup' = signup
    BY <1>d DEF DeleteSlot, SlotBegins, SlotIdle
  <2>2. Active' = Active
    BY <2>1 DEF Active
  <2> HIDE DEF r
  <2>3. Undisturbed'
    BY <1>0, <1>s, <2>1, <2>2, UndisturbedKept
  <2> QED
    BY <1>0, <1>s, <2>1, <2>2, <2>3 DEF DeletedSlotIsEmpty
<1>e. ASSUME NEW p \in SlotSession, CommitDeleteSlot(p)
      PROVE  Undisturbed' /\ DeletedSlotIsEmpty'
  <2>1. /\ slotReq' = [slotReq EXCEPT ![p] = SlotIdle] /\ SlotIdle.op = "idle"
        /\ slotReq[p].op = "delete"
    BY <1>e DEF CommitDeleteSlot, SlotEnds, SlotIdle
  <2>2. Active' = {}
    BY <1>0, <1>s, <1>e, <2>1 DEF CommitDeleteSlot, Active, Undisturbed
  <2>3. ~\E q \in SlotSession \ {p} : Joining(q)
    BY <1>0, <1>s, <2>1, Apart
  <2>4. Undisturbed'
    BY <1>0, <1>s, <2>1, <2>2, <2>3, UndisturbedKept
  <2> QED
    BY <2>2, <2>4 DEF DeletedSlotIsEmpty
<1>f. ASSUME NEW p \in SlotSession, NEW m \in Signer, CreateSignup(p, m)
      PROVE  Undisturbed' /\ DeletedSlotIsEmpty'
  <2> DEFINE r == [SlotIdle EXCEPT !.op = "join", !.who = {m}, !.capacity = slot.capacity]
  <2>1. /\ slotReq' = [slotReq EXCEPT ![p] = r] /\ r.op = "join" /\ r.capacity = slot.capacity
        /\ slot' = slot /\ signup' = signup /\ slot.state = "active"
    BY <1>f DEF CreateSignup, SlotBegins, SlotIdle
  <2>2. Active' = Active
    BY <2>1 DEF Active
  <2> HIDE DEF r
  <2>3. Undisturbed'
    BY <1>0, <1>s, <2>1, <2>2, UndisturbedKept
  <2> QED
    BY <1>0, <1>s, <2>1, <2>2, <2>3 DEF DeletedSlotIsEmpty
<1>g. ASSUME NEW p \in SlotSession, TakeSeat(p)
      PROVE  Undisturbed' /\ DeletedSlotIsEmpty'
  <2>1. /\ slotReq' = [slotReq EXCEPT ![p] = Seated(p)] /\ slotReq[p].op = "join"
        /\ slot' = slot /\ signup' = signup
    BY <1>g DEF TakeSeat
  <2>2. Active' = Active
    BY <2>1 DEF Active
  <2>3. slot.state = "active" /\ slotReq[p].capacity = slot.capacity
    BY <1>0, <1>s, <2>1 DEF Undisturbed, Joining
  <2>4. slotReq[p] \in [op : SlotOps, who : SUBSET Signer, capacity : Capacities \cup {0},
                        revives : BOOLEAN]
    BY <1>0 DEF SlotsTypeOK
  <2>5. CASE Full(p)
    BY <1>0, <1>s, <2>1, <2>2, <2>5, UndisturbedKept
       DEF Seated, SlotIdle, DeletedSlotIsEmpty
  <2>6. CASE ~Full(p)
    <3>1. Seated(p).op = "seated" /\ Seated(p).capacity = slotReq[p].capacity
      BY <2>4, <2>6 DEF Seated
    <3>2. slotReq[p].capacity # 0 => Cardinality(Active) < slotReq[p].capacity
      <4>1. slotReq[p].capacity \in Capacities \cup {0}
        BY <2>4
      <4>2. slotReq[p].capacity \in Nat
        BY <4>1, CapacitiesCount
      <4> QED
        BY <2>6, <4>2, SeatsCounted DEF Full
    <3>3. Undisturbed'
      BY <1>0, <1>s, <2>1, <2>2, <2>3, <3>1, <3>2, UndisturbedKept
    <3> QED
      BY <1>0, <1>s, <2>1, <2>2, <3>3 DEF DeletedSlotIsEmpty
  <2> QED
    BY <2>5, <2>6
<1>h. ASSUME NEW p \in SlotSession, CommitSignup(p)
      PROVE  Undisturbed' /\ DeletedSlotIsEmpty'
  <2>1. /\ slotReq' = [slotReq EXCEPT ![p] = SlotIdle] /\ SlotIdle.op = "idle"
        /\ slotReq[p].op = "seated" /\ slot' = slot
    BY <1>h DEF CommitSignup, SlotEnds, SlotIdle
  <2>2. slot.state = "active" /\ slotReq[p].capacity = slot.capacity
    BY <1>h, <1>s, SeatThere
  <2>3. ASSUME NEW q \in SlotSession
        PROVE  /\ Joining(q)' => slot'.state = "active" /\ slotReq'[q].capacity = slot'.capacity
               /\ ~HoldsSlot(q)' /\ slotReq'[q].op # "delete"
    <3>1. CASE q = p
      BY <1>0, <2>1, <3>1 DEF Joining, HoldsSlot, SlotsTypeOK
    <3>2. CASE q # p
      <4>1. slotReq'[q] = slotReq[q]
        BY <1>0, <2>1, <3>2 DEF SlotsTypeOK
      <4>2. slotReq[q].op # "delete"
        BY <1>0, <1>s, <2>1, Apart DEF Joining
      <4>3. ~HoldsSlot(q)
        BY <1>0, <1>s, <2>1, <2>2, <3>2 DEF SlotsTypeOK, Undisturbed, HoldsSlot, Joining
      <4> QED
        BY <1>0, <1>s, <2>1, <4>1, <4>2, <4>3 DEF Undisturbed, Joining, HoldsSlot
    <3> QED
      BY <3>1, <3>2
  <2> QED
    BY <2>1, <2>2, <2>3 DEF Undisturbed, DeletedSlotIsEmpty
<1>i. ASSUME NEW p \in SlotSession, NEW m \in Signer, DeleteSignup(p, m)
      PROVE  Undisturbed' /\ DeletedSlotIsEmpty'
  <2> DEFINE r == [SlotIdle EXCEPT !.op = "leave", !.who = {m}]
  <2>1. /\ slotReq' = [slotReq EXCEPT ![p] = r] /\ r.op = "leave"
        /\ slot' = slot /\ signup' = signup
    BY <1>i DEF DeleteSignup, SlotBegins, SlotIdle
  <2>2. Active' = Active
    BY <2>1 DEF Active
  <2> HIDE DEF r
  <2>3. Undisturbed'
    BY <1>0, <1>s, <2>1, <2>2, UndisturbedKept
  <2> QED
    BY <1>0, <1>s, <2>1, <2>2, <2>3 DEF DeletedSlotIsEmpty
<1>j. ASSUME NEW p \in SlotSession, CommitDeleteSignup(p)
      PROVE  Undisturbed' /\ DeletedSlotIsEmpty'
  <2>1. /\ slotReq' = [slotReq EXCEPT ![p] = SlotIdle] /\ SlotIdle.op = "idle" /\ slot' = slot
    BY <1>j DEF CommitDeleteSignup, SlotEnds, SlotIdle
  <2>2. Active' \subseteq Active
    BY <1>0, <1>j DEF CommitDeleteSignup, Active, SlotsTypeOK
  <2>3. Undisturbed'
    BY <1>0, <1>s, <2>1, <2>2, UndisturbedKept
  <2> QED
    BY <1>0, <1>s, <2>1, <2>2, <2>3 DEF DeletedSlotIsEmpty
<1>k. CASE UNCHANGED slotsVars
  BY <1>0, <1>k DEF slotsVars, Undisturbed, DeletedSlotIsEmpty, Joining, HoldsSlot, Active
<1> QED
  BY <1>a, <1>b, <1>c, <1>d, <1>e, <1>f, <1>g, <1>h, <1>i, <1>j, <1>k DEF SlotsNext

LEMMA SlotsInvStep == SlotsInv /\ [SlotsNext]_slotsVars => SlotsInv'
<1> SUFFICES ASSUME SlotsInv, [SlotsNext]_slotsVars PROVE SlotsInv'
  OBVIOUS
<1>1. SlotsTypeOK' /\ Noted' /\ OneEach'
  BY SlotsTypeStep, NotedStep, OneEachStep DEF SlotsInv
<1>2. CASE straddled'
  BY <1>1, <1>2 DEF SlotsInv, Undisturbed, DeletedSlotIsEmpty
<1>3. CASE ~straddled'
  BY <1>1, <1>3, SlotsSafeStep DEF SlotsInv
<1> QED
  BY <1>2, <1>3

\* Only a sign-up adds to those signed up.
LEMMA SeatStep ==
    ASSUME SlotsInv, [SlotsNext]_slotsVars
    PROVE  ~straddled' /\ slot.capacity # 0 /\ ~(Active' \subseteq Active)
               => Cardinality(Active') <= slot.capacity
<1>1. ASSUME NEW p \in SlotSession, CommitSignup(p), ~straddled', slot.capacity # 0
      PROVE  Cardinality(Active') <= slot.capacity
  <2>1. ~straddled
    BY <1>1 DEF CommitSignup, WatchSlot
  <2>2. PICK m \in Signer : Active' \subseteq Active \cup {m}
    BY <1>1, <2>1, SeatThere
  <2>3. Cardinality(Active) < slot.capacity /\ slot.capacity \in Nat
    BY <1>1, <2>1, SeatThere, EventSlotsAssumption DEF SlotsInv, SlotsTypeOK
  <2>4. /\ IsFiniteSet(Active \cup {m}) /\ Cardinality(Active \cup {m}) \in Nat
        /\ Cardinality(Active \cup {m}) <= Cardinality(Active) + 1
    <3>1. IsFiniteSet(Active \cup {m})
      BY SeatsCounted, FS_AddElement
    <3>2. Cardinality(Active \cup {m}) \in {Cardinality(Active), Cardinality(Active) + 1}
      BY SeatsCounted, FS_AddElement
    <3> QED
      BY <3>1, <3>2, SeatsCounted, FS_CardinalityType
  <2>5. IsFiniteSet(Active') /\ Cardinality(Active') <= Cardinality(Active \cup {m})
    BY <2>2, <2>4, FS_Subset
  <2>6. Cardinality(Active') \in Nat
    BY <2>5, FS_CardinalityType
  <2> QED
    BY <2>3, <2>4, <2>5, <2>6, SeatsCounted
<1>2. ASSUME NEW p \in SlotSession,
             \/ CreateSlot(p) \/ UpdateSlot(p) \/ DeleteSlot(p) \/ TakeSeat(p)
             \/ \E c \in Capacities : CommitCreateSlot(p, c) \/ CommitUpdateSlot(p, c)
             \/ \E m \in Signer : CreateSignup(p, m) \/ DeleteSignup(p, m)
      PROVE  Active' \subseteq Active
  BY <1>2 DEF CreateSlot, UpdateSlot, DeleteSlot, TakeSeat, CommitCreateSlot,
              CommitUpdateSlot, CreateSignup, DeleteSignup, Active
<1>3. ASSUME NEW p \in SlotSession, CommitDeleteSlot(p) \/ CommitDeleteSignup(p)
      PROVE  Active' \subseteq Active
  BY <1>3 DEF CommitDeleteSlot, CommitDeleteSignup, Active
<1>4. UNCHANGED slotsVars => Active' \subseteq Active
  BY DEF slotsVars, Active
<1> QED
  BY <1>1, <1>2, <1>3, <1>4 DEF SlotsNext

(* A deleted slot keeps nobody signed up unless a sign-up overlapped its
   delete, for any number of members and requests. *)
THEOREM DeletedSlotsAreEmpty == SlotsSpec => []DeletedSlotIsEmpty
<1>1. SlotsInv => DeletedSlotIsEmpty
  BY DEF SlotsInv
<1> QED
  BY <1>1, SlotsSafeInit, SlotsInvStep, PTL DEF SlotsSpec

(* The last seat is given once, for any number of requests and capacities. *)
THEOREM LastSeatGivenOnce == SlotsSpec => LastSeatOnce
<1>1. SlotsInv /\ [SlotsNext]_slotsVars
         => [~straddled' /\ slot.capacity # 0 /\ ~(Active' \subseteq Active)
                => Cardinality(Active') <= slot.capacity]_slotsVars
  BY SeatStep
<1> QED
  BY <1>1, SlotsSafeInit, SlotsInvStep, PTL DEF SlotsSpec, LastSeatOnce
-----------------------------------------------------------------------------
(* Photos: the sums. *)

\* One pair for each byte from lo to f[x] of each x of S.
Columns(lo, S, f) == UNION {{x} \X (lo..f[x]) : x \in S}

PhotoRow == [status : PhotoStatus, deleted : BOOLEAN, reserved : {0, Claim}, bytes : Nat]
PendingIn(ph) == {x \in Photo : ph[x].status = "pending" /\ ~ph[x].deleted}
ReadyIn(ph) == {x \in Photo : ph[x].status = "ready" /\ ~ph[x].deleted}
Promises(ph) == [x \in Photo |-> ph[x].reserved]
Sizes(ph) == [x \in Photo |-> ph[x].bytes]

\* The three sums, for any rows.
PromisedIn(ph) == Cardinality(Columns(1, PendingIn(ph), Promises(ph)))
ConfirmedIn(ph) == Cardinality(Columns(1, ReadyIn(ph), Sizes(ph)))
BeyondIn(ph) == Cardinality(Columns(Claim + 1, ReadyIn(ph), Sizes(ph)))
-----------------------------------------------------------------------------
(* Counting bytes. *)

LEMMA ColumnsHold ==
    ASSUME NEW lo, NEW S, NEW f
    PROVE  \A c : c \in Columns(lo, S, f) <=> \E x \in S : \E i \in lo..f[x] : c = <<x, i>>
BY DEF Columns

\* Columns depend on the heights inside their set only.
LEMMA SameColumns ==
    ASSUME NEW lo, NEW S, NEW f, NEW g, \A x \in S : f[x] = g[x]
    PROVE  Columns(lo, S, f) = Columns(lo, S, g)
<1>1. \A x \in S : {x} \X (lo..f[x]) = {x} \X (lo..g[x])
  OBVIOUS
<1> QED
  BY <1>1 DEF Columns

LEMMA ColumnsFinite ==
    ASSUME NEW lo \in Nat, NEW S \in SUBSET Photo, NEW f \in [Photo -> Nat]
    PROVE  IsFiniteSet(Columns(lo, S, f)) /\ Cardinality(Columns(lo, S, f)) \in Nat
<1> DEFINE T == {{x} \X (lo..f[x]) : x \in S}
           g == [x \in S |-> {x} \X (lo..f[x])]
<1>1. g \in Surjection(S, T)
  BY DEF Surjection
<1>2. IsFiniteSet(S)
  BY PhotoQuotaAssumption, FS_Subset
<1>3. IsFiniteSet(T)
  <2> HIDE DEF T, g
  <2> QED
    BY <1>1, <1>2, FS_Surjection
<1>4. ASSUME NEW t \in T PROVE IsFiniteSet(t)
  <2>1. PICK x \in S : t = {x} \X (lo..f[x])
    OBVIOUS
  <2>2. IsFiniteSet({x})
    BY FS_Singleton
  <2>3. f[x] \in Int /\ lo \in Int
    OBVIOUS
  <2>4. IsFiniteSet(lo..f[x])
    BY <2>3, FS_Interval
  <2> QED
    BY <2>1, <2>2, <2>4, FS_Product
<1>5. IsFiniteSet(UNION T)
  <2> HIDE DEF T
  <2> QED
    BY <1>3, <1>4, FS_UNION
<1>6. IsFiniteSet(Columns(lo, S, f))
  BY <1>5 DEF Columns
<1> QED
  BY <1>6, FS_CardinalityType

\* Columns that stand apart are counted apart.
LEMMA ColumnsApart ==
    ASSUME NEW lo \in Nat, NEW S \in SUBSET Photo, NEW D \in SUBSET Photo, S \cap D = {},
           NEW f \in [Photo -> Nat], NEW g \in [Photo -> Nat], \A x \in S : f[x] = g[x]
    PROVE  Cardinality(Columns(lo, S \cup D, g))
               = Cardinality(Columns(lo, S, f)) + Cardinality(Columns(lo, D, g))
<1>1. Columns(lo, S \cup D, g) = Columns(lo, S, f) \cup Columns(lo, D, g)
  BY ColumnsHold
<1>2. Columns(lo, S, f) \cap Columns(lo, D, g) = {}
  BY ColumnsHold
<1>3. /\ IsFiniteSet(Columns(lo, S, f)) /\ Cardinality(Columns(lo, S, f)) \in Nat
      /\ IsFiniteSet(Columns(lo, D, g)) /\ Cardinality(Columns(lo, D, g)) \in Nat
  BY ColumnsFinite
<1>4. Cardinality(Columns(lo, S, f) \cap Columns(lo, D, g)) = 0
  BY <1>2, FS_EmptySet
<1>5. Cardinality(Columns(lo, S, f) \cup Columns(lo, D, g))
        = Cardinality(Columns(lo, S, f)) + Cardinality(Columns(lo, D, g))
            - Cardinality(Columns(lo, S, f) \cap Columns(lo, D, g))
  BY <1>3, FS_Union
<1>6. Cardinality(Columns(lo, S \cup D, g))
        = Cardinality(Columns(lo, S, f) \cup Columns(lo, D, g))
  BY <1>1
<1>7. \A a, b \in Nat : a + b - 0 = a + b
  OBVIOUS
<1>8. Cardinality(Columns(lo, S, f)) + Cardinality(Columns(lo, D, g))
            - Cardinality(Columns(lo, S, f) \cap Columns(lo, D, g))
        = Cardinality(Columns(lo, S, f)) + Cardinality(Columns(lo, D, g))
  BY <1>3, <1>4, <1>7
<1> QED
  BY <1>5, <1>6, <1>8

\* Fewer columns of the same heights count for no more.
LEMMA ColumnsShrink ==
    ASSUME NEW lo \in Nat, NEW S \in SUBSET Photo, NEW R \in SUBSET S,
           NEW f \in [Photo -> Nat], NEW g \in [Photo -> Nat], \A x \in R : f[x] = g[x]
    PROVE  Cardinality(Columns(lo, R, g)) <= Cardinality(Columns(lo, S, f))
<1>1. Columns(lo, R, g) \subseteq Columns(lo, S, f)
  BY ColumnsHold
<1>2. IsFiniteSet(Columns(lo, S, f))
  BY ColumnsFinite
<1> QED
  BY <1>1, <1>2, FS_Subset

\* Columns of one height.
LEMMA ColumnsLevel ==
    ASSUME NEW lo \in Nat, NEW D \in SUBSET Photo, NEW f \in [Photo -> Nat],
           NEW n \in Nat, \A x \in D : f[x] = n
    PROVE  /\ Cardinality(D) \in Nat
           /\ Cardinality(Columns(lo, D, f))
                = Cardinality(D) * (IF lo > n THEN 0 ELSE n - lo + 1)
<1>1. Columns(lo, D, f) = D \X (lo..n)
  BY ColumnsHold
<1>2. IsFiniteSet(D) /\ Cardinality(D) \in Nat
  BY PhotoQuotaAssumption, FS_Subset, FS_CardinalityType
<1>3. /\ IsFiniteSet(lo..n)
      /\ Cardinality(lo..n) = IF lo > n THEN 0 ELSE n - lo + 1
  <2>1. lo \in Int /\ n \in Int
    OBVIOUS
  <2> QED
    BY <2>1, FS_Interval
<1>4. Cardinality(D \X (lo..n)) = Cardinality(D) * Cardinality(lo..n)
  BY <1>2, <1>3, FS_Product
<1> QED
  BY <1>1, <1>2, <1>3, <1>4, Zenon

LEMMA ColumnOfOne ==
    ASSUME NEW lo \in Nat, NEW x \in Photo, NEW f \in [Photo -> Nat]
    PROVE  Cardinality(Columns(lo, {x}, f)) = IF lo > f[x] THEN 0 ELSE f[x] - lo + 1
<1>1. Cardinality({x}) = 1
  BY FS_Singleton
<1>2. f[x] \in Nat
  OBVIOUS
<1>3. Cardinality(Columns(lo, {x}, f))
        = Cardinality({x}) * (IF lo > f[x] THEN 0 ELSE f[x] - lo + 1)
  BY <1>2, ColumnsLevel
<1> QED
  BY <1>1, <1>2, <1>3

\* The sums of the model, before and after a step.
LEMMA SumsAre ==
    /\ ReservedBytes = PromisedIn(photo) /\ ReservedBytes' = PromisedIn(photo')
    /\ ReadyBytes = ConfirmedIn(photo) /\ ReadyBytes' = ConfirmedIn(photo')
    /\ BytesBeyond = BeyondIn(photo) /\ BytesBeyond' = BeyondIn(photo')
    /\ Live("pending") = PendingIn(photo) /\ Live("pending")' = PendingIn(photo')
    /\ Live("ready") = ReadyIn(photo) /\ Live("ready")' = ReadyIn(photo')
<1>1. /\ Live("pending") = PendingIn(photo) /\ Live("pending")' = PendingIn(photo')
      /\ Live("ready") = ReadyIn(photo) /\ Live("ready")' = ReadyIn(photo')
  BY DEF Live, PendingIn, ReadyIn
<1>2. ASSUME NEW ph, NEW S \in SUBSET Photo
      PROVE  /\ UNION {{x} \X (1..ph[x].reserved) : x \in S} = Columns(1, S, Promises(ph))
             /\ UNION {{x} \X (1..ph[x].bytes) : x \in S} = Columns(1, S, Sizes(ph))
             /\ UNION {{x} \X (Claim + 1..ph[x].bytes) : x \in S}
                  = Columns(Claim + 1, S, Sizes(ph))
  <2>1. \A x \in S : Promises(ph)[x] = ph[x].reserved /\ Sizes(ph)[x] = ph[x].bytes
    BY DEF Promises, Sizes
  <2>2. /\ {{x} \X (1..ph[x].reserved) : x \in S} = {{x} \X (1..Promises(ph)[x]) : x \in S}
        /\ {{x} \X (1..ph[x].bytes) : x \in S} = {{x} \X (1..Sizes(ph)[x]) : x \in S}
        /\ {{x} \X (Claim + 1..ph[x].bytes) : x \in S}
             = {{x} \X (Claim + 1..Sizes(ph)[x]) : x \in S}
    BY <2>1
  <2> QED
    BY <2>2 DEF Columns
<1>3. \A ph : PendingIn(ph) \in SUBSET Photo /\ ReadyIn(ph) \in SUBSET Photo
  BY DEF PendingIn, ReadyIn
<1>4. ReservedBytes = PromisedIn(photo) /\ ReservedBytes' = PromisedIn(photo')
  BY <1>1, <1>2, <1>3, Zenon DEF ReservedBytes, PromisedIn
<1>5. ReadyBytes = ConfirmedIn(photo) /\ ReadyBytes' = ConfirmedIn(photo')
  BY <1>1, <1>2, <1>3, Zenon DEF ReadyBytes, ConfirmedIn
<1>6. BytesBeyond = BeyondIn(photo) /\ BytesBeyond' = BeyondIn(photo')
  BY <1>1, <1>2, <1>3, Zenon DEF BytesBeyond, BeyondIn
<1> QED
  BY <1>1, <1>4, <1>5, <1>6
-----------------------------------------------------------------------------
(* What one row adds to the sums. *)

\* A change at x is the difference between its old and its new column.
LEMMA ColumnsSwapped ==
    ASSUME NEW lo \in Nat, NEW x \in Photo, NEW S \in SUBSET Photo, NEW R \in SUBSET Photo,
           NEW f \in [Photo -> Nat], NEW g \in [Photo -> Nat],
           \A y \in Photo : y # x => (y \in S <=> y \in R) /\ f[y] = g[y]
    PROVE  LET Above(T, h) == IF x \notin T \/ lo > h[x] THEN 0 ELSE h[x] - lo + 1
           IN  Cardinality(Columns(lo, R, g)) - Above(R, g)
                 = Cardinality(Columns(lo, S, f)) - Above(S, f)
<1> DEFINE Above(T, h) == IF x \notin T \/ lo > h[x] THEN 0 ELSE h[x] - lo + 1
<1>1. ASSUME NEW T \in SUBSET Photo, NEW h \in [Photo -> Nat]
      PROVE  /\ Cardinality(Columns(lo, T, h))
                   = Cardinality(Columns(lo, T \ {x}, h)) + Above(T, h)
             /\ Cardinality(Columns(lo, T \ {x}, h)) \in Nat
  <2>0. Cardinality(Columns(lo, T \ {x}, h)) \in Nat
    BY ColumnsFinite
  <2>1. CASE x \notin T
    <3>1. T \ {x} = T
      BY <2>1
    <3> QED
      BY <2>0, <2>1, <3>1
  <2>2. CASE x \in T
    <3>1. (T \ {x}) \cup {x} = T /\ (T \ {x}) \cap {x} = {}
      BY <2>2
    <3>2. Cardinality(Columns(lo, (T \ {x}) \cup {x}, h))
            = Cardinality(Columns(lo, T \ {x}, h)) + Cardinality(Columns(lo, {x}, h))
      BY <3>1, ColumnsApart
    <3>3. Cardinality(Columns(lo, {x}, h)) = IF lo > h[x] THEN 0 ELSE h[x] - lo + 1
      BY ColumnOfOne
    <3> QED
      BY <2>0, <2>2, <3>1, <3>2, <3>3
  <2> QED
    BY <2>1, <2>2
<1>2. S \ {x} = R \ {x}
  OBVIOUS
<1>3. Columns(lo, S \ {x}, f) = Columns(lo, R \ {x}, g)
  <2>1. \A y \in S \ {x} : f[y] = g[y]
    OBVIOUS
  <2>2. Columns(lo, S \ {x}, f) = Columns(lo, S \ {x}, g)
    BY <2>1, SameColumns
  <2> QED
    BY <1>2, <2>2
<1>4. /\ Cardinality(Columns(lo, S, f))
            = Cardinality(Columns(lo, S \ {x}, f)) + Above(S, f)
      /\ Cardinality(Columns(lo, S \ {x}, f)) \in Nat
  BY <1>1
<1>5. Cardinality(Columns(lo, R, g))
        = Cardinality(Columns(lo, R \ {x}, g)) + Above(R, g)
  BY <1>1
<1>6. Above(S, f) \in Int /\ Above(R, g) \in Int
  <2>1. f[x] \in Nat /\ g[x] \in Nat
    OBVIOUS
  <2> QED
    BY <2>1
<1> HIDE DEF Above
<1>7. Cardinality(Columns(lo, R, g)) - Above(R, g)
        = Cardinality(Columns(lo, S, f)) - Above(S, f)
  BY <1>3, <1>4, <1>5, <1>6
<1> QED
  BY <1>7 DEF Above

\* What one row adds to each sum.
Promise(r) == IF r.status = "pending" /\ ~r.deleted THEN r.reserved ELSE 0
Confirmed(r) == IF r.status = "ready" /\ ~r.deleted THEN r.bytes ELSE 0
Beyond(r) == IF r.status = "ready" /\ ~r.deleted /\ r.bytes > Claim THEN r.bytes - Claim ELSE 0

LEMMA RowParts ==
    ASSUME NEW ph \in [Photo -> PhotoRow]
    PROVE  /\ PendingIn(ph) \in SUBSET Photo /\ ReadyIn(ph) \in SUBSET Photo
           /\ Promises(ph) \in [Photo -> Nat] /\ Sizes(ph) \in [Photo -> Nat]
           /\ Claim \in Nat \ {0}
           /\ \A x \in Photo : Promises(ph)[x] = ph[x].reserved /\ Sizes(ph)[x] = ph[x].bytes
<1>1. Claim \in Nat \ {0}
  BY PhotoQuotaAssumption
<1>2. \A x \in Photo : ph[x].reserved \in Nat /\ ph[x].bytes \in Nat
  BY <1>1 DEF PhotoRow
<1> QED
  BY <1>1, <1>2 DEF PendingIn, ReadyIn, Promises, Sizes

LEMMA SumsCount ==
    ASSUME NEW ph \in [Photo -> PhotoRow]
    PROVE  PromisedIn(ph) \in Nat /\ ConfirmedIn(ph) \in Nat /\ BeyondIn(ph) \in Nat
<1>1. Claim + 1 \in Nat /\ 1 \in Nat
  BY RowParts
<1> QED
  BY <1>1, RowParts, ColumnsFinite DEF PromisedIn, ConfirmedIn, BeyondIn

\* The sums, when one row changes.
LEMMA OneRowChanges ==
    ASSUME NEW ph \in [Photo -> PhotoRow], NEW pj \in [Photo -> PhotoRow],
           NEW x \in Photo, \A y \in Photo : y # x => pj[y] = ph[y]
    PROVE  /\ PromisedIn(pj) - Promise(pj[x]) = PromisedIn(ph) - Promise(ph[x])
           /\ ConfirmedIn(pj) - Confirmed(pj[x]) = ConfirmedIn(ph) - Confirmed(ph[x])
           /\ BeyondIn(pj) - Beyond(pj[x]) = BeyondIn(ph) - Beyond(ph[x])
<1> DEFINE Above(lo, T, h) == IF x \notin T \/ lo > h[x] THEN 0 ELSE h[x] - lo + 1
<1>1. /\ PendingIn(ph) \in SUBSET Photo /\ ReadyIn(ph) \in SUBSET Photo
      /\ Promises(ph) \in [Photo -> Nat] /\ Sizes(ph) \in [Photo -> Nat]
      /\ PendingIn(pj) \in SUBSET Photo /\ ReadyIn(pj) \in SUBSET Photo
      /\ Promises(pj) \in [Photo -> Nat] /\ Sizes(pj) \in [Photo -> Nat]
      /\ Claim \in Nat \ {0} /\ Claim + 1 \in Nat /\ 1 \in Nat
  BY RowParts
<1>2. \A y \in Photo : y # x =>
         /\ y \in PendingIn(ph) <=> y \in PendingIn(pj)
         /\ y \in ReadyIn(ph) <=> y \in ReadyIn(pj)
         /\ Promises(ph)[y] = Promises(pj)[y] /\ Sizes(ph)[y] = Sizes(pj)[y]
  BY DEF PendingIn, ReadyIn, Promises, Sizes
<1>3. /\ PromisedIn(pj) - Above(1, PendingIn(pj), Promises(pj))
            = PromisedIn(ph) - Above(1, PendingIn(ph), Promises(ph))
      /\ ConfirmedIn(pj) - Above(1, ReadyIn(pj), Sizes(pj))
            = ConfirmedIn(ph) - Above(1, ReadyIn(ph), Sizes(ph))
      /\ BeyondIn(pj) - Above(Claim + 1, ReadyIn(pj), Sizes(pj))
            = BeyondIn(ph) - Above(Claim + 1, ReadyIn(ph), Sizes(ph))
  <2>1. ASSUME NEW lo \in Nat, NEW S \in SUBSET Photo, NEW R \in SUBSET Photo,
               NEW f \in [Photo -> Nat], NEW g \in [Photo -> Nat],
               \A y \in Photo : y # x => (y \in S <=> y \in R) /\ f[y] = g[y]
        PROVE  Cardinality(Columns(lo, R, g)) - Above(lo, R, g)
                 = Cardinality(Columns(lo, S, f)) - Above(lo, S, f)
    BY <2>1, ColumnsSwapped
  <2> HIDE DEF Above
  <2>2. Cardinality(Columns(1, PendingIn(pj), Promises(pj))) - Above(1, PendingIn(pj), Promises(pj))
          = Cardinality(Columns(1, PendingIn(ph), Promises(ph))) - Above(1, PendingIn(ph), Promises(ph))
    BY <1>1, <1>2, <2>1
  <2>3. Cardinality(Columns(1, ReadyIn(pj), Sizes(pj))) - Above(1, ReadyIn(pj), Sizes(pj))
          = Cardinality(Columns(1, ReadyIn(ph), Sizes(ph))) - Above(1, ReadyIn(ph), Sizes(ph))
    BY <1>1, <1>2, <2>1
  <2>4. Cardinality(Columns(Claim + 1, ReadyIn(pj), Sizes(pj)))
              - Above(Claim + 1, ReadyIn(pj), Sizes(pj))
          = Cardinality(Columns(Claim + 1, ReadyIn(ph), Sizes(ph)))
              - Above(Claim + 1, ReadyIn(ph), Sizes(ph))
    BY <1>1, <1>2, <2>1
  <2> QED
    BY <2>2, <2>3, <2>4 DEF PromisedIn, ConfirmedIn, BeyondIn
<1>4. ASSUME NEW rows \in [Photo -> PhotoRow]
      PROVE  /\ Above(1, PendingIn(rows), Promises(rows)) = Promise(rows[x])
             /\ Above(1, ReadyIn(rows), Sizes(rows)) = Confirmed(rows[x])
             /\ Above(Claim + 1, ReadyIn(rows), Sizes(rows)) = Beyond(rows[x])
  <2>1. /\ x \in PendingIn(rows) <=> rows[x].status = "pending" /\ ~rows[x].deleted
        /\ x \in ReadyIn(rows) <=> rows[x].status = "ready" /\ ~rows[x].deleted
        /\ Promises(rows)[x] = rows[x].reserved /\ Sizes(rows)[x] = rows[x].bytes
    BY DEF PendingIn, ReadyIn, Promises, Sizes
  <2>2. rows[x].reserved \in Nat /\ rows[x].bytes \in Nat /\ Claim \in Nat
    BY <1>1 DEF PhotoRow
  <2> QED
    BY <2>1, <2>2 DEF Promise, Confirmed, Beyond
<1> QED
  BY <1>3, <1>4

\* New reservations add a claim each.
LEMMA RowsReserved ==
    ASSUME NEW ph \in [Photo -> PhotoRow], NEW pj \in [Photo -> PhotoRow],
           NEW D \in SUBSET Photo,
           \A y \in Photo \ D : pj[y] = ph[y],
           \A x \in D : ph[x].status = "none",
           \A x \in D : pj[x].status = "pending" /\ ~pj[x].deleted /\ pj[x].reserved = Claim
    PROVE  /\ PromisedIn(pj) = PromisedIn(ph) + Claim * Cardinality(D)
           /\ ConfirmedIn(pj) = ConfirmedIn(ph) /\ BeyondIn(pj) = BeyondIn(ph)
           /\ Cardinality(D) \in Nat
<1>1. /\ PendingIn(pj) = PendingIn(ph) \cup D /\ PendingIn(ph) \cap D = {}
      /\ ReadyIn(pj) = ReadyIn(ph)
      /\ \A y \in PendingIn(ph) : Promises(pj)[y] = Promises(ph)[y]
      /\ \A y \in ReadyIn(ph) : Sizes(pj)[y] = Sizes(ph)[y]
      /\ \A x \in D : Promises(pj)[x] = Claim
  BY DEF PendingIn, ReadyIn, Promises, Sizes
<1>2. /\ PendingIn(ph) \in SUBSET Photo /\ ReadyIn(ph) \in SUBSET Photo
      /\ Promises(ph) \in [Photo -> Nat] /\ Sizes(ph) \in [Photo -> Nat]
      /\ Promises(pj) \in [Photo -> Nat] /\ Sizes(pj) \in [Photo -> Nat]
      /\ Claim \in Nat \ {0} /\ 1 \in Nat
  BY RowParts
<1>3. PromisedIn(pj) = PromisedIn(ph) + Cardinality(Columns(1, D, Promises(pj)))
  <2>1. \A y \in PendingIn(ph) : Promises(ph)[y] = Promises(pj)[y]
    BY <1>1
  <2>2. Cardinality(Columns(1, PendingIn(ph) \cup D, Promises(pj)))
          = Cardinality(Columns(1, PendingIn(ph), Promises(ph)))
              + Cardinality(Columns(1, D, Promises(pj)))
    BY <1>1, <1>2, <2>1, ColumnsApart
  <2> QED
    BY <1>1, <2>2 DEF PromisedIn
<1>4. /\ Cardinality(D) \in Nat
      /\ Cardinality(Columns(1, D, Promises(pj)))
            = Cardinality(D) * (IF 1 > Claim THEN 0 ELSE Claim - 1 + 1)
  <2>1. Claim \in Nat
    BY <1>2
  <2> QED
    BY <1>1, <1>2, <2>1, ColumnsLevel
<1>5. ~(1 > Claim) /\ Claim - 1 + 1 = Claim
  BY <1>2
<1>6. Cardinality(Columns(1, D, Promises(pj))) = Claim * Cardinality(D)
  BY <1>2, <1>4, <1>5
<1>7. \A lo : Columns(lo, ReadyIn(pj), Sizes(pj)) = Columns(lo, ReadyIn(ph), Sizes(ph))
  BY <1>1, SameColumns
<1> QED
  BY <1>3, <1>4, <1>6, <1>7 DEF ConfirmedIn, BeyondIn

\* Reservations given up leave the rest as it was.
LEMMA RowsReleased ==
    ASSUME NEW ph \in [Photo -> PhotoRow], NEW pj \in [Photo -> PhotoRow],
           NEW D \in SUBSET Photo,
           \A y \in Photo \ D : pj[y] = ph[y],
           \A x \in D : ph[x].status = "pending" \/ ph[x].deleted,
           \A x \in D : pj[x].status = "purged"
    PROVE  /\ PromisedIn(pj) <= PromisedIn(ph)
           /\ ConfirmedIn(pj) = ConfirmedIn(ph) /\ BeyondIn(pj) = BeyondIn(ph)
<1>1. /\ PendingIn(pj) \subseteq PendingIn(ph) /\ ReadyIn(pj) = ReadyIn(ph)
      /\ \A y \in PendingIn(pj) : Promises(ph)[y] = Promises(pj)[y]
      /\ \A y \in ReadyIn(ph) : Sizes(pj)[y] = Sizes(ph)[y]
  BY DEF PendingIn, ReadyIn, Promises, Sizes
<1>2. /\ PendingIn(ph) \in SUBSET Photo
      /\ Promises(ph) \in [Photo -> Nat] /\ Promises(pj) \in [Photo -> Nat] /\ 1 \in Nat
  BY RowParts
<1>3. PromisedIn(pj) <= PromisedIn(ph)
  BY <1>1, <1>2, ColumnsShrink DEF PromisedIn
<1>4. \A lo : Columns(lo, ReadyIn(pj), Sizes(pj)) = Columns(lo, ReadyIn(ph), Sizes(ph))
  BY <1>1, SameColumns
<1> QED
  BY <1>3, <1>4 DEF ConfirmedIn, BeyondIn
-----------------------------------------------------------------------------
(* Types. *)

SessionType == [op : PhotoOps, on : SUBSET Photo, gone : SUBSET Photo, num : Nat]

LEMMA PhotoIdleType == PhotoIdle \in SessionType
BY DEF PhotoIdle, SessionType, PhotoOps

LEMMA PhotosTypeInit == PhotosInit => PhotosTypeOK
<1> SUFFICES ASSUME PhotosInit PROVE PhotosTypeOK
  OBVIOUS
<1>1. photo \in [Photo -> PhotoRow]
  BY DEF PhotosInit, NoPhoto, PhotoRow, PhotoStatus
<1>2. photoReq \in [PhotoSession -> SessionType]
  BY PhotoIdleType DEF PhotosInit
<1>3. /\ object \in [Photo -> Nat] /\ expired \subseteq Photo /\ used \in Nat
      /\ collided \in BOOLEAN
  BY DEF PhotosInit
<1> QED
  BY <1>1, <1>2, <1>3 DEF PhotosTypeOK, PhotoRow, SessionType

LEMMA RowUpdates ==
    ASSUME NEW r \in PhotoRow, NEW n \in Nat, NEW b \in BOOLEAN
    PROVE  /\ [r EXCEPT !.status = "ready", !.reserved = 0, !.bytes = n] \in PhotoRow
           /\ [r EXCEPT !.status = "failed", !.reserved = 0] \in PhotoRow
           /\ [r EXCEPT !.deleted = TRUE, !.reserved = 0] \in PhotoRow
           /\ [r EXCEPT !.status = "purged", !.reserved = 0, !.deleted = b] \in PhotoRow
           /\ [NoPhoto EXCEPT !.status = "pending", !.reserved = Claim] \in PhotoRow
BY DEF PhotoRow, PhotoStatus, NoPhoto

\* A session moves on with a well-typed record.
LEMMA SessionMoves ==
    ASSUME PhotosTypeOK, NEW p \in PhotoSession, NEW from, NEW r \in SessionType,
           PhotoGoes(p, from, r), WatchPhoto,
           photo' \in [Photo -> PhotoRow], object' \in [Photo -> Nat],
           expired' \subseteq Photo, used' \in Nat
    PROVE  PhotosTypeOK'
<1>1. photoReq' \in [PhotoSession -> SessionType]
  BY DEF PhotosTypeOK, PhotoGoes, SessionType
<1>2. collided' \in BOOLEAN
  BY DEF WatchPhoto, PhotosTypeOK
<1> QED
  BY <1>1, <1>2 DEF PhotosTypeOK, PhotoRow, SessionType

LEMMA PhotosTypeStep == PhotosTypeOK /\ [PhotosNext]_photosVars => PhotosTypeOK'
<1> SUFFICES ASSUME PhotosTypeOK, [PhotosNext]_photosVars PROVE PhotosTypeOK'
  OBVIOUS
<1>0. /\ photo \in [Photo -> PhotoRow] /\ object \in [Photo -> Nat]
      /\ expired \subseteq Photo /\ used \in Nat
      /\ photoReq \in [PhotoSession -> SessionType] /\ PhotoIdle \in SessionType
      /\ \A st : Live(st) \in SUBSET Photo
      /\ Claim \in Nat
  BY PhotoIdleType, PhotoQuotaAssumption DEF PhotosTypeOK, PhotoRow, SessionType, Live
<1>a. ASSUME NEW p \in PhotoSession, NEW B \in SUBSET Photo, InitiateUpload(p, B)
      PROVE PhotosTypeOK'
  <2>1. [PhotoIdle EXCEPT !.op = "ask", !.on = B, !.num = used] \in SessionType
    BY <1>0 DEF PhotoIdle, SessionType, PhotoOps
  <2> QED
    BY <1>0, <1>a, <2>1, SessionMoves DEF InitiateUpload
<1>b. ASSUME NEW p \in PhotoSession, CheckQuota(p) PROVE PhotosTypeOK'
  <2> DEFINE r == IF Exceeds(p, ReservedBytes) THEN PhotoIdle
                  ELSE [photoReq[p] EXCEPT !.op = "reserve"]
  <2>1. r \in SessionType
    BY <1>0 DEF SessionType, PhotoOps
  <2>2. PhotoGoes(p, "ask", r)
    BY <1>b DEF CheckQuota
  <2> HIDE DEF r
  <2> QED
    BY <1>0, <1>b, <2>1, <2>2, SessionMoves DEF CheckQuota
<1>c. ASSUME NEW p \in PhotoSession, CommitInitiate(p) PROVE PhotosTypeOK'
  <2>1. photo' \in [Photo -> PhotoRow]
    BY <1>0, <1>c, RowUpdates DEF CommitInitiate
  <2> QED
    BY <1>0, <1>c, <2>1, SessionMoves DEF CommitInitiate
<1>d. ASSUME NEW x \in Photo, Put(x) PROVE PhotosTypeOK'
  <2>1. object' \in [Photo -> Nat]
    BY <1>0, <1>d, PhotoQuotaAssumption DEF Put
  <2>2. collided' \in BOOLEAN
    BY <1>d DEF Put, WatchPhoto, PhotosTypeOK
  <2> QED
    BY <1>0, <1>d, <2>1, <2>2 DEF Put, PhotosTypeOK
<1>e. ASSUME NEW x \in Photo, Expire(x) PROVE PhotosTypeOK'
  <2>1. expired' \subseteq Photo
    BY <1>0, <1>e DEF Expire
  <2>2. collided' \in BOOLEAN
    BY <1>e DEF Expire, WatchPhoto, PhotosTypeOK
  <2> QED
    BY <1>0, <1>e, <2>1, <2>2 DEF Expire, PhotosTypeOK
<1>f. ASSUME NEW p \in PhotoSession, NEW x \in Photo, CompleteUpload(p, x)
      PROVE PhotosTypeOK'
  <2>1. [PhotoIdle EXCEPT !.op = "complete", !.on = {x}] \in SessionType
    BY <1>0 DEF PhotoIdle, SessionType, PhotoOps
  <2> QED
    BY <1>0, <1>f, <2>1, SessionMoves DEF CompleteUpload
<1>g. ASSUME NEW p \in PhotoSession, HeadObject(p) PROVE PhotosTypeOK'
  <2>1. PICK x \in photoReq[p].on :
          /\ PhotoGoes(p, "complete",
                IF object[x] = 0 THEN PhotoIdle
                ELSE [photoReq[p] EXCEPT !.op = IF object[x] > MaxUpload THEN "tooBig"
                                                ELSE "confirm",
                                         !.num = object[x]])
          /\ object' = [object EXCEPT ![x] = IF @ > MaxUpload THEN 0 ELSE @]
          /\ UNCHANGED <<photo, expired, used>> /\ WatchPhoto
    BY <1>g DEF HeadObject
  <2> DEFINE r == IF object[x] = 0 THEN PhotoIdle
                  ELSE [photoReq[p] EXCEPT !.op = IF object[x] > MaxUpload THEN "tooBig"
                                                  ELSE "confirm",
                                           !.num = object[x]]
  <2>2. x \in Photo /\ object[x] \in Nat
    BY <1>0 DEF SessionType
  <2>3. r \in SessionType
    BY <1>0, <2>2 DEF SessionType, PhotoOps
  <2>4. PhotoGoes(p, "complete", r)
    BY <2>1
  <2>5. object' \in [Photo -> Nat]
    BY <1>0, <2>1
  <2> HIDE DEF r
  <2> QED
    BY <1>0, <2>1, <2>3, <2>4, <2>5, SessionMoves
<1>h. ASSUME NEW p \in PhotoSession, CommitConfirm(p) PROVE PhotosTypeOK'
  <2>1. photoReq[p].num \in Nat
    BY <1>0 DEF SessionType
  <2>2. photo' \in [Photo -> PhotoRow]
    BY <1>0, <1>h, <2>1, RowUpdates DEF CommitConfirm
  <2>u. used' = used + photoReq[p].num
    BY <1>h DEF CommitConfirm
  <2>3. used' \in Nat
    BY <1>0, <2>1, <2>u
  <2> QED
    BY <1>0, <1>h, <2>2, <2>3, SessionMoves DEF CommitConfirm
<1>i. ASSUME NEW p \in PhotoSession, CommitTooBig(p) PROVE PhotosTypeOK'
  <2>1. photo' \in [Photo -> PhotoRow]
    BY <1>0, <1>i, RowUpdates DEF CommitTooBig
  <2> QED
    BY <1>0, <1>i, <2>1, SessionMoves DEF CommitTooBig
<1>j. ASSUME NEW p \in PhotoSession, NEW x \in Photo, DeletePhoto(p, x)
      PROVE PhotosTypeOK'
  <2> DEFINE n == IF photo[x].status = "ready" THEN photo[x].bytes ELSE 0
  <2>1. n \in Nat
    BY <1>0 DEF PhotoRow
  <2>2. PhotoGoes(p, "idle", [PhotoIdle EXCEPT !.op = "delete", !.on = {x}, !.num = n])
    BY <1>j DEF DeletePhoto
  <2> HIDE DEF n
  <2>3. [PhotoIdle EXCEPT !.op = "delete", !.on = {x}, !.num = n] \in SessionType
    BY <1>0, <2>1 DEF PhotoIdle, SessionType, PhotoOps
  <2> QED
    BY <1>0, <1>j, <2>2, <2>3, SessionMoves DEF DeletePhoto
<1>k. ASSUME NEW p \in PhotoSession, CommitDeletePhoto(p) PROVE PhotosTypeOK'
  <2>1. photoReq[p].num \in Nat
    BY <1>0 DEF SessionType
  <2>2. photo' \in [Photo -> PhotoRow]
    BY <1>0, <1>k, RowUpdates DEF CommitDeletePhoto
  <2>u. used' = IF used > photoReq[p].num THEN used - photoReq[p].num ELSE 0
    BY <1>k DEF CommitDeletePhoto
  <2>3. used' \in Nat
    BY <1>0, <2>1, <2>u
  <2> QED
    BY <1>0, <1>k, <2>2, <2>3, SessionMoves DEF CommitDeletePhoto
<1>l. ASSUME NEW p \in PhotoSession, Reap(p) PROVE PhotosTypeOK'
  <2>1. [PhotoIdle EXCEPT !.op = "reap", !.on = StalePending] \in SessionType
    BY <1>0 DEF PhotoIdle, SessionType, PhotoOps, StalePending
  <2> QED
    BY <1>0, <1>l, <2>1, SessionMoves DEF Reap
<1>m. ASSUME NEW p \in PhotoSession, ReapObjects(p) PROVE PhotosTypeOK'
  <2>1. [photoReq[p] EXCEPT !.op = "purge", !.gone = DeletedUnpurged] \in SessionType
    BY <1>0 DEF SessionType, PhotoOps, DeletedUnpurged
  <2>2. object' \in [Photo -> Nat]
    BY <1>0, <1>m DEF ReapObjects
  <2> QED
    BY <1>0, <1>m, <2>1, <2>2, SessionMoves DEF ReapObjects
<1>n. ASSUME NEW p \in PhotoSession, CommitReap(p) PROVE PhotosTypeOK'
  <2>1. photo' \in [Photo -> PhotoRow]
    <3>1. ASSUME NEW x \in Photo PROVE photo'[x] \in PhotoRow
      <4> DEFINE b == photo[x].deleted \/ x \in photoReq[p].on
      <4>1. b \in BOOLEAN /\ photo[x] \in PhotoRow
        BY <1>0 DEF PhotoRow
      <4>2. photo'[x] = photo[x]
              \/ photo'[x] = [photo[x] EXCEPT !.status = "purged", !.reserved = 0,
                                              !.deleted = b]
        BY <1>n DEF CommitReap
      <4> HIDE DEF b
      <4> QED
        BY <4>1, <4>2, RowUpdates
    <3> QED
      BY <1>0, <1>n, <3>1 DEF CommitReap
  <2> QED
    BY <1>0, <1>n, <2>1, SessionMoves DEF CommitReap
<1>o. ASSUME NEW p \in PhotoSession, Kill(p) PROVE PhotosTypeOK'
  BY <1>0, <1>o, SessionMoves DEF Kill
<1>p. CASE UNCHANGED photosVars
  BY <1>p DEF photosVars, PhotosTypeOK
<1> QED
  BY <1>a, <1>b, <1>c, <1>d, <1>e, <1>f, <1>g, <1>h, <1>i, <1>j, <1>k, <1>l, <1>m, <1>n,
     <1>o, <1>p DEF PhotosNext, PhotoGoesOn

(* The types hold throughout, for any number of photos and sessions and any
   sizes; in particular the meter is never negative. *)
THEOREM PhotosTypeCorrect == PhotosSpec => []PhotosTypeOK
BY PhotosTypeInit, PhotosTypeStep, PTL DEF PhotosSpec
-----------------------------------------------------------------------------
(* What sessions know. *)

\* A reservation not yet confirmed still holds its claim.
ClaimsHeld == \A x \in Live("pending") : photo[x].reserved = Claim

\* The history variable has recorded what is going on now.
CollisionsNoted == Collides => collided

\* What a session read of its photos and of the meter still holds.
Knows(p) ==
    /\ photoReq[p].op \in {"ask", "reserve"} => \A x \in photoReq[p].on : photo[x] = NoPhoto
    /\ photoReq[p].op = "ask" => used <= photoReq[p].num
    /\ photoReq[p].op = "reserve" =>
          used + ReservedBytes + Claim * Cardinality(photoReq[p].on) <= Quota + BytesBeyond
    /\ photoReq[p].op \in {"complete", "tooBig", "confirm"} =>
          \E x \in Live("pending") : photoReq[p].on = {x}
    /\ photoReq[p].op = "confirm" =>
          photoReq[p].num # 0 /\ \A x \in photoReq[p].on : object[x] = photoReq[p].num
    /\ photoReq[p].op = "delete" =>
          \E x \in Photo :
              /\ photoReq[p].on = {x} /\ photo[x].status # "none" /\ ~photo[x].deleted
              /\ photoReq[p].num = IF photo[x].status = "ready" THEN photo[x].bytes ELSE 0
    /\ photoReq[p].op \in {"reap", "purge"} => photoReq[p].on \subseteq Live("pending")
    /\ photoReq[p].op # "purge" => photoReq[p].gone = {}
    /\ \A x \in photoReq[p].gone : photo[x].deleted

AllKnow == ~collided => \A p \in PhotoSession : Knows(p)

PhotosSafe == AllKnow /\ MeterIsExact /\ GalleryHasObjects /\ QuotaKept
PhotosInv == PhotosTypeOK /\ ClaimsHeld /\ CollisionsNoted /\ PhotosSafe

LEMMA PhotosTypes ==
    ASSUME PhotosTypeOK
    PROVE  /\ photo \in [Photo -> PhotoRow] /\ object \in [Photo -> Nat] /\ used \in Nat
           /\ photoReq \in [PhotoSession -> SessionType]
           /\ ReservedBytes \in Nat /\ ReadyBytes \in Nat /\ BytesBeyond \in Nat
           /\ Claim \in Nat \ {0} /\ Quota \in Nat
<1>1. /\ photo \in [Photo -> PhotoRow] /\ object \in [Photo -> Nat] /\ used \in Nat
      /\ photoReq \in [PhotoSession -> SessionType]
  BY DEF PhotosTypeOK, PhotoRow, SessionType
<1>2. ReservedBytes \in Nat /\ ReadyBytes \in Nat /\ BytesBeyond \in Nat
  BY <1>1, SumsAre, SumsCount
<1> QED
  BY <1>1, <1>2, PhotoQuotaAssumption

LEMMA PhotoMoves ==
    ASSUME PhotosTypeOK, NEW p \in PhotoSession, NEW from, NEW r, PhotoGoes(p, from, r)
    PROVE  /\ photoReq[p].op = from /\ photoReq'[p] = r
           /\ \A q \in PhotoSession : q # p => photoReq'[q] = photoReq[q]
BY DEF PhotosTypeOK, PhotoGoes

\* While nothing is recorded, sessions are busy with different photos, and a
\* reservation runs beside no other and beside no confirmation.
LEMMA Strangers ==
    ASSUME CollisionsNoted, ~collided, NEW p \in PhotoSession, NEW q \in PhotoSession, p # q
    PROVE  /\ Busy(p) \cap Busy(q) = {}
           /\ photoReq[q].op \in {"ask", "reserve"}
                => photoReq[p].op \notin {"ask", "reserve", "complete", "confirm"}
BY DEF CollisionsNoted, Collides

LEMMA CollisionsNotedStep == CollisionsNoted /\ [PhotosNext]_photosVars
                        => CollisionsNoted' /\ (collided => collided')
<1>1. WatchPhoto => CollisionsNoted' /\ (collided => collided')
  BY DEF WatchPhoto, CollisionsNoted
<1>2. PhotosNext => WatchPhoto
  BY DEF PhotosNext, PhotoGoesOn, InitiateUpload, CheckQuota, CommitInitiate, Put, Expire,
         CompleteUpload, HeadObject, CommitConfirm, CommitTooBig, DeletePhoto,
         CommitDeletePhoto, Reap, ReapObjects, CommitReap, Kill
<1>3. CollisionsNoted /\ UNCHANGED photosVars => CollisionsNoted' /\ (collided => collided')
  BY DEF photosVars, CollisionsNoted, Collides, Busy
<1> QED
  BY <1>1, <1>2, <1>3

LEMMA ClaimsStep == PhotosTypeOK /\ ClaimsHeld /\ [PhotosNext]_photosVars => ClaimsHeld'
<1> SUFFICES ASSUME PhotosTypeOK, ClaimsHeld, [PhotosNext]_photosVars,
                    NEW x \in Photo, photo'[x].status = "pending", ~photo'[x].deleted
             PROVE  photo'[x].reserved = Claim
  BY DEF ClaimsHeld, Live
<1>0. photo \in [Photo -> PhotoRow] /\ photo[x] \in PhotoRow
  BY PhotosTypes
<1>1. CASE photo'[x] = photo[x]
  BY <1>1 DEF ClaimsHeld, Live
<1>2. ASSUME NEW p \in PhotoSession, CommitInitiate(p) PROVE photo'[x].reserved = Claim
  <2>1. photo'[x] = photo[x] \/ photo'[x] = [NoPhoto EXCEPT !.status = "pending",
                                                          !.reserved = Claim]
    BY <1>2 DEF CommitInitiate
  <2> QED
    BY <1>1, <2>1 DEF NoPhoto
<1>3. ASSUME NEW p \in PhotoSession,
             CommitConfirm(p) \/ CommitTooBig(p) \/ CommitDeletePhoto(p) \/ CommitReap(p)
      PROVE  photo'[x] = photo[x]
  <2>1. CASE photo'[x] = [photo[x] EXCEPT !.status = "ready", !.reserved = 0,
                                          !.bytes = photoReq[p].num]
    BY <1>0, <2>1 DEF PhotoRow
  <2>2. CASE photo'[x] = [photo[x] EXCEPT !.status = "failed", !.reserved = 0]
    BY <1>0, <2>2 DEF PhotoRow
  <2>3. CASE photo'[x] = [photo[x] EXCEPT !.deleted = TRUE, !.reserved = 0]
    BY <1>0, <2>3 DEF PhotoRow
  <2>4. CASE photo'[x] = [photo[x] EXCEPT !.status = "purged", !.reserved = 0,
                                          !.deleted = @ \/ x \in photoReq[p].on]
    BY <1>0, <2>4 DEF PhotoRow
  <2> QED
    BY <1>3, <2>1, <2>2, <2>3, <2>4 DEF CommitConfirm, CommitTooBig, CommitDeletePhoto,
       CommitReap
<1>4. CASE UNCHANGED photosVars
  BY <1>1, <1>4 DEF photosVars
<1> QED
  BY <1>1, <1>2, <1>3, <1>4 DEF PhotosNext, PhotoGoesOn, InitiateUpload, CheckQuota, Put,
     Expire, CompleteUpload, HeadObject, DeletePhoto, Reap, ReapObjects, Kill

LEMMA PhotosSafeInit == PhotosInit => PhotosInv
<1> SUFFICES ASSUME PhotosInit PROVE PhotosInv
  OBVIOUS
<1>1. PhotosTypeOK
  BY PhotosTypeInit
<1>2. /\ Live("pending") = {} /\ Live("ready") = {}
      /\ \A p \in PhotoSession : photoReq[p] = PhotoIdle
      /\ used = 0
  BY DEF PhotosInit, Live, NoPhoto
<1>3. ClaimsHeld /\ GalleryHasObjects
  BY <1>2 DEF ClaimsHeld, GalleryHasObjects
<1>4. CollisionsNoted
  BY <1>2 DEF CollisionsNoted, Collides, Busy, PhotoIdle
<1>5. AllKnow
  BY <1>2 DEF AllKnow, Knows, PhotoIdle
<1>6. ReservedBytes = 0 /\ ReadyBytes = 0 /\ BytesBeyond = 0
  <2>2. \A lo, f : Columns(lo, {}, f) = {}
    BY ColumnsHold
  <2>3. PromisedIn(photo) = 0 /\ ConfirmedIn(photo) = 0 /\ BeyondIn(photo) = 0
    BY <1>2, <2>2, SumsAre, FS_EmptySet DEF PromisedIn, ConfirmedIn, BeyondIn
  <2> QED
    BY <2>3, SumsAre
<1>7. MeterIsExact /\ QuotaKept
  <2>1. Quota \in Nat
    BY PhotoQuotaAssumption
  <2> QED
    BY <1>2, <1>6, <2>1 DEF MeterIsExact, QuotaKept
<1> QED
  BY <1>1, <1>3, <1>4, <1>5, <1>7 DEF PhotosInv, PhotosSafe

\* What a session knows survives the steps of others that leave its photos
\* alone and take no room from it.
LEMMA OthersKnow ==
    ASSUME PhotosTypeOK, NEW q \in PhotoSession, Knows(q), photoReq'[q] = photoReq[q],
           \A x \in Busy(q) : photo'[x] = photo[x],
           photoReq[q].op = "confirm" => \A x \in Busy(q) : object'[x] = object[x],
           photoReq[q].op = "ask" => used' <= used,
           used' \in Int,
           photoReq[q].op = "reserve" =>
               /\ ReservedBytes' \in Nat /\ BytesBeyond' \in Nat
               /\ used' + ReservedBytes' + BytesBeyond <= used + ReservedBytes + BytesBeyond'
    PROVE  Knows(q)'
<1>0. /\ photoReq[q].on \subseteq Photo /\ photoReq[q].gone \subseteq Photo
      /\ photoReq[q].num \in Nat
      /\ photoReq[q].on \subseteq Busy(q) /\ photoReq[q].gone \subseteq Busy(q)
      /\ used \in Nat /\ ReservedBytes \in Nat /\ BytesBeyond \in Nat
      /\ Claim \in Nat /\ Quota \in Nat /\ IsFiniteSet(Photo)
  BY PhotosTypes, PhotoQuotaAssumption DEF SessionType, Busy
<1>1. \A x \in Busy(q) : x \in Live("pending") => x \in Live("pending")'
  BY DEF Live
<1>2. photoReq[q].op \in {"ask", "reserve"} => \A x \in photoReq[q].on : photo'[x] = NoPhoto
  BY <1>0 DEF Knows
<1>3. photoReq[q].op = "ask" => used' <= photoReq[q].num
  BY <1>0 DEF Knows
<1>4. photoReq[q].op = "reserve" =>
          used' + ReservedBytes' + Claim * Cardinality(photoReq[q].on) <= Quota + BytesBeyond'
  <2> SUFFICES ASSUME photoReq[q].op = "reserve"
               PROVE  used' + ReservedBytes' + Claim * Cardinality(photoReq[q].on)
                        <= Quota + BytesBeyond'
    OBVIOUS
  <2>1. Cardinality(photoReq[q].on) \in Nat
    BY <1>0, FS_Subset, FS_CardinalityType
  <2> DEFINE c == Claim * Cardinality(photoReq[q].on)
  <2>2. c \in Nat
    BY <1>0, <2>1
  <2>3. used + ReservedBytes + c <= Quota + BytesBeyond
    BY DEF Knows
  <2> HIDE DEF c
  <2>4. used' + ReservedBytes' + c <= Quota + BytesBeyond'
    BY <1>0, <2>2, <2>3
  <2> QED
    BY <2>4 DEF c
<1>5. photoReq[q].op \in {"complete", "tooBig", "confirm"} =>
          \E x \in Live("pending")' : photoReq[q].on = {x}
  BY <1>0, <1>1 DEF Knows
<1>6. photoReq[q].op = "confirm" =>
          photoReq[q].num # 0 /\ \A x \in photoReq[q].on : object'[x] = photoReq[q].num
  BY <1>0 DEF Knows
<1>7. photoReq[q].op = "delete" =>
          \E x \in Photo :
              /\ photoReq[q].on = {x} /\ photo'[x].status # "none" /\ ~photo'[x].deleted
              /\ photoReq[q].num = IF photo'[x].status = "ready" THEN photo'[x].bytes ELSE 0
  BY <1>0 DEF Knows
<1>8. photoReq[q].op \in {"reap", "purge"} => photoReq[q].on \subseteq Live("pending")'
  BY <1>0, <1>1 DEF Knows
<1>9. /\ photoReq[q].op # "purge" => photoReq[q].gone = {}
      /\ \A x \in photoReq[q].gone : photo'[x].deleted
  BY <1>0 DEF Knows
<1> QED
  BY <1>2, <1>3, <1>4, <1>5, <1>6, <1>7, <1>8, <1>9 DEF Knows

LEMMA IdleKnows ==
    ASSUME NEW p \in PhotoSession, photoReq'[p] = PhotoIdle
    PROVE  Knows(p)'
BY DEF Knows, PhotoIdle

\* Steps that write no row.
LEMMA RowsKept ==
    ASSUME PhotosTypeOK, photo' = photo
    PROVE  /\ ReservedBytes' = ReservedBytes /\ ReadyBytes' = ReadyBytes
           /\ BytesBeyond' = BytesBeyond
           /\ Live("pending")' = Live("pending") /\ Live("ready")' = Live("ready")
BY SumsAre

LEMMA QuietStep ==
    ASSUME PhotosInv, ~collided, photo' = photo, used' = used,
           \A x \in Live("ready") : object[x] # 0 => object'[x] # 0
    PROVE  MeterIsExact' /\ GalleryHasObjects' /\ QuotaKept'
<1>1. /\ ReservedBytes' = ReservedBytes /\ ReadyBytes' = ReadyBytes
      /\ BytesBeyond' = BytesBeyond /\ Live("ready")' = Live("ready")
  BY RowsKept DEF PhotosInv
<1>2. MeterIsExact'
  BY <1>1 DEF PhotosInv, PhotosSafe, MeterIsExact
<1>3. GalleryHasObjects'
  BY <1>1 DEF PhotosInv, PhotosSafe, GalleryHasObjects
<1>4. QuotaKept'
  BY <1>1 DEF PhotosInv, PhotosSafe, QuotaKept
<1> QED
  BY <1>2, <1>3, <1>4

\* Steps that write no row and change no object another session relies on.
LEMMA OthersKnowQuiet ==
    ASSUME PhotosInv, ~collided, photo' = photo, used' = used,
           NEW q \in PhotoSession, photoReq'[q] = photoReq[q],
           photoReq[q].op = "confirm" => \A x \in Busy(q) : object'[x] = object[x]
    PROVE  Knows(q)'
<1>1. PhotosTypeOK /\ Knows(q)
  BY DEF PhotosInv, PhotosSafe, AllKnow
<1>2. /\ ReservedBytes' = ReservedBytes /\ BytesBeyond' = BytesBeyond
      /\ used \in Nat /\ ReservedBytes \in Nat /\ BytesBeyond \in Nat
  BY <1>1, RowsKept, PhotosTypes
<1>3. /\ \A x \in Busy(q) : photo'[x] = photo[x]
      /\ used' \in Int /\ used' <= used
      /\ ReservedBytes' \in Nat /\ BytesBeyond' \in Nat
      /\ used' + ReservedBytes' + BytesBeyond <= used + ReservedBytes + BytesBeyond'
  BY <1>2
<1> QED
  BY <1>1, <1>3, OthersKnow
-----------------------------------------------------------------------------
(* Steps that write no row. *)

\* A session that begins, goes on or dies without touching anything knows what
\* it has just read.
LEMMA SessionStep ==
    ASSUME PhotosInv, ~collided, NEW p \in PhotoSession, NEW from, NEW r,
           PhotoGoes(p, from, r), UNCHANGED <<photo, object, used>>, Knows(p)'
    PROVE  PhotosSafe'
<1>1. MeterIsExact' /\ GalleryHasObjects' /\ QuotaKept'
  BY QuietStep
<1>2. ASSUME NEW q \in PhotoSession PROVE Knows(q)'
  <2>1. CASE q = p
    BY <2>1
  <2>2. CASE q # p
    <3>1. photoReq'[q] = photoReq[q]
      BY <2>2, PhotoMoves DEF PhotosInv
    <3> QED
      BY <3>1, OthersKnowQuiet
  <2> QED
    BY <2>1, <2>2
<1> QED
  BY <1>1, <1>2 DEF PhotosSafe, AllKnow

LEMMA BeginSafe ==
    ASSUME PhotosInv, ~collided, NEW p \in PhotoSession,
           \/ \E B \in SUBSET Photo : InitiateUpload(p, B)
           \/ \E x \in Photo : CompleteUpload(p, x) \/ DeletePhoto(p, x)
           \/ Reap(p) \/ Kill(p)
    PROVE  PhotosSafe'
<1>0. PhotosTypeOK
  BY DEF PhotosInv
<1>a. ASSUME NEW B \in SUBSET Photo, InitiateUpload(p, B) PROVE PhotosSafe'
  <2>1. photoReq'[p] = [op |-> "ask", on |-> B, gone |-> {}, num |-> used]
    <3>1. PhotoGoes(p, "idle", [PhotoIdle EXCEPT !.op = "ask", !.on = B, !.num = used])
      BY <1>a DEF InitiateUpload
    <3>2. photoReq'[p] = [PhotoIdle EXCEPT !.op = "ask", !.on = B, !.num = used]
      BY <1>0, <3>1, PhotoMoves
    <3> QED
      BY <3>2 DEF PhotoIdle
  <2>2. \A x \in B : photo'[x] = NoPhoto
    BY <1>a DEF InitiateUpload
  <2>3. used' = used /\ used \in Nat
    BY <1>0, <1>a, PhotosTypes DEF InitiateUpload
  <2>4. Knows(p)'
    BY <2>1, <2>2, <2>3 DEF Knows
  <2> QED
    BY <1>a, <2>4, SessionStep DEF InitiateUpload
<1>b. ASSUME NEW x \in Photo, CompleteUpload(p, x) PROVE PhotosSafe'
  <2>1. photoReq'[p] = [op |-> "complete", on |-> {x}, gone |-> {}, num |-> 0]
    <3>1. PhotoGoes(p, "idle", [PhotoIdle EXCEPT !.op = "complete", !.on = {x}])
      BY <1>b DEF CompleteUpload
    <3>2. photoReq'[p] = [PhotoIdle EXCEPT !.op = "complete", !.on = {x}]
      BY <1>0, <3>1, PhotoMoves
    <3> QED
      BY <3>2 DEF PhotoIdle
  <2>2. x \in Live("pending")'
    BY <1>b DEF CompleteUpload, Live
  <2>3. Knows(p)'
    BY <2>1, <2>2 DEF Knows
  <2> QED
    BY <1>b, <2>3, SessionStep DEF CompleteUpload
<1>c. ASSUME NEW x \in Photo, DeletePhoto(p, x) PROVE PhotosSafe'
  <2> DEFINE n == IF photo[x].status = "ready" THEN photo[x].bytes ELSE 0
  <2>1. photoReq'[p] = [op |-> "delete", on |-> {x}, gone |-> {}, num |-> n]
    <3>1. PhotoGoes(p, "idle", [PhotoIdle EXCEPT !.op = "delete", !.on = {x}, !.num = n])
      BY <1>c DEF DeletePhoto
    <3>2. photoReq'[p] = [PhotoIdle EXCEPT !.op = "delete", !.on = {x}, !.num = n]
      BY <1>0, <3>1, PhotoMoves
    <3> QED
      BY <3>2 DEF PhotoIdle
  <2>2. photo'[x].status # "none" /\ ~photo'[x].deleted /\ photo' = photo
    BY <1>c DEF DeletePhoto
  <2>3. Knows(p)'
    BY <2>1, <2>2 DEF Knows
  <2> QED
    BY <1>c, <2>3, SessionStep DEF DeletePhoto
<1>d. ASSUME Reap(p) PROVE PhotosSafe'
  <2>1. photoReq'[p] = [op |-> "reap", on |-> StalePending, gone |-> {}, num |-> 0]
    <3>1. PhotoGoes(p, "idle", [PhotoIdle EXCEPT !.op = "reap", !.on = StalePending])
      BY <1>d DEF Reap
    <3>2. photoReq'[p] = [PhotoIdle EXCEPT !.op = "reap", !.on = StalePending]
      BY <1>0, <3>1, PhotoMoves
    <3> QED
      BY <3>2 DEF PhotoIdle
  <2>2. StalePending \subseteq Live("pending")'
    BY <1>d DEF Reap, StalePending, Live
  <2>3. Knows(p)'
    BY <2>1, <2>2 DEF Knows
  <2> QED
    BY <1>d, <2>3, SessionStep DEF Reap
<1>e. ASSUME Kill(p) PROVE PhotosSafe'
  <2>1. photoReq'[p] = PhotoIdle
    BY <1>0, <1>e, PhotoMoves DEF Kill
  <2>2. Knows(p)'
    BY <2>1, IdleKnows
  <2> QED
    BY <1>e, <2>2, SessionStep DEF Kill
<1> QED
  BY <1>a, <1>b, <1>c, <1>d, <1>e

\* What the check has just found free is kept for the session.
LEMMA CheckSafe ==
    ASSUME PhotosInv, ~collided, NEW p \in PhotoSession, CheckQuota(p)
    PROVE  PhotosSafe'
<1>0. PhotosTypeOK /\ Knows(p) /\ photoReq[p] \in SessionType
  BY PhotosTypes DEF PhotosInv, PhotosSafe, AllKnow
<1>1. CASE Exceeds(p, ReservedBytes)
  <2>1. photoReq'[p] = PhotoIdle
    BY <1>0, <1>1, PhotoMoves DEF CheckQuota
  <2>2. Knows(p)'
    BY <2>1, IdleKnows
  <2> QED
    BY <2>2, SessionStep DEF CheckQuota
<1>2. CASE ~Exceeds(p, ReservedBytes)
  <2>1. photoReq[p].op = "ask" /\ photoReq'[p] = [photoReq[p] EXCEPT !.op = "reserve"]
    BY <1>0, <1>2, PhotoMoves DEF CheckQuota
  <2>2. /\ photoReq'[p].op = "reserve" /\ photoReq'[p].on = photoReq[p].on
        /\ photoReq'[p].gone = photoReq[p].gone
    BY <1>0, <2>1 DEF SessionType
  <2>3. photoReq[p].gone = {} /\ \A x \in photoReq[p].on : photo'[x] = NoPhoto
    BY <1>0, <2>1 DEF Knows, CheckQuota
  <2>4. /\ ReservedBytes' = ReservedBytes /\ BytesBeyond' = BytesBeyond /\ used' = used
        /\ used \in Nat /\ ReservedBytes \in Nat /\ BytesBeyond \in Nat
        /\ Claim \in Nat /\ Quota \in Nat /\ photoReq[p].num \in Nat
        /\ used <= photoReq[p].num
    BY <1>0, <2>1, RowsKept, PhotosTypes DEF CheckQuota, SessionType, Knows
  <2> DEFINE c == Claim * Cardinality(photoReq[p].on)
  <2>5. c \in Nat
    <3>1. IsFiniteSet(photoReq[p].on)
      BY <1>0, PhotoQuotaAssumption, FS_Subset DEF SessionType
    <3>2. Cardinality(photoReq[p].on) \in Nat
      BY <3>1, FS_CardinalityType
    <3> QED
      BY <2>4, <3>2
  <2>6. ~(photoReq[p].num + ReservedBytes + c > Quota)
    BY <1>2 DEF Exceeds
  <2>7. used' + ReservedBytes' + c <= Quota + BytesBeyond'
    <3> HIDE DEF c
    <3> QED
      BY <2>4, <2>5, <2>6
  <2>8. Knows(p)'
    BY <2>2, <2>3, <2>7 DEF Knows
  <2> QED
    BY <2>8, SessionStep DEF CheckQuota
<1> QED
  BY <1>1, <1>2

\* Uploads, and the passing of time.
LEMMA ClientSafe ==
    ASSUME PhotosInv, ~collided, NEW x \in Photo, Put(x) \/ Expire(x)
    PROVE  PhotosSafe'
<1>0. /\ object \in [Photo -> Nat] /\ photoReq' = photoReq /\ photo' = photo
      /\ used' = used
  BY PhotosTypes DEF PhotosInv, Put, Expire
<1>1. \A y \in Photo : object[y] # 0 => object'[y] = object[y]
  BY <1>0 DEF Put, Expire
<1>2. MeterIsExact' /\ GalleryHasObjects' /\ QuotaKept'
  BY <1>0, <1>1, QuietStep DEF Live
<1>3. ASSUME NEW q \in PhotoSession PROVE Knows(q)'
  <2>1. Knows(q) /\ Busy(q) \subseteq Photo
    BY PhotosTypes DEF PhotosInv, PhotosSafe, AllKnow, Busy, SessionType
  <2>2. photoReq[q].op = "confirm" => \A y \in Busy(q) : object'[y] = object[y]
    <3>1. photoReq[q].op = "confirm" => \A y \in Busy(q) : object[y] # 0
      BY <2>1 DEF Knows, Busy
    <3> QED
      BY <1>1, <2>1, <3>1
  <2> QED
    BY <1>0, <2>2, OthersKnowQuiet
<1> QED
  BY <1>2, <1>3 DEF PhotosSafe, AllKnow

\* HEAD touches the object of the session's own photo, which is pending.
LEMMA HeadSafe ==
    ASSUME PhotosInv, ~collided, NEW p \in PhotoSession, HeadObject(p)
    PROVE  PhotosSafe'
<1>0. PhotosTypeOK /\ CollisionsNoted /\ Knows(p) /\ object \in [Photo -> Nat]
  BY PhotosTypes DEF PhotosInv, PhotosSafe, AllKnow
<1>1. PICK x \in photoReq[p].on :
        /\ PhotoGoes(p, "complete",
              IF object[x] = 0 THEN PhotoIdle
              ELSE [photoReq[p] EXCEPT !.op = IF object[x] > MaxUpload THEN "tooBig"
                                              ELSE "confirm",
                                       !.num = object[x]])
        /\ object' = [object EXCEPT ![x] = IF @ > MaxUpload THEN 0 ELSE @]
        /\ UNCHANGED <<photo, expired, used>> /\ WatchPhoto
  BY DEF HeadObject
<1>2. photoReq[p].op = "complete" /\ photoReq[p] \in SessionType
  BY <1>0, <1>1, PhotoMoves, PhotosTypes
<1>3. x \in Live("pending") /\ photoReq[p].on = {x} /\ x \in Photo
  BY <1>0, <1>2 DEF Knows, Live
<1>4. \A y \in Photo : y # x => object'[y] = object[y]
  BY <1>0, <1>1
<1>5. object'[x] = IF object[x] > MaxUpload THEN 0 ELSE object[x]
  BY <1>0, <1>1, <1>3
<1>6. MeterIsExact' /\ GalleryHasObjects' /\ QuotaKept'
  <2>1. \A y \in Live("ready") : object'[y] = object[y]
    BY <1>3, <1>4 DEF Live
  <2> QED
    BY <1>1, <2>1, QuietStep
<1>7. ASSUME NEW q \in PhotoSession, q # p PROVE Knows(q)'
  <2>1. photoReq'[q] = photoReq[q]
    BY <1>0, <1>1, <1>7, PhotoMoves
  <2>2. x \notin Busy(q) /\ Busy(q) \subseteq Photo
    BY <1>0, <1>3, <1>7, Strangers, PhotosTypes DEF Busy, SessionType
  <2>3. \A y \in Busy(q) : object'[y] = object[y]
    BY <1>4, <2>2
  <2> QED
    BY <1>1, <2>1, <2>3, OthersKnowQuiet
<1>8. Knows(p)'
  <2>1. x \in Live("pending")'
    BY <1>1, <1>3 DEF Live
  <2>2. CASE object[x] = 0
    <3>1. photoReq'[p] = PhotoIdle
      BY <1>0, <1>1, <2>2, PhotoMoves
    <3> QED
      BY <3>1, IdleKnows
  <2>3. CASE object[x] # 0
    <3>1. photoReq'[p] = [photoReq[p] EXCEPT !.op = IF object[x] > MaxUpload THEN "tooBig"
                                                    ELSE "confirm",
                                             !.num = object[x]]
      BY <1>0, <1>1, <2>3, PhotoMoves
    <3>2. /\ photoReq'[p].op = IF object[x] > MaxUpload THEN "tooBig" ELSE "confirm"
          /\ photoReq'[p].num = object[x] /\ photoReq'[p].on = {x}
          /\ photoReq'[p].gone = {}
      BY <1>0, <1>2, <1>3, <3>1 DEF SessionType, Knows
    <3>3. photoReq'[p].op = "confirm" => object'[x] = object[x]
      BY <1>5, <3>2
    <3> QED
      BY <2>1, <2>3, <3>2, <3>3 DEF Knows
  <2> QED
    BY <2>2, <2>3
<1> QED
  BY <1>6, <1>7, <1>8 DEF PhotosSafe, AllKnow

\* The reaper deletes objects of photos that are pending or deleted, none of
\* which another session is confirming.
LEMMA ReapObjectsSafe ==
    ASSUME PhotosInv, ~collided, NEW p \in PhotoSession, ReapObjects(p)
    PROVE  PhotosSafe'
<1>0. PhotosTypeOK /\ CollisionsNoted /\ Knows(p) /\ object \in [Photo -> Nat]
  BY PhotosTypes DEF PhotosInv, PhotosSafe, AllKnow
<1>1. PhotoGoes(p, "reap", [photoReq[p] EXCEPT !.op = "purge", !.gone = DeletedUnpurged])
  BY DEF ReapObjects
<1>2. /\ photoReq[p].op = "reap" /\ photoReq[p] \in SessionType
      /\ photoReq'[p] = [photoReq[p] EXCEPT !.op = "purge", !.gone = DeletedUnpurged]
  BY <1>0, <1>1, PhotoMoves, PhotosTypes
<1>3. photoReq[p].on \subseteq Live("pending") /\ photoReq[p].gone = {}
  BY <1>0, <1>2 DEF Knows
<1>4. /\ \A y \in Photo : y \notin photoReq[p].on \cup DeletedUnpurged => object'[y] = object[y]
      /\ photo' = photo /\ used' = used
  BY DEF ReapObjects
<1>5. MeterIsExact' /\ GalleryHasObjects' /\ QuotaKept'
  <2>1. \A y \in Live("ready") : object'[y] = object[y]
    BY <1>3, <1>4 DEF Live, DeletedUnpurged
  <2> QED
    BY <1>4, <2>1, QuietStep
<1>6. ASSUME NEW q \in PhotoSession, q # p PROVE Knows(q)'
  <2>1. photoReq'[q] = photoReq[q] /\ Knows(q)
    BY <1>0, <1>1, <1>6, PhotoMoves DEF PhotosInv, PhotosSafe, AllKnow
  <2>2. photoReq[p].on \cap Busy(q) = {} /\ Busy(q) \subseteq Photo
    BY <1>0, <1>6, Strangers, PhotosTypes DEF Busy, SessionType
  <2>3. photoReq[q].op = "confirm" => \A y \in Busy(q) : object'[y] = object[y]
    <3>1. photoReq[q].op = "confirm" => Busy(q) \subseteq Live("pending")
      BY <2>1 DEF Knows, Busy
    <3> QED
      BY <1>4, <2>2, <3>1 DEF Live, DeletedUnpurged
  <2> QED
    BY <1>4, <2>1, <2>3, OthersKnowQuiet
<1>7. Knows(p)'
  <2>1. /\ photoReq'[p].op = "purge" /\ photoReq'[p].on = photoReq[p].on
        /\ photoReq'[p].gone = DeletedUnpurged
    BY <1>2 DEF SessionType
  <2>2. /\ photoReq[p].on \subseteq Live("pending")'
        /\ \A x \in DeletedUnpurged : photo'[x].deleted
    BY <1>3, <1>4 DEF Live, DeletedUnpurged
  <2> QED
    BY <2>1, <2>2 DEF Knows
<1> QED
  BY <1>5, <1>6, <1>7 DEF PhotosSafe, AllKnow
-----------------------------------------------------------------------------
(* Steps that write rows. *)

\* A commit that writes only its own rows, and leaves the session idle, keeps
\* what the others know, if it takes no room from those that need it.
LEMMA CommitKnows ==
    ASSUME PhotosInv, ~collided, NEW p \in PhotoSession, NEW from,
           PhotoGoes(p, from, PhotoIdle), PhotosTypeOK', object' = object,
           \A x \in Photo : x \notin Busy(p) => photo'[x] = photo[x],
           \/ from \in {"reserve", "confirm"}
           \/ /\ used' <= used
              /\ used' + ReservedBytes' + BytesBeyond <= used + ReservedBytes + BytesBeyond'
    PROVE  AllKnow'
<1>0. /\ PhotosTypeOK /\ CollisionsNoted /\ photoReq[p].op = from
      /\ used' \in Nat /\ photo' \in [Photo -> PhotoRow]
  BY PhotoMoves DEF PhotosInv, PhotosTypeOK, PhotoRow
<1>1. ReservedBytes' \in Nat /\ BytesBeyond' \in Nat
  BY <1>0, SumsAre, SumsCount
<1>2. Knows(p)'
  BY <1>0, PhotoMoves, IdleKnows
<1>3. ASSUME NEW q \in PhotoSession, q # p PROVE Knows(q)'
  <2>1. photoReq'[q] = photoReq[q] /\ Knows(q)
    BY <1>0, <1>3, PhotoMoves DEF PhotosInv, PhotosSafe, AllKnow
  <2>2. Busy(p) \cap Busy(q) = {} /\ Busy(q) \subseteq Photo
    BY <1>0, <1>3, Strangers, PhotosTypes DEF Busy, SessionType
  <2>3. \A x \in Busy(q) : photo'[x] = photo[x]
    BY <2>2
  <2>4. photoReq[q].op \in {"ask", "reserve"} =>
          /\ used' <= used
          /\ used' + ReservedBytes' + BytesBeyond <= used + ReservedBytes + BytesBeyond'
    BY <1>0, <1>3, Strangers
  <2> QED
    BY <1>0, <1>1, <2>1, <2>3, <2>4, OthersKnow
<1> QED
  BY <1>2, <1>3 DEF AllKnow

LEMMA SumsBefore ==
    ASSUME PhotosInv, ~collided
    PROVE  /\ used = ReadyBytes /\ used + ReservedBytes <= Quota + BytesBeyond
           /\ \A x \in Live("ready") : object[x] # 0
BY DEF PhotosInv, PhotosSafe, MeterIsExact, QuotaKept, GalleryHasObjects

LEMMA InitiateSafe ==
    ASSUME PhotosInv, ~collided, NEW p \in PhotoSession, CommitInitiate(p), PhotosTypeOK'
    PROVE  PhotosSafe'
<1>0. /\ PhotosTypeOK /\ Knows(p) /\ photo \in [Photo -> PhotoRow]
      /\ photo' \in [Photo -> PhotoRow]
  BY PhotosTypes DEF PhotosInv, PhotosSafe, AllKnow, PhotosTypeOK, PhotoRow
<1>1. PhotoGoes(p, "reserve", PhotoIdle) /\ object' = object /\ used' = used
  BY DEF CommitInitiate
<1>2. /\ photoReq[p].op = "reserve" /\ photoReq[p] \in SessionType
      /\ photoReq[p].on \in SUBSET Photo
  BY <1>0, <1>1, PhotoMoves, PhotosTypes DEF SessionType
<1>3. /\ \A x \in photoReq[p].on : photo[x] = NoPhoto
      /\ used + ReservedBytes + Claim * Cardinality(photoReq[p].on) <= Quota + BytesBeyond
  BY <1>0, <1>2 DEF Knows
<1>4. \A x \in Photo \ photoReq[p].on : photo'[x] = photo[x]
  BY DEF CommitInitiate
<1>5. \A x \in photoReq[p].on :
         photo'[x].status = "pending" /\ ~photo'[x].deleted /\ photo'[x].reserved = Claim
  <2>1. \A x \in photoReq[p].on :
           photo'[x] = [NoPhoto EXCEPT !.status = "pending", !.reserved = Claim]
    BY <1>2 DEF CommitInitiate
  <2> QED
    BY <2>1 DEF NoPhoto
<1>6. \A x \in photoReq[p].on : photo[x].status = "none"
  BY <1>3 DEF NoPhoto
<1>7. /\ PromisedIn(photo') = PromisedIn(photo) + Claim * Cardinality(photoReq[p].on)
      /\ ConfirmedIn(photo') = ConfirmedIn(photo) /\ BeyondIn(photo') = BeyondIn(photo)
      /\ Cardinality(photoReq[p].on) \in Nat
  BY <1>0, <1>2, <1>4, <1>5, <1>6, RowsReserved
<1>8. /\ ReservedBytes' = ReservedBytes + Claim * Cardinality(photoReq[p].on)
      /\ ReadyBytes' = ReadyBytes /\ BytesBeyond' = BytesBeyond
  BY <1>7, SumsAre
<1>9. MeterIsExact'
  BY <1>1, <1>8, SumsBefore DEF MeterIsExact
<1>10. QuotaKept'
  <2> DEFINE c == Claim * Cardinality(photoReq[p].on)
  <2>1. c \in Nat
    BY <1>0, <1>7, PhotosTypes
  <2>2. used + ReservedBytes + c <= Quota + BytesBeyond /\ ReservedBytes' = ReservedBytes + c
    BY <1>3, <1>8
  <2> HIDE DEF c
  <2>3. used' + ReservedBytes' <= Quota + BytesBeyond'
    BY <1>0, <1>1, <1>8, <2>1, <2>2, PhotosTypes
  <2> QED
    BY <2>3 DEF QuotaKept
<1>11. GalleryHasObjects'
  <2>1. Live("ready")' = Live("ready")
    BY <1>4, <1>5, <1>6 DEF Live
  <2> QED
    BY <1>1, <2>1, SumsBefore DEF GalleryHasObjects
<1>12. AllKnow'
  <2>1. \A x \in Photo : x \notin Busy(p) => photo'[x] = photo[x]
    BY <1>4 DEF Busy
  <2> QED
    BY <1>1, <2>1, CommitKnows
<1> QED
  BY <1>9, <1>10, <1>11, <1>12 DEF PhotosSafe

\* The sums, when one row of the model changes.
LEMMA OneRowWritten ==
    ASSUME PhotosTypeOK, PhotosTypeOK', NEW x \in Photo,
           \A y \in Photo : y # x => photo'[y] = photo[y]
    PROVE  /\ ReservedBytes' - Promise(photo'[x]) = ReservedBytes - Promise(photo[x])
           /\ ReadyBytes' - Confirmed(photo'[x]) = ReadyBytes - Confirmed(photo[x])
           /\ BytesBeyond' - Beyond(photo'[x]) = BytesBeyond - Beyond(photo[x])
           /\ ReservedBytes' \in Nat /\ ReadyBytes' \in Nat /\ BytesBeyond' \in Nat
<1>1. photo \in [Photo -> PhotoRow] /\ photo' \in [Photo -> PhotoRow]
  BY DEF PhotosTypeOK, PhotoRow
<1>2. ReservedBytes' \in Nat /\ ReadyBytes' \in Nat /\ BytesBeyond' \in Nat
  BY <1>1, SumsAre, SumsCount
<1> QED
  BY <1>1, <1>2, SumsAre, OneRowChanges

\* A pending photo leaves the pending ones, with the claim it held.
LEMMA PendingWritten ==
    ASSUME PhotosTypeOK, PhotosTypeOK', ClaimsHeld, NEW x \in Photo, x \in Live("pending"),
           \A y \in Photo : y # x => photo'[y] = photo[y], photo'[x].status # "pending"
    PROVE  /\ ReservedBytes' = ReservedBytes - Claim
           /\ ReadyBytes' = ReadyBytes + Confirmed(photo'[x])
           /\ BytesBeyond' = BytesBeyond + Beyond(photo'[x])
           /\ ReservedBytes' \in Nat /\ ReadyBytes' \in Nat /\ BytesBeyond' \in Nat
<1>1. /\ ReservedBytes' - Promise(photo'[x]) = ReservedBytes - Promise(photo[x])
      /\ ReadyBytes' - Confirmed(photo'[x]) = ReadyBytes - Confirmed(photo[x])
      /\ BytesBeyond' - Beyond(photo'[x]) = BytesBeyond - Beyond(photo[x])
      /\ ReservedBytes' \in Nat /\ ReadyBytes' \in Nat /\ BytesBeyond' \in Nat
  BY OneRowWritten
<1>2. Promise(photo[x]) = Claim /\ Confirmed(photo[x]) = 0 /\ Beyond(photo[x]) = 0
  BY DEF Promise, Confirmed, Beyond, Live, ClaimsHeld
<1>3. /\ Promise(photo'[x]) = 0 /\ Confirmed(photo'[x]) \in Nat /\ Beyond(photo'[x]) \in Nat
  <2>1. photo'[x].bytes \in Nat /\ Claim \in Nat
    BY PhotosTypes DEF PhotosTypeOK
  <2> QED
    BY <2>1 DEF Promise, Confirmed, Beyond
<1>4. /\ ReservedBytes \in Nat /\ ReadyBytes \in Nat /\ BytesBeyond \in Nat /\ Claim \in Nat
  BY PhotosTypes
<1>5. ReservedBytes' = ReservedBytes - Claim
  <2>1. \A m, n, c \in Nat : m - 0 = n - c => m = n - c
    OBVIOUS
  <2>2. ReservedBytes' - 0 = ReservedBytes - Claim
    BY <1>1, <1>2, <1>3
  <2>3. ReservedBytes' \in Nat /\ ReservedBytes \in Nat /\ Claim \in Nat
    BY <1>1, <1>4
  <2> QED
    BY <2>1, <2>2, <2>3
<1>6. ReadyBytes' = ReadyBytes + Confirmed(photo'[x])
  BY <1>1, <1>2, <1>3, <1>4
<1>7. BytesBeyond' = BytesBeyond + Beyond(photo'[x])
  BY <1>1, <1>2, <1>3, <1>4
<1> QED
  BY <1>1, <1>5, <1>6, <1>7

\* What the photo promised becomes the bytes it was found to have ...
LEMMA ConfirmSafe ==
    ASSUME PhotosInv, ~collided, NEW p \in PhotoSession, CommitConfirm(p), PhotosTypeOK'
    PROVE  PhotosSafe'
<1>0. /\ PhotosTypeOK /\ ClaimsHeld /\ Knows(p) /\ object \in [Photo -> Nat]
  BY PhotosTypes DEF PhotosInv, PhotosSafe, AllKnow
<1>1. /\ PhotoGoes(p, "confirm", PhotoIdle) /\ object' = object
      /\ photoReq[p].op = "confirm" /\ used' = used + photoReq[p].num
  BY DEF CommitConfirm, PhotoGoes
<1>2. PICK x \in Photo : x \in Live("pending") /\ photoReq[p].on = {x}
  BY <1>0, <1>1 DEF Knows, Live
<1>3. photo[x] \in PhotoRow /\ ~photo[x].deleted /\ photoReq[p].num \in Nat
  BY <1>0, <1>2, PhotosTypes DEF Live, SessionType
<1>4. \A y \in Photo : y # x => photo'[y] = photo[y]
  BY <1>2 DEF CommitConfirm
<1>5. photo'[x].status = "ready" /\ ~photo'[x].deleted /\ photo'[x].bytes = photoReq[p].num
  <2>1. photo'[x] = [photo[x] EXCEPT !.status = "ready", !.reserved = 0,
                                     !.bytes = photoReq[p].num]
    BY <1>2 DEF CommitConfirm
  <2> QED
    BY <1>3, <2>1 DEF PhotoRow
<1>6. /\ Confirmed(photo'[x]) = photoReq[p].num
      /\ Beyond(photo'[x]) = IF photoReq[p].num > Claim THEN photoReq[p].num - Claim ELSE 0
  BY <1>5 DEF Confirmed, Beyond
<1>7. /\ ReservedBytes' = ReservedBytes - Claim
      /\ ReadyBytes' = ReadyBytes + Confirmed(photo'[x])
      /\ BytesBeyond' = BytesBeyond + Beyond(photo'[x])
  BY <1>0, <1>2, <1>4, <1>5, PendingWritten
<1>8. /\ ReservedBytes' = ReservedBytes - Claim
      /\ ReadyBytes' = ReadyBytes + photoReq[p].num
      /\ BytesBeyond' = BytesBeyond
            + (IF photoReq[p].num > Claim THEN photoReq[p].num - Claim ELSE 0)
  BY <1>6, <1>7
<1>9. /\ used \in Nat /\ ReservedBytes \in Nat /\ ReadyBytes \in Nat /\ BytesBeyond \in Nat
      /\ Claim \in Nat /\ Quota \in Nat
      /\ used = ReadyBytes /\ used + ReservedBytes <= Quota + BytesBeyond
  BY <1>0, PhotosTypes, SumsBefore
<1>10. used' = ReadyBytes'
  BY <1>1, <1>8, <1>9
<1>11. used' + ReservedBytes' <= Quota + BytesBeyond'
  BY <1>1, <1>3, <1>8, <1>9
<1>12. GalleryHasObjects'
  <2>1. object'[x] # 0
    BY <1>0, <1>1, <1>2 DEF Knows
  <2>2. \A y \in Live("ready")' : y = x \/ y \in Live("ready")
    BY <1>4 DEF Live
  <2> QED
    BY <1>1, <2>1, <2>2, SumsBefore DEF GalleryHasObjects
<1>13. AllKnow'
  <2>1. \A y \in Photo : y \notin Busy(p) => photo'[y] = photo[y]
    BY <1>2, <1>4 DEF Busy
  <2> QED
    BY <1>1, <2>1, CommitKnows
<1> QED
  BY <1>10, <1>11, <1>12, <1>13 DEF PhotosSafe, MeterIsExact, QuotaKept

\* ... and nothing when its upload was too big.
LEMMA TooBigSafe ==
    ASSUME PhotosInv, ~collided, NEW p \in PhotoSession, CommitTooBig(p), PhotosTypeOK'
    PROVE  PhotosSafe'
<1>0. /\ PhotosTypeOK /\ ClaimsHeld /\ Knows(p)
  BY DEF PhotosInv, PhotosSafe, AllKnow
<1>1. /\ PhotoGoes(p, "tooBig", PhotoIdle) /\ object' = object
      /\ photoReq[p].op = "tooBig" /\ used' = used
  BY DEF CommitTooBig, PhotoGoes
<1>2. PICK x \in Photo : x \in Live("pending") /\ photoReq[p].on = {x}
  BY <1>0, <1>1 DEF Knows, Live
<1>3. photo[x] \in PhotoRow
  BY <1>0, PhotosTypes
<1>4. \A y \in Photo : y # x => photo'[y] = photo[y]
  BY <1>2 DEF CommitTooBig
<1>5. photo'[x].status = "failed"
  <2>1. photo'[x] = [photo[x] EXCEPT !.status = "failed", !.reserved = 0]
    BY <1>2 DEF CommitTooBig
  <2> QED
    BY <1>3, <2>1 DEF PhotoRow
<1>6. Confirmed(photo'[x]) = 0 /\ Beyond(photo'[x]) = 0
  BY <1>5 DEF Confirmed, Beyond
<1>7. /\ ReservedBytes' = ReservedBytes - Claim
      /\ ReadyBytes' = ReadyBytes + Confirmed(photo'[x])
      /\ BytesBeyond' = BytesBeyond + Beyond(photo'[x])
  BY <1>0, <1>2, <1>4, <1>5, PendingWritten
<1>9. /\ used \in Nat /\ ReservedBytes \in Nat /\ ReadyBytes \in Nat /\ BytesBeyond \in Nat
      /\ Claim \in Nat /\ Quota \in Nat
      /\ used = ReadyBytes /\ used + ReservedBytes <= Quota + BytesBeyond
  BY <1>0, PhotosTypes, SumsBefore
<1>8. ReservedBytes' = ReservedBytes - Claim /\ ReadyBytes' = used /\ BytesBeyond' = BytesBeyond
  BY <1>6, <1>7, <1>9
<1>10. used' = ReadyBytes' /\ used' <= used
  BY <1>1, <1>8, <1>9
<1>11. \A u, r, c, b, q \in Nat :
         /\ u + r <= q + b => u + (r - c) <= q + b
         /\ u + (r - c) + b <= u + r + b
  OBVIOUS
<1>12. /\ used' + ReservedBytes' <= Quota + BytesBeyond'
       /\ used' + ReservedBytes' + BytesBeyond <= used + ReservedBytes + BytesBeyond'
  BY <1>1, <1>8, <1>9, <1>11
<1>13. GalleryHasObjects'
  <2>1. \A y \in Live("ready")' : y \in Live("ready")
    BY <1>4, <1>5 DEF Live
  <2> QED
    BY <1>1, <2>1, SumsBefore DEF GalleryHasObjects
<1>14. AllKnow'
  <2>1. \A y \in Photo : y \notin Busy(p) => photo'[y] = photo[y]
    BY <1>2, <1>4 DEF Busy
  <2> QED
    BY <1>1, <1>10, <1>12, <2>1, CommitKnows
<1> QED
  BY <1>10, <1>12, <1>13, <1>14 DEF PhotosSafe, MeterIsExact, QuotaKept

\* A delete takes off what the photo added, so the clamp at zero is not needed.
LEMMA DeleteSafe ==
    ASSUME PhotosInv, ~collided, NEW p \in PhotoSession, CommitDeletePhoto(p), PhotosTypeOK'
    PROVE  PhotosSafe'
<1>0. /\ PhotosTypeOK /\ ClaimsHeld /\ Knows(p) /\ photo \in [Photo -> PhotoRow]
      /\ photo' \in [Photo -> PhotoRow] /\ object \in [Photo -> Nat]
  BY PhotosTypes DEF PhotosInv, PhotosSafe, AllKnow, PhotosTypeOK, PhotoRow
<1>1. /\ PhotoGoes(p, "delete", PhotoIdle) /\ object' = object
      /\ photoReq[p].op = "delete"
      /\ used' = IF used > photoReq[p].num THEN used - photoReq[p].num ELSE 0
  BY DEF CommitDeletePhoto, PhotoGoes
<1>2. PICK x \in Photo :
        /\ photoReq[p].on = {x} /\ photo[x].status # "none" /\ ~photo[x].deleted
        /\ photoReq[p].num = IF photo[x].status = "ready" THEN photo[x].bytes ELSE 0
  BY <1>0, <1>1 DEF Knows
<1>3. /\ photo[x] \in PhotoRow /\ photo[x].bytes \in Nat
      /\ photo[x].reserved \in Nat /\ Claim \in Nat
  BY <1>0, PhotosTypes DEF PhotoRow
<1>4. \A y \in Photo : y # x => photo'[y] = photo[y]
  BY <1>2 DEF CommitDeletePhoto
<1>5. /\ ReservedBytes' - Promise(photo'[x]) = ReservedBytes - Promise(photo[x])
      /\ ReadyBytes' - Confirmed(photo'[x]) = ReadyBytes - Confirmed(photo[x])
      /\ BytesBeyond' - Beyond(photo'[x]) = BytesBeyond - Beyond(photo[x])
      /\ ReservedBytes' \in Nat /\ ReadyBytes' \in Nat /\ BytesBeyond' \in Nat
  BY <1>0, <1>4, OneRowWritten
<1>6. /\ Promise(photo[x]) \in Nat /\ Confirmed(photo[x]) = photoReq[p].num
      /\ Beyond(photo[x]) \in Nat /\ Beyond(photo[x]) <= photoReq[p].num
      /\ photoReq[p].num \in Nat
  BY <1>2, <1>3 DEF Promise, Confirmed, Beyond
<1>7. photo'[x].deleted
  <2>1. photo'[x] = [photo[x] EXCEPT !.deleted = TRUE, !.reserved = 0]
    BY <1>2 DEF CommitDeletePhoto
  <2> QED
    BY <1>3, <2>1 DEF PhotoRow
<1>8. Promise(photo'[x]) = 0 /\ Confirmed(photo'[x]) = 0 /\ Beyond(photo'[x]) = 0
  BY <1>7 DEF Promise, Confirmed, Beyond
<1>9. /\ used \in Nat /\ ReservedBytes \in Nat /\ ReadyBytes \in Nat /\ BytesBeyond \in Nat
      /\ Quota \in Nat
  BY <1>0, PhotosTypes
<1>10. /\ ReadyBytes' = ReadyBytes - photoReq[p].num
       /\ ReservedBytes' <= ReservedBytes
       /\ BytesBeyond' = BytesBeyond - Beyond(photo[x])
  BY <1>5, <1>6, <1>8, <1>9
<1>11. used' = used - photoReq[p].num /\ used' = ReadyBytes'
  BY <1>1, <1>5, <1>6, <1>9, <1>10, SumsBefore
<1>12. /\ used' + ReservedBytes' <= Quota + BytesBeyond' /\ used' <= used
       /\ used' + ReservedBytes' + BytesBeyond <= used + ReservedBytes + BytesBeyond'
  BY <1>5, <1>6, <1>9, <1>10, <1>11, SumsBefore
<1>13. GalleryHasObjects'
  <2>1. \A y \in Live("ready")' : y \in Live("ready")
    BY <1>4, <1>7 DEF Live
  <2> QED
    BY <1>1, <2>1, SumsBefore DEF GalleryHasObjects
<1>14. AllKnow'
  <2>1. \A y \in Photo : y \notin Busy(p) => photo'[y] = photo[y]
    BY <1>2, <1>4 DEF Busy
  <2> QED
    BY <1>1, <1>12, <2>1, CommitKnows
<1> QED
  BY <1>11, <1>12, <1>13, <1>14 DEF PhotosSafe, MeterIsExact, QuotaKept

\* The reaper's commit writes photos that are pending or deleted.
LEMMA ReapSafe ==
    ASSUME PhotosInv, ~collided, NEW p \in PhotoSession, CommitReap(p), PhotosTypeOK'
    PROVE  PhotosSafe'
<1>0. /\ PhotosTypeOK /\ Knows(p) /\ photo \in [Photo -> PhotoRow]
      /\ photo' \in [Photo -> PhotoRow]
  BY PhotosTypes DEF PhotosInv, PhotosSafe, AllKnow, PhotosTypeOK, PhotoRow
<1>1. PhotoGoes(p, "purge", PhotoIdle) /\ object' = object /\ used' = used
  BY DEF CommitReap
<1>2. /\ photoReq[p].op = "purge" /\ photoReq[p] \in SessionType
      /\ Busy(p) \in SUBSET Photo
  BY <1>0, <1>1, PhotoMoves, PhotosTypes DEF SessionType, Busy
<1>3. \A x \in Busy(p) : photo[x].status = "pending" \/ photo[x].deleted
  BY <1>0, <1>2 DEF Knows, Busy, Live
<1>4. \A x \in Photo : x \notin Busy(p) => photo'[x] = photo[x]
  BY DEF CommitReap
<1>5. \A x \in Busy(p) : photo'[x].status = "purged"
  <2>1. ASSUME NEW x \in Busy(p) PROVE photo'[x].status = "purged"
    <3>1. x \in Photo /\ photo[x] \in PhotoRow
      BY <1>0, <1>2
    <3>2. photo'[x] = [photo[x] EXCEPT !.status = "purged", !.reserved = 0,
                                       !.deleted = @ \/ x \in photoReq[p].on]
      BY <3>1 DEF CommitReap
    <3> QED
      BY <3>1, <3>2 DEF PhotoRow
  <2> QED
    BY <2>1
<1>6. /\ PromisedIn(photo') <= PromisedIn(photo)
      /\ ConfirmedIn(photo') = ConfirmedIn(photo) /\ BeyondIn(photo') = BeyondIn(photo)
  <2>1. \A x \in Photo \ Busy(p) : photo'[x] = photo[x]
    BY <1>4
  <2> QED
    BY <1>0, <1>2, <1>3, <1>5, <2>1, RowsReleased
<1>7. /\ ReservedBytes' <= ReservedBytes /\ ReadyBytes' = ReadyBytes
      /\ BytesBeyond' = BytesBeyond /\ ReservedBytes' \in Nat
  BY <1>0, <1>6, SumsAre, SumsCount
<1>8. /\ used' = ReadyBytes' /\ used' <= used
      /\ used' + ReservedBytes' <= Quota + BytesBeyond'
      /\ used' + ReservedBytes' + BytesBeyond <= used + ReservedBytes + BytesBeyond'
  BY <1>0, <1>1, <1>7, SumsBefore, PhotosTypes
<1>9. GalleryHasObjects'
  <2>1. \A y \in Live("ready")' : y \in Live("ready")
    BY <1>4, <1>5 DEF Live
  <2> QED
    BY <1>1, <2>1, SumsBefore DEF GalleryHasObjects
<1>10. AllKnow'
  BY <1>1, <1>4, <1>8, CommitKnows
<1> QED
  BY <1>8, <1>9, <1>10 DEF PhotosSafe, MeterIsExact, QuotaKept
-----------------------------------------------------------------------------
LEMMA PhotosInvStep == PhotosInv /\ [PhotosNext]_photosVars => PhotosInv'
<1> SUFFICES ASSUME PhotosInv, [PhotosNext]_photosVars PROVE PhotosInv'
  OBVIOUS
<1>1. /\ PhotosTypeOK' /\ ClaimsHeld' /\ CollisionsNoted' /\ (collided => collided')
  BY PhotosTypeStep, ClaimsStep, CollisionsNotedStep DEF PhotosInv
<1>2. CASE collided'
  <2>1. PhotosSafe'
    BY <1>2 DEF PhotosSafe, AllKnow, MeterIsExact, GalleryHasObjects, QuotaKept
  <2> QED
    BY <1>1, <2>1 DEF PhotosInv
<1>3. CASE ~collided'
  <2>0. ~collided
    BY <1>1, <1>3
  <2>1. ASSUME UNCHANGED photosVars PROVE PhotosSafe'
    <3>1. /\ photo' = photo /\ object' = object /\ used' = used /\ photoReq' = photoReq
      BY <2>1 DEF photosVars
    <3>2. MeterIsExact' /\ GalleryHasObjects' /\ QuotaKept'
      BY <2>0, <3>1, QuietStep
    <3>3. \A q \in PhotoSession : Knows(q)'
      BY <2>0, <3>1, OthersKnowQuiet
    <3>4. AllKnow'
      BY <3>3 DEF AllKnow
    <3> QED
      BY <3>2, <3>4 DEF PhotosSafe
  <2>2. ASSUME NEW p \in PhotoSession, PhotoGoesOn(p) PROVE PhotosSafe'
    BY <1>1, <2>0, <2>2, CheckSafe, InitiateSafe, HeadSafe, ConfirmSafe, TooBigSafe,
       DeleteSafe, ReapObjectsSafe, ReapSafe DEF PhotoGoesOn
  <2>3. ASSUME NEW p \in PhotoSession, NEW B \in SUBSET Photo, InitiateUpload(p, B)
        PROVE  PhotosSafe'
    BY <2>0, <2>3, BeginSafe
  <2>4. ASSUME NEW p \in PhotoSession, NEW x \in Photo, CompleteUpload(p, x) \/ DeletePhoto(p, x)
        PROVE  PhotosSafe'
    BY <2>0, <2>4, BeginSafe
  <2>5. ASSUME NEW p \in PhotoSession, Reap(p) \/ Kill(p) PROVE PhotosSafe'
    BY <2>0, <2>5, BeginSafe
  <2>6. ASSUME NEW x \in Photo, Put(x) \/ Expire(x) PROVE PhotosSafe'
    BY <2>0, <2>6, ClientSafe
  <2>7. PhotosSafe'
    BY <2>1, <2>2, <2>3, <2>4, <2>5, <2>6 DEF PhotosNext
  <2> QED
    BY <1>1, <2>7 DEF PhotosInv
<1> QED
  BY <1>2, <1>3

LEMMA PhotosInvariant == PhotosSpec => []PhotosInv
BY PhotosSafeInit, PhotosInvStep, PTL DEF PhotosSpec

(* The meter is the sum of the confirmed photos, for any number of photos and
   sessions, while no two are busy with the same photo. *)
THEOREM MeterStaysExact == PhotosSpec => []MeterIsExact
<1>1. PhotosInv => MeterIsExact
  BY DEF PhotosInv, PhotosSafe
<1> QED
  BY <1>1, PhotosInvariant, PTL

(* Whatever the reaper and its crashes do, a photo in the gallery has its
   object, under the same condition. *)
THEOREM GalleryKeepsObjects == PhotosSpec => []GalleryHasObjects
<1>1. PhotosInv => GalleryHasObjects
  BY DEF PhotosInv, PhotosSafe
<1> QED
  BY <1>1, PhotosInvariant, PTL

(* The quota is kept, apart from bytes uploaded beyond the claims, for any
   quota, claim and upload sizes, under the same condition. *)
THEOREM QuotaIsKept == PhotosSpec => []QuotaKept
<1>1. PhotosInv => QuotaKept
  BY DEF PhotosInv, PhotosSafe
<1> QED
  BY <1>1, PhotosInvariant, PTL
=============================================================================
