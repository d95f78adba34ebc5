------------------------- MODULE CommandOutboxProofs -------------------------
(***************************************************************************)
(* What the mobile outbox never does, proved for any members, family and   *)
(* number of edits, failures and acts of other people.                     *)
(***************************************************************************)
EXTENDS CommandOutbox, WellFoundedInduction, TLAPS

(* Edits are numbered from 1, and nothing holds an edit not made yet. *)
Numbered ==
    /\ \A s \in Target \X Field : latest[s] <= edits
    /\ \A c \in queue : c.id <= edits /\ \A f \in Field : c.payload[f] <= edits
    /\ \A c \in drain.left : c.id <= edits

(* Ids are keys of the table, and so is (kind, target) of the pending ones. *)
Keyed ==
    /\ \A c, d \in queue : c.id = d.id => c = d
    /\ \A c, d \in queue :
          Pending(c) /\ Pending(d) /\ c.kind = d.kind /\ c.target = d.target => c = d

(* A drain replays each command once, and none that has failed. *)
Replaying ==
    /\ drain.phase \in {"idle", "pull"} => drain.left = {}
    /\ \A c, d \in drain.left : c.id = d.id => c = d
    /\ \A c \in queue, d \in drain.left : c.id = d.id => Pending(c)

(* An edit that is the last word on a field of a target is in a command for
   that target, in that field. *)
Owned ==
    \A c \in queue, t \in Target, f \in Field, g \in Field :
        Carries(c.payload, g) /\ c.payload[g] = latest[<<t, f>>] => c.target = t /\ g = f

SignupsAreCreates == \A c \in queue : c.kind = "create" => EditsOf(c.payload) \subseteq signups

(* The commands a drain has left are queued under their ids, and what was
   coalesced into them since it read them is overtaken.  Nothing coalesces
   into a sign-up: the screen shows its member as signed up. *)
Replays(d, c) ==
    /\ c.id = d.id /\ c.kind = d.kind /\ c.target = d.target
    /\ EditsOf(c.payload) \subseteq EditsOf(d.payload) \cup overtaken
    /\ d.kind = "create" => c.payload = d.payload

Snapshot == \A d \in drain.left : Pending(d) /\ \E c \in queue : Replays(d, c)

(* What the answer on its way back says of the command that was sent. *)
Answered ==
    drain.phase = "answered" =>
        /\ drain.answer = "ok" => EditsOf(Current.payload) \subseteq applied
        /\ drain.answer = "conflict" => Current.kind = "create"

(* Alone, a create meets a row only if it is the create that made the row, or
   was queued blindly; else it is refused for the dates. *)
Alone ==
    others = 0 =>
        /\ \A c \in queue : Pending(c) /\ c.kind = "create" /\ c.target \in part
                            => EditsOf(c.payload) \subseteq applied \cup blind
        /\ drain.phase = "answered" /\ drain.answer = "conflict"
               => EditsOf(Current.payload) \subseteq applied \cup blind \cup shutOut

KeyInv == TypeOK /\ Numbered /\ Keyed /\ Replaying
EditInv ==
    /\ Snapshot /\ Owned /\ SignupsAreCreates /\ Answered /\ Alone
    /\ OnlyOvertakenUpdatesLost /\ AloneLossesAreKnown
-----------------------------------------------------------------------------
(* The commands. *)

LEMMA CommandFields ==
  ASSUME NEW c \in Command
  PROVE  /\ c.id \in Nat /\ c.kind \in Kind /\ c.target \in Target
         /\ c.payload \in Payload /\ c.state \in {"pending", "failed"}
         /\ EditsOf(c.payload) \subseteq Nat
         /\ c.kind = "take" <=> c.target = Event
BY DEF Command, Payload, EditsOf

LEMMA NewPayloads ==
  ASSUME NEW old \in Payload, NEW f \in Field, NEW n \in Nat
  PROVE  Only(f, n) \in Payload /\ Merge(old, Only(f, n)) \in Payload
BY DEF Payload, Merge, Only, Carries

(* The command a drain is at is one it has left. *)
LEMMA CurrentIsLeft ==
  ASSUME NEW S \in SUBSET Command, S # {}
  PROVE  (CHOOSE c \in S : \A d \in S : c.id <= d.id) \in S
<1> DEFINE Ids == {c.id : c \in S}
<1>1. Ids \subseteq Nat /\ Ids # {}
  BY CommandFields
<1>2. PICK n \in Ids : \A k \in Ids : ~ (<<k, n>> \in OpToRel(<, Nat))
  BY <1>1, WFMin, NatLessThanWellFounded
<1>3. \A k \in Ids : n <= k
  <2> SUFFICES ASSUME NEW k \in Ids  PROVE n <= k
    OBVIOUS
  <2>1. k \in Nat /\ n \in Nat
    BY <1>1
  <2>2. ~ (k < n)
    BY <1>2, <2>1, Zenon DEF OpToRel
  <2> QED
    BY <2>1, <2>2
<1>4. PICK c \in S : c.id = n
  OBVIOUS
<1>5. \A d \in S : c.id <= d.id
  BY <1>3, <1>4
<1> QED
  BY <1>5

LEMMA CurrentIsACommand ==
  ASSUME TypeOK, drain.left # {}
  PROVE  /\ Current \in drain.left /\ Current \in Command
         /\ Rest \in SUBSET Command
<1>1. drain.left \in SUBSET Command
  BY DEF TypeOK, Drain
<1>2. Current \in drain.left
  BY <1>1, CurrentIsLeft DEF Current
<1> QED
  BY <1>1, <1>2 DEF Rest

(* What a coalescing Enqueue does to each command. *)
Merged(c, kind, target, f) ==
    IF SameKey(c, kind, target)
    THEN [c EXCEPT !.payload = Merge(c.payload, Only(f, edits + 1))] ELSE c

LEMMA MergedIs ==
  ASSUME NEW c \in Command, NEW kind, NEW target, NEW f \in Field, edits \in Nat
  PROVE  /\ Merged(c, kind, target, f) \in Command
         /\ Merged(c, kind, target, f).id = c.id
         /\ Merged(c, kind, target, f).kind = c.kind
         /\ Merged(c, kind, target, f).target = c.target
         /\ Merged(c, kind, target, f).state = c.state
         /\ Merged(c, kind, target, f).payload =
               IF SameKey(c, kind, target) THEN Merge(c.payload, Only(f, edits + 1)) ELSE c.payload
<1> DEFINE n == edits + 1
<1>1. Merge(c.payload, Only(f, n)) \in Payload
  BY CommandFields, NewPayloads
<1> QED
  BY <1>1 DEF Merged, Command

Failed(c) == IF c.id = Current.id THEN [c EXCEPT !.state = "failed"] ELSE c

LEMMA FailedIs ==
  ASSUME NEW c \in Command
  PROVE  /\ Failed(c) \in Command
         /\ Failed(c).id = c.id /\ Failed(c).kind = c.kind
         /\ Failed(c).target = c.target /\ Failed(c).payload = c.payload
         /\ Failed(c).state = IF c.id = Current.id THEN "failed" ELSE c.state
BY DEF Failed, Command

(* Enqueue either merges or appends. *)
Fresh(kind, target, f) ==
    [id |-> edits + 1, kind |-> kind, target |-> target,
     payload |-> Only(f, edits + 1), state |-> "pending"]

LEMMA EnqueueIs ==
  ASSUME NEW kind, NEW target, NEW f, Enqueue(kind, target, f)
  PROVE  \/ /\ \E c \in queue : SameKey(c, kind, target)
            /\ queue' = {Merged(c, kind, target, f) : c \in queue}
         \/ /\ \A c \in queue : ~SameKey(c, kind, target)
            /\ queue' = queue \cup {Fresh(kind, target, f)}
<1>1. CASE \E c \in queue : SameKey(c, kind, target)
  BY <1>1, Zenon DEF Enqueue, Merged
<1>2. CASE \A c \in queue : ~SameKey(c, kind, target)
  BY <1>2, Zenon DEF Enqueue, Fresh
<1> QED
  BY <1>1, <1>2

(* Whatever the user taps is one of these. *)
LEMMA TapIs ==
  ASSUME TypeOK, NEW m \in Member, Rsvp(m) \/ MarkAttended(m) \/ TakeAttendance
  PROVE  \E kind \in Kind, target \in Target, f \in Field :
            /\ Enqueue(kind, target, f)
            /\ kind = "take" <=> target = Event
            /\ kind = "create" => PendingIn(queue, "create", target) = {}
<1>1. m \in Member /\ m # Event
  BY CommandOutboxAssumption
<1>5. m \in Target /\ Event \in Target
  BY DEF Target
<1>2. CASE Rsvp(m)
  <2>1. CASE m \in ShownPart
    BY <1>1, <1>5, <1>2, <2>1 DEF Rsvp, Kind, Field
  <2>2. CASE m \notin ShownPart
    <3>1. Enqueue("create", m, "rsvp")
      BY <1>2, <2>2 DEF Rsvp
    <3>2. PendingIn(queue, "create", m) = {}
      BY <2>2 DEF ShownPart
    <3> QED
      BY <1>1, <1>5, <3>1, <3>2 DEF Kind, Field
  <2> QED
    BY <2>1, <2>2
<1>3. CASE MarkAttended(m)
  BY <1>1, <1>5, <1>3 DEF MarkAttended, Kind, Field
<1>4. CASE TakeAttendance
  BY <1>1, <1>5, <1>4 DEF TakeAttendance, Kind, Field
<1> QED
  BY <1>2, <1>3, <1>4

(* A tap. *)
LEMMA TapStep ==
  ASSUME TypeOK, User
  PROVE  \/ \E kind \in Kind, target \in Target, f \in Field :
               /\ Enqueue(kind, target, f)
               /\ kind = "take" <=> target = Event
               /\ kind = "create" => PendingIn(queue, "create", target) = {}
         \/ \E c \in queue : Discard(c)
<1>1. CASE TakeAttendance
  <2>1. Enqueue("take", Event, "taken")
    BY <1>1 DEF TakeAttendance
  <2> QED
    BY <2>1 DEF Kind, Target, Field
<1> QED
  BY <1>1, TapIs DEF User
-----------------------------------------------------------------------------
(* Types. *)

LEMMA InitTypes == Init => TypeOK
<1> SUFFICES ASSUME Init PROVE TypeOK
  OBVIOUS
<1>1. drain \in Drain /\ drain.phase = "idle"
  BY DEF Init, Idle, Drain
<1> QED
  BY <1>1 DEF Init, TypeOK

LEMMA EnqueueTypes ==
  ASSUME TypeOK, NEW kind \in Kind, NEW target \in Target, NEW f \in Field,
         Enqueue(kind, target, f), kind = "take" <=> target = Event
  PROVE  TypeOK'
<1>1. edits \in Nat /\ edits + 1 \in Nat
  BY DEF TypeOK
<1>2. queue' \subseteq Command
  <2>1. \A c \in queue : Merged(c, kind, target, f) \in Command
    BY <1>1, MergedIs DEF TypeOK
  <2>2. Fresh(kind, target, f) \in Command
    BY <1>1, NewPayloads DEF Fresh, Command, Only, Payload
  <2> QED
    BY <2>1, <2>2, EnqueueIs DEF TypeOK
<1>3. latest' \in [Target \X Field -> Nat]
  BY <1>1 DEF TypeOK, Enqueue
<1>4. signups' \subseteq Nat /\ blind' \subseteq signups' /\ overtaken' \subseteq Nat
  BY <1>1 DEF TypeOK, Enqueue
<1> QED
  BY <1>1, <1>2, <1>3, <1>4 DEF TypeOK, Enqueue, serverVars, mirrorVars

(* The steps that leave the queue, the user and the history as they are. *)
LEMMA DrainFields ==
  ASSUME drain \in Drain
  PROVE  /\ drain.phase \in {"idle", "next", "sent", "answered", "pull"}
         /\ drain.left \in SUBSET Command
         /\ drain.answer \in {"none", "ok", "conflict", "refused"}
BY DEF Drain

LEMMA PhaseChange ==
  ASSUME NEW ph \in {"idle", "next", "sent", "answered", "pull"}, NEW d \in Drain
  PROVE  /\ [d EXCEPT !.phase = ph] \in Drain
         /\ [d EXCEPT !.phase = ph].phase = ph
         /\ [d EXCEPT !.phase = ph].left = d.left
BY DEF Drain

LEMMA LeftChange ==
  ASSUME NEW S \in SUBSET Command
  PROVE  /\ [Idle EXCEPT !.phase = "next", !.left = S] \in Drain
         /\ [Idle EXCEPT !.phase = "next", !.left = S].phase = "next"
         /\ [Idle EXCEPT !.phase = "next", !.left = S].left = S
BY DEF Drain, Idle

LEMMA IdleIs ==
  /\ Idle \in Drain /\ Idle.phase = "idle" /\ Idle.left = {} /\ Idle.answer = "none"
BY DEF Idle, Drain

LEMMA AnswerIs ==
  ASSUME NEW c \in Command
  PROVE  /\ AnswerTo(c) \in {"ok", "conflict", "refused"}
         /\ AnswerTo(c) = "conflict" => c.kind = "create" /\ (SignupsClosed \/ c.target \in part)
BY CommandFields DEF AnswerTo, Kind

(* The steps of a sync, by what they do to the drain. *)
LEMMA DrainMoves ==
  ASSUME TypeOK
  PROVE  /\ StartDrain => /\ drain' \in Drain /\ drain'.phase = "next"
                          /\ drain'.left = {c \in queue : Pending(c)}
         /\ Send => /\ drain' \in Drain /\ drain'.phase = "sent"
                    /\ drain'.left = drain.left /\ drain.left # {}
         /\ Serve => /\ drain' \in Drain /\ drain'.phase = "answered"
                     /\ drain'.left = drain.left /\ drain.left # {}
                     /\ drain'.answer = AnswerTo(Current)
         /\ Settle \/ MarkFailed => /\ drain' \in Drain /\ drain'.phase = "next"
                                    /\ drain'.left = Rest /\ drain.left # {}
         /\ Halt \/ DrainDone => /\ drain' \in Drain /\ drain'.phase = "pull"
                                 /\ drain'.left = {}
         /\ Pull \/ Die => drain' = Idle
<1>1. drain \in Drain /\ queue \subseteq Command
  BY DEF TypeOK
<1>2. ASSUME StartDrain
      PROVE  /\ drain' \in Drain /\ drain'.phase = "next"
             /\ drain'.left = {c \in queue : Pending(c)}
  <2>1. {c \in queue : Pending(c)} \in SUBSET Command
    BY <1>1
  <2> QED
    BY <1>2, <2>1, LeftChange, Zenon DEF StartDrain
<1>3. ASSUME Send
      PROVE  /\ drain' \in Drain /\ drain'.phase = "sent"
             /\ drain'.left = drain.left /\ drain.left # {}
  BY <1>1, <1>3, PhaseChange DEF Send
<1>4. ASSUME Serve
      PROVE  /\ drain' \in Drain /\ drain'.phase = "answered"
             /\ drain'.left = drain.left /\ drain.left # {}
             /\ drain'.answer = AnswerTo(Current)
  <2>1. drain.left # {}
    BY <1>4 DEF Serve, TypeOK
  <2>2. AnswerTo(Current) \in {"none", "ok", "conflict", "refused"}
    BY <2>1, CurrentIsACommand, AnswerIs
  <2>3. PICK a \in {"none", "ok", "conflict", "refused"} : a = AnswerTo(Current)
    BY <2>2
  <2>4. drain' = [drain EXCEPT !.phase = "answered", !.answer = a]
    BY <1>4, <2>3, Zenon DEF Serve
  <2> QED
    <3>1. \A d \in Drain : /\ [d EXCEPT !.phase = "answered", !.answer = a] \in Drain
                          /\ [d EXCEPT !.phase = "answered", !.answer = a].phase = "answered"
                          /\ [d EXCEPT !.phase = "answered", !.answer = a].left = d.left
                          /\ [d EXCEPT !.phase = "answered", !.answer = a].answer = a
      BY <2>3 DEF Drain
    <3> QED
      BY <1>1, <2>1, <2>3, <2>4, <3>1, Zenon
<1>5. ASSUME Settle \/ MarkFailed
      PROVE  /\ drain' \in Drain /\ drain'.phase = "next"
             /\ drain'.left = Rest /\ drain.left # {}
  <2>1. drain.left # {}
    BY <1>5 DEF Settle, MarkFailed, TypeOK
  <2>2. Rest \in SUBSET Command
    BY <2>1, CurrentIsACommand
  <2>3. drain' = [Idle EXCEPT !.phase = "next", !.left = Rest]
    BY <1>5 DEF Settle, MarkFailed
  <2> QED
    BY <2>1, <2>2, <2>3, LeftChange, Zenon
<1>6. ASSUME Halt \/ DrainDone
      PROVE  drain' \in Drain /\ drain'.phase = "pull" /\ drain'.left = {}
  <2>1. drain' = [Idle EXCEPT !.phase = "pull"]
    BY <1>6 DEF Halt, DrainDone
  <2> QED
    BY <2>1, IdleIs, PhaseChange
<1>7. Pull \/ Die => drain' = Idle
  BY DEF Pull, Die
<1> QED
  BY <1>2, <1>3, <1>4, <1>5, <1>6, <1>7

LEMMA SyncTypes ==
  ASSUME TypeOK, Sync \/ Halt \/ Die
  PROVE  TypeOK'
<1>1. drain' \in Drain
  BY DrainMoves, IdleIs DEF Sync
<1>2. (drain.phase \in {"sent", "answered"} => drain.left # {})'
  BY DrainMoves, IdleIs DEF Sync
<1>3. queue' \subseteq Command
  <2>1. CASE Settle
    BY <2>1 DEF Settle, Drop, TypeOK
  <2>2. CASE MarkFailed
    <3>1. queue' = {Failed(c) : c \in queue}
      BY <2>2, Zenon DEF MarkFailed, Failed
    <3> QED
      BY <3>1, FailedIs DEF TypeOK
  <2>3. CASE StartDrain \/ Send \/ Serve \/ DrainDone \/ Pull \/ Halt \/ Die
    BY <2>3 DEF StartDrain, Send, Serve, DrainDone, Pull, Halt, Die, TypeOK
  <2> QED
    BY <2>1, <2>2, <2>3 DEF Sync
<1>4. CASE Serve
  <2>1. Current \in Command
    BY <1>4, DrainMoves, CurrentIsACommand
  <2>2. part' \subseteq Member /\ taken' \in BOOLEAN /\ applied' \subseteq Nat
    <3>1. CASE AnswerTo(Current) = "ok"
      <4>1. Current.kind = "create" => Current.target \in Member
        BY <2>1, CommandFields DEF Target
      <4>2. EditsOf(Current.payload) \subseteq Nat
        BY <2>1, CommandFields
      <4> QED
        BY <1>4, <3>1, <4>1, <4>2 DEF Serve, TypeOK
    <3>2. CASE AnswerTo(Current) # "ok"
      BY <1>4, <3>2 DEF Serve, TypeOK
    <3> QED
      BY <3>1, <3>2
  <2>3. shutOut' \subseteq Nat
    <3>1. EditsOf(Current.payload) \subseteq Nat
      BY <2>1, CommandFields
    <3>2. shutOut' \in {shutOut, shutOut \cup EditsOf(Current.payload)}
      BY <1>4 DEF Serve
    <3> QED
      BY <3>1, <3>2 DEF TypeOK
  <2> QED
    BY <1>1, <1>2, <1>3, <1>4, <2>2, <2>3 DEF Serve, TypeOK, mirrorVars, counters
<1>5. CASE Settle
  <2>1. Current \in Command
    BY <1>5, DrainMoves, CurrentIsACommand
  <2>2. Current.kind # "take" => Current.target \in Member
    BY <2>1, CommandFields DEF Target
  <2>3. mirrorPart' \subseteq Member /\ mirrorTaken' \in BOOLEAN
    BY <1>5, <2>2 DEF Settle, TypeOK, mirrorVars
  <2> QED
    BY <1>1, <1>2, <1>3, <1>5, <2>3 DEF Settle, TypeOK, serverVars, counters, historyVars
<1>6. CASE StartDrain \/ Send \/ MarkFailed \/ DrainDone
  BY <1>1, <1>2, <1>3, <1>6
     DEF StartDrain, Send, MarkFailed, DrainDone, TypeOK, serverVars, mirrorVars, counters, historyVars
<1>7. CASE Pull \/ Halt \/ Die
  BY <1>1, <1>2, <1>3, <1>7
     DEF Pull, Halt, Die, TypeOK, serverVars, mirrorVars, counters, historyVars
<1> QED
  BY <1>4, <1>5, <1>6, <1>7 DEF Sync

Outside == Others \/ SignupsOpen \/ SignupDeadlinePasses

LEMMA OutsideTypes ==
  ASSUME TypeOK, Outside
  PROVE  TypeOK'
<1>1. /\ part' \subseteq Member /\ window' \in Window /\ others' \in Nat
      /\ UNCHANGED <<caller, taken, mirrorVars, queue, drain, edits, halts, historyVars>>
  <2>1. ASSUME NEW m \in Member, OtherSignsUp(m) \/ OtherRemoves(m)
        PROVE  /\ part' \subseteq Member /\ window' \in Window /\ others' \in Nat
               /\ UNCHANGED <<caller, taken, mirrorVars, queue, drain, edits, halts, historyVars>>
    BY <2>1 DEF OtherSignsUp, OtherRemoves, Meanwhile, TypeOK
  <2>2. ASSUME NEW w \in Window, OtherMovesDates(w)
        PROVE  /\ part' \subseteq Member /\ window' \in Window /\ others' \in Nat
               /\ UNCHANGED <<caller, taken, mirrorVars, queue, drain, edits, halts, historyVars>>
    BY <2>2 DEF OtherMovesDates, Meanwhile, TypeOK
  <2>3. CASE SignupsOpen \/ SignupDeadlinePasses
    BY <2>3 DEF SignupsOpen, SignupDeadlinePasses, Days, TypeOK, Window, counters
  <2> QED
    BY <2>1, <2>2, <2>3 DEF Outside, Others
<1> QED
  BY <1>1 DEF TypeOK, mirrorVars, historyVars

LEMMA DiscardTypes ==
  ASSUME TypeOK, NEW c \in queue, Discard(c)
  PROVE  TypeOK'
<1>1. EditsOf(c.payload) \subseteq Nat
  BY CommandFields DEF TypeOK
<1> QED
  BY <1>1 DEF Discard, Drop, TypeOK, serverVars, mirrorVars, counters

LEMMA TypeStep == TypeOK /\ [Next]_vars => TypeOK'
<1> SUFFICES ASSUME TypeOK, [Next]_vars  PROVE TypeOK'
  OBVIOUS
<1>1. CASE User
  BY <1>1, TapStep, EnqueueTypes, DiscardTypes
<1>2. CASE Sync \/ Halt \/ Die
  BY <1>2, SyncTypes
<1>3. CASE Outside
  BY <1>3, OutsideTypes
<1>4. CASE UNCHANGED vars
  BY <1>4 DEF vars, TypeOK, serverVars, mirrorVars, counters, historyVars
<1> QED
  BY <1>1, <1>2, <1>3, <1>4 DEF Next, Outside

(* Type correctness of the outbox, and a request is out only while there is a
   command to send, whatever is tapped while a sync is in flight. *)
THEOREM OutboxTypeCorrect == Spec => []TypeOK
BY InitTypes, TypeStep, PTL DEF Spec
-----------------------------------------------------------------------------
(* Keys. *)

LEMMA InitKeys == Init => KeyInv
BY InitTypes DEF Init, KeyInv, Numbered, Keyed, Replaying, Idle

LEMMA NewNumbers ==
  ASSUME TypeOK, Numbered, NEW f \in Field, NEW g \in Field, NEW c \in queue
  PROVE  /\ Only(f, edits + 1)[g] \in {0, edits + 1}
         /\ Merge(c.payload, Only(f, edits + 1))[g] =
               IF g = f THEN edits + 1 ELSE c.payload[g]
BY CommandFields DEF TypeOK, Merge, Only, Carries, Payload

LEMMA EnqueueKeys ==
  ASSUME KeyInv, NEW kind \in Kind, NEW target \in Target, NEW f \in Field,
         Enqueue(kind, target, f)
  PROVE  (Numbered /\ Keyed /\ Replaying)'
<1> DEFINE n == edits + 1
<1>1. /\ TypeOK /\ Numbered /\ Keyed /\ Replaying
      /\ edits \in Nat /\ queue \subseteq Command /\ drain.left \in SUBSET Command
  BY DrainFields DEF KeyInv, TypeOK
<1>2. edits' = n /\ drain' = drain
  BY DEF Enqueue
<1>3. \A s \in Target \X Field : latest'[s] <= edits'
  BY <1>1, <1>2 DEF Enqueue, TypeOK, Numbered
<1>4. \A c \in drain'.left : c.id <= edits'
  BY <1>1, <1>2, CommandFields DEF Numbered
<1>5. CASE queue' = {Merged(c, kind, target, f) : c \in queue}
  <2>1. ASSUME NEW d \in queue'
        PROVE  \E c \in queue :
                  /\ d = Merged(c, kind, target, f)
                  /\ d.id = c.id /\ d.kind = c.kind /\ d.target = c.target
                  /\ d.state = c.state
    BY <1>1, <1>5, MergedIs
  <2>2. Keyed'
    BY <1>1, <2>1 DEF Keyed, Pending
  <2>3. Replaying'
    BY <1>1, <1>2, <2>1 DEF Replaying, Pending
  <2>4. ASSUME NEW d \in queue', NEW g \in Field  PROVE d.id <= edits' /\ d.payload[g] <= edits'
    <3>1. PICK c \in queue : d = Merged(c, kind, target, f)
      BY <2>1
    <3>2. c \in Command /\ c.id <= edits /\ c.payload[g] <= edits /\ c.payload \in Payload
      BY <1>1, CommandFields DEF Numbered
    <3>3. d.id = c.id /\ d.payload \in {c.payload, Merge(c.payload, Only(f, n))}
      BY <1>1, <3>1, <3>2, MergedIs
    <3>4. d.payload[g] <= n
      BY <1>1, <3>2, <3>3, NewNumbers DEF Payload
    <3> QED
      BY <1>1, <1>2, <3>2, <3>3, <3>4, CommandFields
  <2>5. \A d \in queue' : d.id <= edits' /\ \A g \in Field : d.payload[g] <= edits'
    BY <2>4 DEF Field
  <2> QED
    BY <1>3, <1>4, <2>2, <2>3, <2>5 DEF Numbered
<1>6. CASE /\ \A c \in queue : ~SameKey(c, kind, target)
           /\ queue' = queue \cup {Fresh(kind, target, f)}
  <2> DEFINE new == Fresh(kind, target, f)
  <2>1. /\ new.id = n /\ new.kind = kind /\ new.target = target
        /\ new.payload = Only(f, n) /\ new.state = "pending"
    BY DEF Fresh
  <2>0. queue' = queue \cup {new} /\ \A c \in queue : ~SameKey(c, kind, target)
    BY <1>6
  <2> HIDE DEF new
  <2>2. \A c \in queue : c.id # n
    BY <1>1, CommandFields DEF Numbered
  <2>3. Keyed'
    BY <1>1, <2>0, <2>1, <2>2 DEF Keyed, SameKey
  <2>4. \A c \in drain.left : c.id # n
    BY <1>1, CommandFields DEF Numbered
  <2>5. Replaying'
    BY <1>1, <1>2, <2>0, <2>1, <2>4 DEF Replaying, Pending
  <2>6. ASSUME NEW c \in queue, NEW g \in Field  PROVE c.id <= edits' /\ c.payload[g] <= edits'
    BY <1>1, <1>2, CommandFields DEF Numbered, Payload
  <2>7. ASSUME NEW g \in Field  PROVE new.id <= edits' /\ new.payload[g] <= edits'
    BY <1>1, <1>2, <2>1 DEF Only
  <2>8. \A c \in queue' : c.id <= edits' /\ \A g \in Field : c.payload[g] <= edits'
    BY <2>0, <2>6, <2>7 DEF Field
  <2> QED
    BY <1>3, <1>4, <2>3, <2>5, <2>8 DEF Numbered
<1> QED
  BY <1>5, <1>6, EnqueueIs

(* Steps that only take commands out of the queue, or out of what is left. *)
LEMMA FewerKeys ==
  ASSUME KeyInv, queue' \subseteq queue, drain'.left \subseteq drain.left,
         drain'.phase \in {"idle", "pull"} => drain'.left = {},
         UNCHANGED <<edits, latest>>
  PROVE  (Numbered /\ Keyed /\ Replaying)'
<1>1. Numbered'
  BY DEF KeyInv, Numbered
<1>2. Keyed'
  BY DEF KeyInv, Keyed
<1>3. Replaying'
  BY DEF KeyInv, Replaying
<1> QED
  BY <1>1, <1>2, <1>3

LEMMA SyncKeys ==
  ASSUME KeyInv, Sync \/ Halt \/ Die
  PROVE  (Numbered /\ Keyed /\ Replaying)'
<1>1. TypeOK /\ queue \subseteq Command /\ UNCHANGED <<edits, latest>>
  BY DEF KeyInv, TypeOK, Sync, StartDrain, Send, Serve, Settle, MarkFailed, DrainDone, Pull, Halt, Die,
         counters, historyVars
<1>2. CASE StartDrain
  <2>1. drain'.phase = "next" /\ drain'.left = {c \in queue : Pending(c)}
    BY <1>1, <1>2, DrainMoves
  <2>2. queue' = queue
    BY <1>2 DEF StartDrain
  <2>3. Numbered'
    BY <1>1, <2>1, <2>2 DEF KeyInv, Numbered
  <2>4. Keyed'
    BY <2>2 DEF KeyInv, Keyed
  <2>5. Replaying'
    BY <2>1, <2>2 DEF KeyInv, Keyed, Replaying
  <2> QED
    BY <2>3, <2>4, <2>5
<1>3. CASE MarkFailed
  <2>1. /\ Current \in drain.left /\ drain'.phase = "next" /\ drain'.left = Rest
    BY <1>1, <1>3, DrainMoves, CurrentIsACommand
  <2>2. queue' = {Failed(c) : c \in queue}
    BY <1>3, Zenon DEF MarkFailed, Failed
  <2>3. ASSUME NEW d \in queue'
        PROVE  \E c \in queue :
                  /\ d.id = c.id /\ d.kind = c.kind /\ d.target = c.target
                  /\ d.payload = c.payload
                  /\ d.state = IF c.id = Current.id THEN "failed" ELSE c.state
                  /\ d = Failed(c)
    BY <1>1, <2>2, FailedIs
  <2>4. Numbered'
    <3>1. \A c \in drain'.left : c.id <= edits'
      BY <1>1, <2>1 DEF KeyInv, Numbered, Rest
    <3>2. \A d \in queue' : d.id <= edits' /\ \A g \in Field : d.payload[g] <= edits'
      BY <1>1, <2>3 DEF KeyInv, Numbered
    <3> QED
      BY <1>1, <3>1, <3>2 DEF KeyInv, Numbered
  <2>5. Keyed'
    BY <2>3 DEF KeyInv, Keyed, Pending
  <2>6. Replaying'
    <3>1. \A c \in drain'.left : c.id # Current.id
      BY <2>1 DEF KeyInv, Replaying, Rest
    <3>2. \A c, d \in drain'.left : c.id = d.id => c = d
      BY <2>1 DEF KeyInv, Replaying, Rest
    <3>3. ASSUME NEW d \in queue', NEW e \in drain'.left, d.id = e.id  PROVE Pending(d)
      <4>1. PICK c \in queue : d.id = c.id /\ d.state = IF c.id = Current.id THEN "failed" ELSE c.state
        BY <2>3
      <4>2. Pending(c) /\ c.id # Current.id
        BY <2>1, <3>1, <3>3, <4>1 DEF KeyInv, Replaying, Rest
      <4> QED
        BY <4>1, <4>2 DEF Pending
    <3> QED
      BY <2>1, <3>2, <3>3 DEF Replaying
  <2> QED
    BY <2>4, <2>5, <2>6
<1>4. CASE Settle
  <2>1. drain'.phase = "next" /\ drain'.left = Rest
    BY <1>1, <1>4, DrainMoves
  <2>2. queue' \subseteq queue /\ drain'.left \subseteq drain.left
    BY <1>4, <2>1 DEF Settle, Drop, Rest
  <2> QED
    BY <1>1, <2>1, <2>2, FewerKeys
<1>5. CASE Send \/ Serve \/ DrainDone \/ Pull \/ Halt \/ Die
  <2>1. queue' = queue
    BY <1>5 DEF Send, Serve, DrainDone, Pull, Halt, Die
  <2>2. /\ drain'.left \subseteq drain.left
        /\ drain'.phase \in {"idle", "pull"} => drain'.left = {}
    BY <1>1, <1>5, DrainMoves, IdleIs
  <2> QED
    BY <1>1, <2>1, <2>2, FewerKeys
<1> QED
  BY <1>2, <1>3, <1>4, <1>5 DEF Sync

LEMMA KeyStep == KeyInv /\ [Next]_vars => KeyInv'
<1> SUFFICES ASSUME KeyInv, [Next]_vars  PROVE KeyInv'
  OBVIOUS
<1>1. TypeOK /\ TypeOK'
  BY TypeStep DEF KeyInv
<1>2. (Numbered /\ Keyed /\ Replaying)'
  <2>1. ASSUME NEW c \in queue, Discard(c)
        PROVE  (Numbered /\ Keyed /\ Replaying)'
    <3>1. /\ queue' \subseteq queue /\ drain' = drain /\ UNCHANGED <<edits, latest>>
      BY <2>1 DEF Discard, Drop, counters
    <3> QED
      BY <3>1, FewerKeys DEF KeyInv, Replaying
  <2>2. CASE User
    BY <1>1, <2>1, <2>2, TapStep, EnqueueKeys
  <2>3. CASE Sync \/ Halt \/ Die
    BY <2>3, SyncKeys
  <2>4. CASE Outside \/ UNCHANGED vars
    <3>1. UNCHANGED <<queue, drain, edits, latest>>
      BY <2>4 DEF Outside, Others, OtherSignsUp, OtherRemoves, OtherMovesDates, Meanwhile,
                  SignupsOpen, SignupDeadlinePasses, Days, vars, counters, historyVars
    <3> QED
      BY <3>1, FewerKeys DEF KeyInv, Replaying
  <2> QED
    BY <2>2, <2>3, <2>4 DEF Next, Outside
<1> QED
  BY <1>1, <1>2 DEF KeyInv

(* What the server refused stays on Sync Issues with its edits until the user
   discards it: no later tap merges into it, and no replay touches it. *)
THEOREM FailuresStay == Spec => FailuresAreKept
<1> DEFINE Keeps(c) == c \in queue' \/ EditsOf(c.payload) \subseteq discarded'
<1>1. ASSUME KeyInv, [Next]_vars, NEW c \in queue, ~Pending(c)
      PROVE  Keeps(c)
  <2>1. TypeOK /\ queue \subseteq Command
    BY <1>1 DEF KeyInv, TypeOK
  <2>2. ASSUME NEW kind \in Kind, NEW target \in Target, NEW f \in Field,
               Enqueue(kind, target, f)
        PROVE  c \in queue'
    <3>1. Merged(c, kind, target, f) = c
      BY <1>1 DEF Merged, SameKey
    <3> QED
      BY <2>2, <3>1, EnqueueIs
  <2>3. ASSUME NEW d \in queue, Discard(d)  PROVE Keeps(c)
    BY <1>1, <2>3 DEF Discard, Drop, KeyInv, Keyed
  <2>4. CASE Settle \/ MarkFailed
    <3>1. c.id # Current.id
      BY <1>1, <2>1, <2>4, DrainMoves, CurrentIsACommand DEF KeyInv, Replaying
    <3> QED
      BY <2>4, <3>1 DEF Settle, MarkFailed, Drop
  <2>5. CASE StartDrain \/ Send \/ Serve \/ DrainDone \/ Pull \/ Halt \/ Die
    BY <2>5 DEF StartDrain, Send, Serve, DrainDone, Pull, Halt, Die
  <2>6. CASE Outside \/ UNCHANGED vars
    BY <2>6 DEF Outside, Others, OtherSignsUp, OtherRemoves, OtherMovesDates, Meanwhile,
                SignupsOpen, SignupDeadlinePasses, Days, vars
  <2> QED
    BY <1>1, <2>1, <2>2, <2>3, <2>4, <2>5, <2>6, TapStep DEF Next, Sync, Outside
<1>2. KeyInv /\ [Next]_vars => [\A c \in queue : ~Pending(c) => Keeps(c)]_vars
  BY <1>1
<1> QED
  BY <1>2, InitKeys, KeyStep, PTL DEF Spec, FailuresAreKept
-----------------------------------------------------------------------------
(* Edits. *)

LEMMA EditsOfAre ==
  ASSUME NEW c \in Command, NEW g \in Field
  PROVE  /\ c.payload[g] \in Nat
         /\ c.payload[g] # 0 => c.payload[g] \in EditsOf(c.payload)
BY CommandFields DEF Payload, EditsOf, Carries

(* What is accounted for stays so while payloads stay in the queue, or their
   edits arrive elsewhere. *)
LEMMA AccountedStays ==
  ASSUME TypeOK, NEW s \in Target \X Field, Accounted(s), latest' = latest,
         applied \subseteq applied', discarded \subseteq discarded',
         \A c \in queue : \/ \E d \in queue' : d.payload = c.payload
                         \/ latest[s] \notin EditsOf(c.payload)
                         \/ latest[s] \in applied' \cup discarded'
  PROVE  Accounted(s)'
<1>1. s[2] \in Field /\ queue \subseteq Command
  BY DEF TypeOK
<1>2. CASE latest[s] \in applied \cup discarded \cup {0}
  BY <1>2 DEF Accounted
<1>3. CASE /\ latest[s] # 0
           /\ \E c \in queue : c.payload[s[2]] = latest[s]
  <2>1. PICK c \in queue : c.payload[s[2]] = latest[s]
    BY <1>3
  <2>2. latest[s] \in EditsOf(c.payload)
    BY <1>1, <1>3, <2>1, EditsOfAre
  <2>3. CASE \E d \in queue' : d.payload = c.payload
    BY <2>1, <2>3 DEF Accounted
  <2>4. CASE latest[s] \in applied' \cup discarded'
    BY <2>4 DEF Accounted
  <2> QED
    BY <2>2, <2>3, <2>4
<1> QED
  BY <1>2, <1>3 DEF Accounted

LEMMA EditsStay ==
  ASSUME TypeOK, OnlyOvertakenUpdatesLost, AloneLossesAreKnown,
         latest' = latest, signups' = signups, blind' = blind, others' = others,
         shutOut \subseteq shutOut', overtaken' = overtaken,
         applied \subseteq applied', discarded \subseteq discarded',
         \A c \in queue : \/ \E d \in queue' : d.payload = c.payload
                         \/ EditsOf(c.payload) \subseteq applied' \cup discarded'
  PROVE  OnlyOvertakenUpdatesLost' /\ AloneLossesAreKnown'
<1>1. \A s \in Target \X Field : Accounted(s) => Accounted(s)'
  BY AccountedStays
<1> QED
  BY <1>1 DEF OnlyOvertakenUpdatesLost, AloneLossesAreKnown

LEMMA EnqueueEdits ==
  ASSUME KeyInv, EditInv,
         NEW kind \in Kind, NEW target \in Target, NEW f \in Field,
         Enqueue(kind, target, f), kind = "create" => PendingIn(queue, "create", target) = {}
  PROVE  EditInv'
<1> DEFINE n == edits + 1
<1>1. /\ TypeOK /\ Numbered /\ edits \in Nat /\ n \in Nat /\ queue \subseteq Command
      /\ drain' = drain /\ latest \in [Target \X Field -> Nat]
  BY DEF KeyInv, TypeOK, Enqueue
<1>2. /\ latest' = [latest EXCEPT ![<<target, f>>] = n]
      /\ signups \subseteq signups' /\ blind \subseteq blind' /\ overtaken \subseteq overtaken'
      /\ (\E d \in drain.left : SameKey(d, kind, target)) => n \in overtaken'
      /\ kind = "create" => n \in signups'
      /\ kind = "create" /\ target \in part => n \in blind'
      /\ UNCHANGED <<part, others, applied, discarded, shutOut>>
  BY DEF Enqueue, serverVars
<1>3. Answered' /\ Current' = Current
  BY <1>1, <1>2 DEF EditInv, Answered, Current
<1>14. \A c \in queue : SameKey(c, kind, target) => kind # "create"
  BY DEF SameKey, PendingIn
<1>15. Snapshot'
  <2> SUFFICES ASSUME NEW d \in drain.left
               PROVE  Pending(d) /\ \E e \in queue' : Replays(d, e)'
    BY <1>1 DEF Snapshot
  <2>1. PICK c \in queue : Replays(d, c)
    BY DEF EditInv, Snapshot
  <2>2. Pending(d) /\ c \in Command
    BY <1>1 DEF EditInv, Snapshot
  <2>3. Replays(d, c)'
    BY <1>2, <2>1 DEF Replays
  <2>4. CASE SameKey(c, kind, target) /\ queue' = {Merged(e, kind, target, f) : e \in queue}
    <3> DEFINE e == Merged(c, kind, target, f)
    <3>1. /\ e \in queue' /\ e.id = c.id /\ e.kind = c.kind /\ e.target = c.target
          /\ e.payload = Merge(c.payload, Only(f, n))
      BY <1>1, <2>2, <2>4, MergedIs
    <3> HIDE DEF e
    <3>2. n \in overtaken'
      <4>1. SameKey(d, kind, target)
        BY <2>1, <2>2, <2>4 DEF SameKey, Replays
      <4> QED
        BY <1>2, <4>1
    <3>3. EditsOf(e.payload) \subseteq EditsOf(c.payload) \cup {n}
      BY <1>1, <3>1, NewNumbers DEF EditsOf, Carries
    <3>4. d.kind # "create"
      BY <1>14, <2>1, <2>4 DEF SameKey, Replays
    <3> QED
      BY <2>2, <2>3, <3>1, <3>2, <3>3, <3>4 DEF Replays
  <2>5. CASE ~SameKey(c, kind, target) \/ queue' = queue \cup {Fresh(kind, target, f)}
    <3>1. c \in queue'
      BY <2>5, EnqueueIs DEF Merged
    <3> QED
      BY <2>2, <2>3, <3>1
  <2> QED
    BY <2>4, <2>5, EnqueueIs
\* Every command of the new queue is an old one, an old one with the new edit
\* in the place of f, or the new one.
<1>4. ASSUME NEW d \in queue'
      PROVE  \/ d \in queue
             \/ \E c \in queue :
                   /\ SameKey(c, kind, target) /\ d.kind = kind /\ d.target = target
                   /\ d.payload = Merge(c.payload, Only(f, n))
             \/ d.kind = kind /\ d.target = target /\ d.payload = Only(f, n)
  <2>1. CASE queue' = {Merged(c, kind, target, f) : c \in queue}
    <3>1. PICK c \in queue : d = Merged(c, kind, target, f)
      BY <2>1
    <3>2. CASE SameKey(c, kind, target)
      BY <1>1, <3>1, <3>2, MergedIs DEF SameKey
    <3>3. CASE ~SameKey(c, kind, target)
      BY <3>1, <3>3 DEF Merged
    <3> QED
      BY <3>2, <3>3
  <2>2. CASE queue' = queue \cup {Fresh(kind, target, f)}
    BY <2>2 DEF Fresh
  <2> QED
    BY <2>1, <2>2, EnqueueIs
<1>6. ASSUME NEW d \in queue', d \notin queue, NEW g \in Field
      PROVE  /\ d.kind = kind /\ d.target = target
             /\ g = f => d.payload[g] = n
             /\ g # f => \/ d.payload[g] = 0
                         \/ \E c \in queue : /\ c.kind = kind /\ c.target = target
                                             /\ d.payload[g] = c.payload[g]
             /\ kind = "create" => d.payload = Only(f, n)
  <2>1. CASE \E c \in queue :
               /\ SameKey(c, kind, target) /\ d.kind = kind /\ d.target = target
               /\ d.payload = Merge(c.payload, Only(f, n))
    BY <1>1, <1>14, <2>1, NewNumbers DEF SameKey
  <2>2. CASE d.kind = kind /\ d.target = target /\ d.payload = Only(f, n)
    BY <2>2 DEF Only
  <2> QED
    BY <1>4, <1>6, <2>1, <2>2
<1>7. Owned'
  <2> SUFFICES ASSUME NEW d \in queue', NEW t \in Target, NEW h \in Field, NEW g \in Field,
                      d.payload[g] # 0, d.payload[g] = latest'[<<t, h>>]
               PROVE  d.target = t /\ g = h
    BY DEF Owned, Carries
  <2>1. latest'[<<t, h>>] = IF t = target /\ h = f THEN n ELSE latest[<<t, h>>]
    BY <1>1, <1>2
  <2>2. latest[<<t, h>>] <= edits /\ latest[<<t, h>>] \in Nat
    BY <1>1 DEF Numbered
  <2>3. \A c \in queue : /\ c.payload[g] <= edits /\ c.payload[g] \in Nat
                         /\ c.payload[g] # 0 /\ c.payload[g] = latest[<<t, h>>]
                               => c.target = t /\ g = h
    BY <1>1, EditsOfAre DEF Numbered, EditInv, Owned, Carries
  <2>4. CASE d \in queue
    BY <1>1, <2>1, <2>2, <2>3, <2>4
  <2>5. CASE d \notin queue /\ g = f
    BY <1>1, <1>6, <2>1, <2>2, <2>5
  <2>6. CASE d \notin queue /\ g # f
    BY <1>1, <1>6, <2>1, <2>2, <2>3, <2>6
  <2> QED
    BY <2>4, <2>5, <2>6
<1>8. SignupsAreCreates'
  <2> SUFFICES ASSUME NEW d \in queue', d.kind = "create", NEW g \in Field, d.payload[g] # 0
               PROVE  d.payload[g] \in signups'
    BY DEF SignupsAreCreates, EditsOf, Carries
  <2>1. CASE d \in queue
    <3>1. EditsOf(d.payload) \subseteq signups'
      BY <1>2, <2>1 DEF EditInv, SignupsAreCreates
    <3>2. d.payload[g] \in EditsOf(d.payload)
      BY DEF EditsOf, Carries
    <3> QED
      BY <3>1, <3>2
  <2>2. CASE d \notin queue
    <3>1. kind = "create" /\ d.payload = Only(f, n)
      BY <1>6, <2>2
    <3>2. d.payload[g] = n
      BY <3>1 DEF Only
    <3> QED
      BY <1>2, <3>1, <3>2
  <2> QED
    BY <2>1, <2>2
<1>9. Alone'
  <2> SUFFICES ASSUME others = 0, NEW d \in queue', d.kind = "create", Pending(d), d.target \in part
               PROVE  EditsOf(d.payload) \subseteq applied \cup blind'
    BY <1>1, <1>2, <1>3 DEF EditInv, Alone
  <2>1. CASE d \in queue
    BY <1>2, <2>1 DEF EditInv, Alone
  <2>2. CASE d \notin queue
    BY <1>2, <1>6, <2>2 DEF EditsOf, Carries, Only
  <2> QED
    BY <2>1, <2>2
<1>10. ASSUME NEW s \in Target \X Field, s = <<target, f>> \/ Accounted(s)
       PROVE  Accounted(s)'
  <2>1. s[1] \in Target /\ s[2] \in Field /\ s = <<s[1], s[2]>>
    OBVIOUS
  <2>2. CASE s = <<target, f>>
    <3>1. latest'[s] = n /\ s[2] = f
      BY <1>1, <1>2, <2>2
    <3>2. \E d \in queue' : d.payload[f] = n
      <4>1. CASE /\ \E c \in queue : SameKey(c, kind, target)
                 /\ queue' = {Merged(c, kind, target, f) : c \in queue}
        <5>1. PICK c \in queue : SameKey(c, kind, target)
          BY <4>1
        <5>2. Merged(c, kind, target, f).payload = Merge(c.payload, Only(f, n))
          BY <1>1, <5>1, MergedIs
        <5>3. Merge(c.payload, Only(f, n))[f] = n
          BY <1>1, NewNumbers
        <5> QED
          BY <4>1, <5>2, <5>3
      <4>2. CASE queue' = queue \cup {Fresh(kind, target, f)}
        <5>1. Fresh(kind, target, f).payload = Only(f, n) /\ Only(f, n)[f] = n
          BY DEF Fresh, Only
        <5> QED
          BY <4>2, <5>1, Zenon
      <4> QED
        BY <4>1, <4>2, EnqueueIs
    <3> QED
      BY <3>1, <3>2 DEF Accounted
  <2>3. CASE s # <<target, f>> /\ Accounted(s)
    <3>1. latest'[s] = latest[s]
      BY <1>1, <1>2, <2>3
    <3>2. CASE latest[s] \in applied \cup discarded \cup {0}
      BY <1>2, <3>1, <3>2 DEF Accounted
    <3>3. CASE latest[s] # 0 /\ \E c \in queue : c.payload[s[2]] = latest[s]
      <4>1. PICK c \in queue : c.payload[s[2]] = latest[s]
        BY <3>3
      <4>2. c.target = s[1]
        BY <2>1, <3>3, <4>1 DEF EditInv, Owned, Carries
      <4>3. SameKey(c, kind, target) => s[2] # f
        BY <2>1, <2>3, <4>2 DEF SameKey
      <4>4. Merged(c, kind, target, f).payload[s[2]] = latest[s]
        BY <1>1, <2>1, <4>1, <4>3, MergedIs, NewNumbers
      <4>5. \E d \in queue' : d.payload[s[2]] = latest[s]
        BY <4>1, <4>4, EnqueueIs
      <4> QED
        BY <3>1, <4>5 DEF Accounted
    <3> QED
      BY <2>3, <3>2, <3>3 DEF Accounted
  <2> QED
    BY <1>10, <2>2, <2>3
<1>11. \A s \in Target \X Field : s # <<target, f>> => latest'[s] = latest[s]
  BY <1>1, <1>2
<1>12. OnlyOvertakenUpdatesLost'
  BY <1>2, <1>10, <1>11 DEF EditInv, OnlyOvertakenUpdatesLost
<1>13. AloneLossesAreKnown'
  BY <1>2, <1>10, <1>11 DEF EditInv, AloneLossesAreKnown
<1> QED
  BY <1>3, <1>7, <1>8, <1>9, <1>12, <1>13, <1>15 DEF EditInv

LEMMA DiscardEdits ==
  ASSUME KeyInv, EditInv, NEW c \in queue, Discard(c)
  PROVE  EditInv'
<1>1. /\ TypeOK /\ Keyed /\ Replaying /\ ~Pending(c)
      /\ queue' = {d \in queue : d.id # c.id}
      /\ discarded' = discarded \cup EditsOf(c.payload)
      /\ UNCHANGED <<part, drain, edits, others, latest, applied, signups, blind, shutOut, overtaken>>
  BY DEF KeyInv, Discard, Drop, serverVars, counters
<1>2. Snapshot'
  <2> SUFFICES ASSUME NEW d \in drain.left
               PROVE  Pending(d) /\ \E e \in queue' : Replays(d, e)'
    BY <1>1 DEF Snapshot
  <2>1. PICK e \in queue : Replays(d, e)
    BY DEF EditInv, Snapshot
  <2>2. Pending(d) /\ Pending(e)
    BY <1>1, <2>1 DEF EditInv, Snapshot, Replaying, Replays
  <2>3. e \in queue'
    BY <1>1, <2>2 DEF Keyed
  <2> QED
    BY <1>1, <2>1, <2>2, <2>3 DEF Replays
<1>3. Owned' /\ SignupsAreCreates'
  BY <1>1 DEF EditInv, Owned, SignupsAreCreates
<1>4. Current' = Current
  BY <1>1 DEF Current
<1>5. Answered' /\ Alone'
  BY <1>1, <1>4 DEF EditInv, Answered, Alone
<1>6. \A d \in queue : d \in queue' \/ EditsOf(d.payload) \subseteq discarded'
  BY <1>1 DEF Keyed
<1>7. OnlyOvertakenUpdatesLost' /\ AloneLossesAreKnown'
  BY <1>1, <1>6, EditsStay DEF EditInv
<1> QED
  BY <1>2, <1>3, <1>5, <1>7 DEF EditInv

LEMMA ServeEdits ==
  ASSUME KeyInv, EditInv, Serve
  PROVE  EditInv'
<1>1. /\ TypeOK /\ Keyed /\ Replaying
      /\ drain'.left = drain.left /\ drain.left # {} /\ drain'.answer = AnswerTo(Current)
      /\ UNCHANGED <<queue, others, latest, discarded, signups, blind, overtaken>>
  BY DrainMoves DEF KeyInv, Serve, counters
<1>2. Current \in Command /\ Current \in drain.left /\ Current' = Current
  <2>1. Current \in Command /\ Current \in drain.left
    BY <1>1, CurrentIsACommand
  <2>2. Current' = Current
    BY <1>1 DEF Current
  <2> QED
    BY <2>1, <2>2
<1>10. PICK sent \in queue : Replays(Current, sent) /\ Pending(sent)
  BY <1>1, <1>2 DEF EditInv, Snapshot, Replaying, Replays
<1>3. /\ applied \subseteq applied'
      /\ AnswerTo(Current) = "ok" => EditsOf(Current.payload) \subseteq applied'
  BY DEF Serve
<1>11. /\ shutOut \subseteq shutOut'
       /\ AnswerTo(Current) = "conflict" /\ SignupsClosed => EditsOf(Current.payload) \subseteq shutOut'
  BY DEF Serve
<1>4. \A m \in part' : m \in part \/ (/\ AnswerTo(Current) = "ok" /\ Current.kind = "create"
                                     /\ m = Current.target)
  BY DEF Serve
<1>5. AnswerTo(Current) = "conflict" => /\ Current.kind = "create"
                                        /\ SignupsClosed \/ Current.target \in part
  BY <1>2, AnswerIs
<1>6. Snapshot' /\ Owned' /\ SignupsAreCreates'
  BY <1>1 DEF EditInv, Snapshot, Replays, Owned, SignupsAreCreates
<1>7. Answered'
  BY <1>1, <1>2, <1>3, <1>5 DEF Answered
<1>8. Alone'
  <2> SUFFICES ASSUME others = 0
               PROVE  /\ \A c \in queue : Pending(c) /\ c.kind = "create" /\ c.target \in part'
                                          => EditsOf(c.payload) \subseteq applied' \cup blind
                      /\ AnswerTo(Current) = "conflict"
                           => EditsOf(Current.payload) \subseteq applied' \cup blind \cup shutOut'
    BY <1>1, <1>2 DEF Alone
  <2>2. ASSUME NEW c \in queue, Pending(c), c.kind = "create", c.target \in part'
        PROVE  EditsOf(c.payload) \subseteq applied' \cup blind
    <3>1. CASE c.target \in part
      BY <1>3, <2>2, <3>1 DEF EditInv, Alone
    <3>2. CASE c.target \notin part
      <4>1. /\ AnswerTo(Current) = "ok" /\ Current.kind = "create" /\ c.target = Current.target
        BY <1>4, <2>2, <3>2
      <4>2. c = sent
        BY <1>1, <1>10, <2>2, <4>1 DEF Keyed, Replays
      <4> QED
        BY <1>3, <1>10, <4>1, <4>2 DEF Replays
    <3> QED
      BY <3>1, <3>2
  <2>3. AnswerTo(Current) = "conflict"
          => EditsOf(Current.payload) \subseteq applied' \cup blind \cup shutOut'
    <3> SUFFICES ASSUME AnswerTo(Current) = "conflict", ~SignupsClosed
                 PROVE  EditsOf(Current.payload) \subseteq applied' \cup blind
      BY <1>11
    <3>1. Current.kind = "create" /\ Current.target \in part
      BY <1>5
    <3>2. sent.kind = "create" /\ sent.target \in part /\ sent.payload = Current.payload
      BY <1>10, <3>1 DEF Replays
    <3> QED
      BY <1>3, <1>10, <3>2 DEF EditInv, Alone
  <2> QED
    BY <2>2, <2>3
<1>9. OnlyOvertakenUpdatesLost' /\ AloneLossesAreKnown'
  <2>1. \A c \in queue : \E d \in queue' : d.payload = c.payload
    BY <1>1
  <2> QED
    BY <1>1, <1>3, <1>11, <2>1, EditsStay DEF EditInv
<1> QED
  BY <1>6, <1>7, <1>8, <1>9 DEF EditInv

LEMMA SettleEdits ==
  ASSUME KeyInv, EditInv, Settle
  PROVE  EditInv'
<1>1. /\ TypeOK /\ Keyed /\ Replaying /\ drain.phase = "answered" /\ drain.answer \in {"ok", "conflict"}
      /\ drain'.phase = "next" /\ drain'.left = Rest /\ drain.left # {}
      /\ queue' = {c \in queue : c.id # Current.id}
      /\ UNCHANGED <<part, others, latest, applied, discarded, signups, blind, shutOut, overtaken>>
  BY DrainMoves DEF KeyInv, Settle, Drop, serverVars, counters, historyVars
<1>2. Current \in Command /\ Current \in drain.left
  BY <1>1, CurrentIsACommand
<1>3. PICK sent \in queue : Replays(Current, sent)
  BY <1>2 DEF EditInv, Snapshot
<1>4. Snapshot'
  <2> SUFFICES ASSUME NEW d \in Rest
               PROVE  Pending(d) /\ \E e \in queue' : Replays(d, e)'
    BY <1>1 DEF Snapshot
  <2>1. d \in drain.left /\ d.id # Current.id
    BY <1>1, <1>2 DEF Rest, Replaying
  <2>2. Pending(d) /\ \E e \in queue : Replays(d, e)
    BY <2>1 DEF EditInv, Snapshot
  <2> QED
    BY <1>1, <2>1, <2>2 DEF Replays
<1>5. Owned' /\ SignupsAreCreates'
  BY <1>1 DEF EditInv, Owned, SignupsAreCreates
<1>6. Answered' /\ Alone'
  BY <1>1 DEF EditInv, Answered, Alone
<1>7. \A c \in queue : c \in queue' \/ c = sent
  BY <1>1, <1>3 DEF Keyed, Replays
\* The command that goes carries nothing but what was answered or overtaken.
<1>8. EditsOf(sent.payload) \subseteq applied \cup signups \cup overtaken
  <2>1. CASE drain.answer = "ok"
    BY <1>1, <1>3, <2>1 DEF EditInv, Answered, Replays
  <2>2. CASE drain.answer = "conflict"
    BY <1>1, <1>3, <2>2 DEF EditInv, Answered, Replays, SignupsAreCreates
  <2> QED
    BY <1>1, <2>1, <2>2
<1>9. others = 0 => EditsOf(sent.payload) \subseteq applied \cup blind \cup shutOut \cup overtaken
  BY <1>1, <1>3 DEF EditInv, Answered, Alone, Replays
<1>10. OnlyOvertakenUpdatesLost'
  <2> SUFFICES ASSUME NEW s \in Target \X Field, latest[s] \notin signups \cup overtaken
               PROVE  Accounted(s)'
    BY <1>1 DEF OnlyOvertakenUpdatesLost
  <2>1. Accounted(s)
    BY DEF EditInv, OnlyOvertakenUpdatesLost
  <2> QED
    BY <1>1, <1>7, <1>8, <2>1, AccountedStays
<1>11. AloneLossesAreKnown'
  <2> SUFFICES ASSUME others = 0, NEW s \in Target \X Field,
                      latest[s] \notin blind \cup shutOut \cup overtaken
               PROVE  Accounted(s)'
    BY <1>1 DEF AloneLossesAreKnown
  <2>1. Accounted(s)
    BY DEF EditInv, AloneLossesAreKnown
  <2> QED
    BY <1>1, <1>7, <1>9, <2>1, AccountedStays
<1> QED
  BY <1>4, <1>5, <1>6, <1>10, <1>11 DEF EditInv

LEMMA MarkFailedEdits ==
  ASSUME KeyInv, EditInv, MarkFailed
  PROVE  EditInv'
<1>1. /\ TypeOK /\ Replaying /\ queue \subseteq Command
      /\ drain'.phase = "next" /\ drain'.left = Rest /\ drain.left # {}
      /\ UNCHANGED <<part, others, latest, applied, discarded, signups, blind, shutOut, overtaken>>
  BY DrainMoves DEF KeyInv, TypeOK, MarkFailed, serverVars, counters, historyVars
<1>2. queue' = {Failed(c) : c \in queue}
  BY Zenon DEF MarkFailed, Failed
<1>3. Current \in drain.left
  BY <1>1, CurrentIsACommand
<1>4. ASSUME NEW d \in queue'
      PROVE  \E c \in queue :
                /\ d.kind = c.kind /\ d.target = c.target /\ d.payload = c.payload
                /\ Pending(d) => Pending(c)
  BY <1>1, <1>2, FailedIs DEF Pending
<1>5. Snapshot'
  <2> SUFFICES ASSUME NEW d \in Rest
               PROVE  Pending(d) /\ \E e \in queue' : Replays(d, e)'
    BY <1>1 DEF Snapshot
  <2>1. d \in drain.left /\ d.id # Current.id
    BY <1>1, <1>3 DEF Rest, Replaying
  <2>2. Pending(d) /\ \E e \in queue : Replays(d, e)
    BY <2>1 DEF EditInv, Snapshot
  <2>3. PICK e \in queue : Replays(d, e)
    BY <2>2
  <2>4. Failed(e) = e
    BY <2>1, <2>3 DEF Failed, Replays
  <2>5. Replays(d, e)'
    BY <1>1, <2>3 DEF Replays
  <2> QED
    BY <1>2, <2>2, <2>4, <2>5
<1>6. Owned' /\ SignupsAreCreates'
  BY <1>1, <1>4 DEF EditInv, Owned, SignupsAreCreates
<1>7. Answered' /\ Alone'
  BY <1>1, <1>4 DEF EditInv, Answered, Alone
<1>8. \A c \in queue : \E d \in queue' : d.payload = c.payload
  BY <1>1, <1>2, FailedIs
<1>9. OnlyOvertakenUpdatesLost' /\ AloneLossesAreKnown'
  BY <1>1, <1>8, EditsStay DEF EditInv
<1> QED
  BY <1>5, <1>6, <1>7, <1>9 DEF EditInv

(* A new snapshot has what earlier drains that broke off had overtaken. *)
LEMMA StartDrainEdits ==
  ASSUME KeyInv, EditInv, StartDrain
  PROVE  EditInv'
<1>1. /\ TypeOK /\ queue \subseteq Command
      /\ drain'.phase = "next" /\ drain'.left = {c \in queue : Pending(c)}
      /\ overtaken' = overtaken \ UNION {EditsOf(c.payload) : c \in queue}
      /\ UNCHANGED <<part, queue, others, latest, applied, discarded, signups, blind, shutOut>>
  BY DrainMoves DEF KeyInv, TypeOK, StartDrain, serverVars, counters
<1>2. Snapshot'
  BY <1>1 DEF Snapshot, Replays
<1>3. Owned' /\ SignupsAreCreates' /\ Answered' /\ Alone'
  BY <1>1 DEF EditInv, Owned, SignupsAreCreates, Answered, Alone
<1>4. ASSUME NEW s \in Target \X Field, latest[s] \in overtaken, latest[s] \notin overtaken'
      PROVE  Accounted(s)'
  <2>1. PICK c \in queue : latest[s] \in EditsOf(c.payload)
    BY <1>1, <1>4
  <2>2. PICK g \in Field : Carries(c.payload, g) /\ c.payload[g] = latest[s]
    BY <2>1 DEF EditsOf
  <2>3. g = s[2]
    <3>1. s[1] \in Target /\ s[2] \in Field /\ s = <<s[1], s[2]>>
      OBVIOUS
    <3> QED
      BY <2>2, <3>1 DEF EditInv, Owned
  <2> QED
    BY <1>1, <2>2, <2>3 DEF Accounted
<1>5. ASSUME NEW s \in Target \X Field, Accounted(s)  PROVE Accounted(s)'
  BY <1>1, <1>5 DEF Accounted
<1>6. OnlyOvertakenUpdatesLost' /\ AloneLossesAreKnown'
  BY <1>1, <1>4, <1>5 DEF EditInv, OnlyOvertakenUpdatesLost, AloneLossesAreKnown
<1> QED
  BY <1>2, <1>3, <1>6 DEF EditInv

(* The steps that leave the queue as it is and bring no answer. *)
LEMMA QuietEdits ==
  ASSUME KeyInv, EditInv,
         UNCHANGED <<part, queue, others, latest, applied, discarded, signups, blind, shutOut, overtaken>>,
         \/ drain' = drain
         \/ drain'.phase # "answered" /\ drain'.left \subseteq drain.left
  PROVE  EditInv'
<1>1. Snapshot' /\ Owned' /\ SignupsAreCreates'
  BY DEF EditInv, Snapshot, Replays, Owned, SignupsAreCreates
<1>2. drain' = drain => Current' = Current
  BY DEF Current
<1>3. Answered' /\ Alone'
  BY <1>2 DEF EditInv, Answered, Alone
<1>4. OnlyOvertakenUpdatesLost' /\ AloneLossesAreKnown'
  BY EditsStay DEF KeyInv, EditInv
<1> QED
  BY <1>1, <1>3, <1>4 DEF EditInv

(* What others do ends the promises made for a user who is alone. *)
LEMMA OthersEdits ==
  ASSUME KeyInv, EditInv, Others
  PROVE  EditInv'
<1>1. /\ others' # 0 /\ UNCHANGED <<queue, drain, latest, applied, discarded, signups, overtaken>>
  BY DEF Others, OtherSignsUp, OtherRemoves, OtherMovesDates, Meanwhile, historyVars, KeyInv, TypeOK
<1>2. Current' = Current
  BY <1>1 DEF Current
<1> QED
  BY <1>1, <1>2 DEF EditInv, Snapshot, Replays, Owned, SignupsAreCreates, Answered, Alone,
                    OnlyOvertakenUpdatesLost, AloneLossesAreKnown, Accounted

LEMMA InitEdits == Init => EditInv
BY DEF Init, Idle, EditInv, Snapshot, Owned, SignupsAreCreates, Answered, Alone,
       OnlyOvertakenUpdatesLost, AloneLossesAreKnown, Accounted

LEMMA EditStep ==
  ASSUME KeyInv, EditInv, [Next]_vars
  PROVE  EditInv'
<1>1. CASE User
  BY <1>1, TapStep, EnqueueEdits, DiscardEdits DEF KeyInv
<1>2. CASE Send \/ DrainDone \/ Pull \/ Halt \/ Die
  <2>1. drain'.phase # "answered" /\ drain'.left \subseteq drain.left
    BY <1>2, DrainMoves, IdleIs DEF KeyInv
  <2>2. UNCHANGED <<part, queue, others, latest, applied, discarded, signups, blind, shutOut, overtaken>>
    BY <1>2 DEF Send, DrainDone, Pull, Halt, Die, serverVars, counters, historyVars
  <2> QED
    BY <2>1, <2>2, QuietEdits
<1>3. CASE StartDrain \/ Serve \/ Settle \/ MarkFailed
  BY <1>3, StartDrainEdits, ServeEdits, SettleEdits, MarkFailedEdits
<1>4. CASE Others
  BY <1>4, OthersEdits
<1>6. CASE SignupsOpen \/ SignupDeadlinePasses
  BY <1>6, QuietEdits DEF SignupsOpen, SignupDeadlinePasses, Days, counters, historyVars
<1>5. CASE UNCHANGED vars
  <2>1. drain' = drain
    BY <1>5 DEF vars
  <2>2. UNCHANGED <<part, queue, others, latest, applied, discarded, signups, blind, shutOut, overtaken>>
    BY <1>5 DEF vars, serverVars, counters, historyVars
  <2> QED
    BY <2>1, <2>2, QuietEdits
<1> QED
  BY <1>1, <1>2, <1>3, <1>4, <1>5, <1>6 DEF Next, Sync

LEMMA EditInvAlways == Spec => [](KeyInv /\ EditInv)
<1>1. KeyInv /\ EditInv /\ [Next]_vars => KeyInv' /\ EditInv'
  BY KeyStep, EditStep
<1> QED
  BY <1>1, InitKeys, InitEdits, PTL DEF Spec

(* An RSVP change or an attendance mark on an existing row is applied, queued,
   refused visibly or given up, whatever others do, however often the sync
   fails and whenever the user taps, unless it was coalesced into a command
   that a drain was replaying: drainQueue's delete by id has no other victim. *)
THEOREM OnlyOvertakenAreLost == Spec => []OnlyOvertakenUpdatesLost
<1>1. KeyInv /\ EditInv => OnlyOvertakenUpdatesLost
  BY DEF EditInv
<1> QED
  BY <1>1, EditInvAlways, PTL

(* Alone with the event, a user loses besides only a sign-up made on a day the
   event's dates exclude, or one of a member who was signed up already, over
   any number of taps, lost answers and kills. *)
THEOREM KnownLossesAlone == Spec => []AloneLossesAreKnown
<1>1. KeyInv /\ EditInv => AloneLossesAreKnown
  BY DEF EditInv
<1> QED
  BY <1>1, EditInvAlways, PTL
=============================================================================
