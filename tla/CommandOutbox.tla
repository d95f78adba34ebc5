---------------------------- MODULE CommandOutbox ----------------------------
(***************************************************************************)
(* The mobile app's offline outbox (apps/mobile/src/data/commands.ts) for  *)
(* one event: the event screen turns taps into typed commands, coalesced   *)
(* per (kind, target) in their original queue position, and a drain        *)
(* replays a snapshot of the queue strictly in order through the server's  *)
(* interactive endpoints (backend/app/routers/events.py).                  *)
(*                                                                         *)
(* An edit is a number, the same for every value typed: what matters is    *)
(* where it is, not what it says.  A payload maps each field to the edit   *)
(* that set it last, 0 for a field it does not carry.  The queue is a      *)
(* table: a set of commands.  A command's id is its first edit, so the     *)
(* order of the ids is that of the positions.                              *)
(***************************************************************************)
EXTENDS Integers

CONSTANTS
    Member,            \* members who may take part in the event
    Family,            \* the caller and the caller's household
    Event,             \* the event, as the target of a command
    MaxEdits,          \* bound on the user's edits
    MaxHalts,          \* bound on lost answers, 5xx and 401 answers and app kills
    MaxOthers          \* bound on what other people do to the event meanwhile

ASSUME CommandOutboxAssumption ==
    /\ Event \notin Member /\ Family \subseteq Member
    /\ MaxEdits \in Nat /\ MaxHalts \in Nat /\ MaxOthers \in Nat

VARIABLES
    caller,       \* a member, a leader (event:manage_attendance) or a
                  \* manager (event:write as well)
    window,       \* the server: what the event's dates say today of sign-ups
    taken,        \* the server: event.attendance_taken
    part,         \* the server: members with a participant row
    mirrorPart,   \* the mirror: members with a participant row
    mirrorTaken,  \* the mirror: event.attendance_taken
    queue,        \* pending_commands
    drain,        \* the sync in flight (process memory)
    edits, halts, others,  \* counters
    latest,       \* history: the last edit of each field of each target
    applied,      \* history: edits the server has accepted
    discarded,    \* history: edits the user gave up on Sync Issues
    signups,      \* history: edits first queued in a participant.create
    blind,        \* history: those of them for a member who had a row on the
                  \* server that the mirror did not
    shutOut,      \* history: those of them answered 409 outside the window
    overtaken     \* history: edits coalesced into a command whose earlier
                  \* payload a drain was already replaying

serverVars == <<caller, window, taken, part>>
mirrorVars == <<mirrorPart, mirrorTaken>>
counters == <<edits, halts, others>>
historyVars == <<latest, applied, discarded, signups, blind, shutOut, overtaken>>
vars == <<serverVars, mirrorVars, queue, drain, counters, historyVars>>
-----------------------------------------------------------------------------
Window == {"early", "open", "closed"}
Kind == {"take", "update", "create"}
Target == Member \cup {Event}
Field == {"rsvp", "attended", "taken"}
Payload == [Field -> Nat]
Command ==
    {c \in [id : Nat, kind : Kind, target : Target, payload : Payload,
            state : {"pending", "failed"}] : c.kind = "take" <=> c.target = Event}

Only(f, n) == [g \in Field |-> IF g = f THEN n ELSE 0]
Carries(p, f) == p[f] # 0
EditsOf(p) == {p[f] : f \in {g \in Field : Carries(p, g)}}

\* { ...old, ...new }
Merge(old, new) == [f \in Field |-> IF Carries(new, f) THEN new[f] ELSE old[f]]

Pending(c) == c.state = "pending"
PendingIn(q, kind, target) == {c \in q : Pending(c) /\ c.kind = kind /\ c.target = target}

\* What the overlay shows: the mirror with the pending commands folded in.
ShownPart == mirrorPart \cup {m \in Member : PendingIn(queue, "create", m) # {}}
ShownTaken == mirrorTaken \/ PendingIn(queue, "take", Event) # {}

\* Coalescing that forgets AND state = 'pending'.
SameKeyAnyState(c, kind, target) == c.kind = kind /\ c.target = target

SameKey(c, kind, target) == Pending(c) /\ c.kind = kind /\ c.target = target

\* enqueueCommand: merge into the pending command for the same (kind, target),
\* in its place, or append a new one.
Enqueue(kind, target, f) ==
    LET n == edits + 1
    IN  /\ edits < MaxEdits
        /\ edits' = n
        /\ queue' = IF \E c \in queue : SameKey(c, kind, target)
                    THEN {IF SameKey(c, kind, target)
                          THEN [c EXCEPT !.payload = Merge(c.payload, Only(f, n))] ELSE c : c \in queue}
                    ELSE queue \cup {[id |-> n, kind |-> kind, target |-> target,
                                     payload |-> Only(f, n), state |-> "pending"]}
        /\ latest' = [latest EXCEPT ![<<target, f>>] = n]
        /\ signups' = IF kind = "create" THEN signups \cup {n} ELSE signups
        /\ blind' = IF kind = "create" /\ target \in part THEN blind \cup {n} ELSE blind
        /\ overtaken' = IF \E c \in drain.left : SameKey(c, kind, target)
                        THEN overtaken \cup {n} ELSE overtaken
        /\ UNCHANGED <<serverVars, mirrorVars, drain, halts, others, applied, discarded, shutOut>>

\* The RSVP control of one's household: an update when the screen shows a
\* participant row (a synthesized one counts), a signup otherwise.
Rsvp(m) ==
    /\ m \in Family
    /\ Enqueue(IF m \in ShownPart THEN "update" ELSE "create", m, "rsvp")

\* The attendance switches, shown once attendance shows as started.
MarkAttended(m) ==
    /\ caller # "member" /\ ShownTaken /\ m \in ShownPart
    /\ Enqueue("update", m, "attended")

TakeAttendance ==
    /\ caller # "member" /\ ~ShownTaken
    /\ Enqueue("take", Event, "taken")

Drop(id) == {c \in queue : c.id # id}

\* Sync Issues offers one action, for failed commands only.
Discard(c) ==
    /\ ~Pending(c)
    /\ queue' = Drop(c.id)
    /\ discarded' = discarded \cup EditsOf(c.payload)
    /\ UNCHANGED <<serverVars, mirrorVars, drain, counters, latest, applied, signups, blind, shutOut,
                   overtaken>>
-----------------------------------------------------------------------------
(* The drain.  It walks a snapshot of the pending commands: a payload is    *)
(* sent as it was when the drain began.  drain.phase: "next" between        *)
(* commands, "sent" while the request is out, "answered" when the server's  *)
(* answer is on its way back, "pull" once the drain is over.                *)
Idle == [phase |-> "idle", left |-> {}, answer |-> "none"]
Drain == [phase : {"idle", "next", "sent", "answered", "pull"}, left : SUBSET Command,
          answer : {"none", "ok", "conflict", "refused"}]
Current == CHOOSE c \in drain.left : \A d \in drain.left : c.id <= d.id
Rest == drain.left \ {Current}

\* syncNow begins; a sync asked for while one is in flight is dropped.  What
\* an earlier drain that broke off had overtaken is in the new snapshot.
StartDrain ==
    /\ drain.phase = "idle"
    /\ drain' = [Idle EXCEPT !.phase = "next", !.left = {c \in queue : Pending(c)}]
    /\ overtaken' = overtaken \ UNION {EditsOf(c.payload) : c \in queue}
    /\ UNCHANGED <<serverVars, mirrorVars, queue, counters, latest, applied, discarded,
                   signups, blind, shutOut>>

\* The replay loop running one past its snapshot.
SendPastTheEnd ==
    /\ drain.phase = "next"
    /\ drain' = [drain EXCEPT !.phase = "sent"]
    /\ UNCHANGED <<serverVars, mirrorVars, queue, counters, historyVars>>

Send ==
    /\ drain.phase = "next" /\ drain.left # {}
    /\ drain' = [drain EXCEPT !.phase = "sent"]
    /\ UNCHANGED <<serverVars, mirrorVars, queue, counters, historyVars>>

\* add_participant, update_participant and update_event: what they answer, in
\* the order of their checks.
SignupsClosed == caller # "manager" /\ window # "open"
MayActFor(m) == caller = "manager" \/ m \in Family

AnswerTo(c) ==
    CASE c.kind = "create" ->
           IF ~MayActFor(c.target) THEN "refused"
           ELSE IF SignupsClosed \/ c.target \in part THEN "conflict" ELSE "ok"
      [] c.kind = "update" ->
           IF \/ c.target \notin part \/ ~MayActFor(c.target)
              \/ Carries(c.payload, "rsvp") /\ SignupsClosed
              \/ Carries(c.payload, "attended") /\ ~taken
           THEN "refused" ELSE "ok"
      [] c.kind = "take" -> IF caller = "manager" THEN "ok" ELSE "refused"

Serve ==
    /\ drain.phase = "sent"
    /\ drain' = [drain EXCEPT !.phase = "answered", !.answer = AnswerTo(Current)]
    /\ IF AnswerTo(Current) = "ok"
       THEN /\ part' = IF Current.kind = "create" THEN part \cup {Current.target} ELSE part
            /\ taken' = (taken \/ Current.kind = "take")
            /\ applied' = applied \cup EditsOf(Current.payload)
       ELSE UNCHANGED <<part, taken, applied>>
    /\ shutOut' = IF AnswerTo(Current) = "conflict" /\ SignupsClosed
                  THEN shutOut \cup EditsOf(Current.payload) ELSE shutOut
    /\ UNCHANGED <<caller, window, mirrorVars, queue, counters, latest, discarded,
                   signups, blind, overtaken>>

\* A success that leaves its command to be replayed.
SettleKeepsCommand ==
    /\ drain.phase = "answered" /\ drain.answer \in {"ok", "conflict"}
    /\ drain' = [Idle EXCEPT !.phase = "next", !.left = Rest]
    /\ UNCHANGED <<serverVars, mirrorVars, queue, counters, historyVars>>

\* Success, and the 409 on a create: the command leaves the queue in the
\* transaction that writes the response row into the mirror.
Settle ==
    /\ drain.phase = "answered" /\ drain.answer \in {"ok", "conflict"}
    /\ queue' = Drop(Current.id)
    /\ IF drain.answer = "ok"
       THEN /\ mirrorPart' = IF Current.kind = "take" THEN mirrorPart
                             ELSE mirrorPart \cup {Current.target}
            /\ mirrorTaken' = (mirrorTaken \/ Current.kind = "take")
       ELSE UNCHANGED mirrorVars
    /\ drain' = [Idle EXCEPT !.phase = "next", !.left = Rest]
    /\ UNCHANGED <<serverVars, counters, historyVars>>

\* Any 4xx taken for final, with nothing left for Sync Issues.
MarkFailedDrops ==
    /\ drain.phase = "answered" /\ drain.answer = "refused"
    /\ queue' = Drop(Current.id)
    /\ drain' = [Idle EXCEPT !.phase = "next", !.left = Rest]
    /\ UNCHANGED <<serverVars, mirrorVars, counters, historyVars>>

\* Any other 4xx: the command turns up on Sync Issues and the drain goes on.
MarkFailed ==
    /\ drain.phase = "answered" /\ drain.answer = "refused"
    /\ queue' = {IF c.id = Current.id THEN [c EXCEPT !.state = "failed"] ELSE c : c \in queue}
    /\ drain' = [Idle EXCEPT !.phase = "next", !.left = Rest]
    /\ UNCHANGED <<serverVars, mirrorVars, counters, historyVars>>

\* A 5xx that drops its command instead of keeping it for the next drain.
HaltDropsCommand ==
    /\ drain.phase \in {"sent", "answered"} /\ halts < MaxHalts
    /\ halts' = halts + 1
    /\ queue' = Drop(Current.id)
    /\ drain' = [Idle EXCEPT !.phase = "pull"]
    /\ UNCHANGED <<serverVars, mirrorVars, edits, others, historyVars>>

\* The request or its answer is lost, or the server answers 5xx or 401: the
\* drain stops, and the queue is left as it is.
Halt ==
    /\ drain.phase \in {"sent", "answered"} /\ halts < MaxHalts
    /\ halts' = halts + 1
    /\ drain' = [Idle EXCEPT !.phase = "pull"]
    /\ UNCHANGED <<serverVars, mirrorVars, queue, edits, others, historyVars>>

DrainDone ==
    /\ drain.phase = "next" /\ drain.left = {}
    /\ drain' = [Idle EXCEPT !.phase = "pull"]
    /\ UNCHANGED <<serverVars, mirrorVars, queue, counters, historyVars>>

\* The pull that follows every drain (SyncPull), which may also fail.
Pull ==
    /\ drain.phase = "pull"
    /\ mirrorPart' = part /\ mirrorTaken' = taken
    /\ drain' = Idle
    /\ UNCHANGED <<serverVars, queue, counters, historyVars>>

\* The app is killed, or the pull fails: the queue is on disk, the drain is not.
Die ==
    /\ drain.phase # "idle" /\ halts < MaxHalts
    /\ halts' = halts + 1
    /\ drain' = Idle
    /\ UNCHANGED <<serverVars, mirrorVars, queue, edits, others, historyVars>>
-----------------------------------------------------------------------------
(* The calendar, and everybody else, through the web app or another phone. *)
Days ==
    UNCHANGED <<caller, taken, part, mirrorVars, queue, drain, counters, historyVars>>

\* signup_start comes, signup_deadline passes; an event may have neither.
SignupsOpen == Days /\ window = "early" /\ window' = "open"
SignupDeadlinePasses == Days /\ window = "open" /\ window' = "closed"

Meanwhile ==
    /\ others < MaxOthers
    /\ others' = others + 1
    /\ UNCHANGED <<caller, taken, mirrorVars, queue, drain, edits, halts, historyVars>>

OtherSignsUp(m) == Meanwhile /\ m \notin part /\ part' = part \cup {m} /\ UNCHANGED window
OtherRemoves(m) == Meanwhile /\ m \in part /\ part' = part \ {m} /\ UNCHANGED window

\* update_event sets other dates.
OtherMovesDates(w) == Meanwhile /\ window # w /\ window' = w /\ UNCHANGED part
-----------------------------------------------------------------------------
Init ==
    /\ caller \in {"member", "leader", "manager"}
    /\ window \in Window /\ taken = FALSE
    /\ part \in SUBSET Member
    /\ mirrorPart = part /\ mirrorTaken = FALSE
    /\ queue = {} /\ drain = Idle
    /\ edits = 0 /\ halts = 0 /\ others = 0
    /\ latest = [s \in Target \X Field |-> 0]
    /\ applied = {} /\ discarded = {} /\ signups = {} /\ blind = {} /\ shutOut = {}
    /\ overtaken = {}

User ==
    \/ \E m \in Member : Rsvp(m)
    \/ \E m \in Member : MarkAttended(m)
    \/ TakeAttendance
    \/ \E c \in queue : Discard(c)

Sync == StartDrain \/ Send \/ Serve \/ Settle \/ MarkFailed \/ DrainDone \/ Pull

Others ==
    \/ \E m \in Member : OtherSignsUp(m)
    \/ \E m \in Member : OtherRemoves(m)
    \/ \E w \in Window : OtherMovesDates(w)

Next == User \/ Sync \/ Halt \/ Die \/ Others \/ SignupsOpen \/ SignupDeadlinePasses

Spec == Init /\ [][Next]_vars

\* Foreground, connectivity and enqueue triggers keep starting syncs, and an
\* online server answers.
LiveSpec == Spec /\ WF_vars(Sync)
-----------------------------------------------------------------------------
(* Type correctness, and no request is out without a command to send. *)
TypeOK ==
    /\ caller \in {"member", "leader", "manager"}
    /\ window \in Window /\ taken \in BOOLEAN /\ mirrorTaken \in BOOLEAN
    /\ part \subseteq Member /\ mirrorPart \subseteq Member
    /\ queue \subseteq Command
    /\ drain \in Drain
    /\ drain.phase \in {"sent", "answered"} => drain.left # {}
    /\ edits \in Nat /\ halts \in Nat /\ others \in Nat
    /\ latest \in [Target \X Field -> Nat]
    /\ applied \subseteq Nat /\ discarded \subseteq Nat /\ signups \subseteq Nat
    /\ blind \subseteq signups /\ shutOut \subseteq Nat /\ overtaken \subseteq Nat

\* The user's last word on a field of a target is known to someone.
Accounted(s) ==
    \/ latest[s] \in applied \cup discarded \cup {0}
    \/ \E c \in queue : c.payload[s[2]] = latest[s]

(* No silent loss: whatever the user last said of a member or of the event is
   applied on the server, still queued, on Sync Issues or given up there. *)
NoSilentLoss == \A s \in Target \X Field : Accounted(s)

(* Whatever others do, an RSVP change or an attendance mark on an existing row
   is never lost: it is applied, queued, or refused where the user sees it. *)
UpdatesNotLost ==
    \A s \in Target \X Field : latest[s] \notin signups => Accounted(s)

(* The one way to lose an update is to coalesce it into a command that is
   being replayed: over lost answers, replays, app kills, taps at any time and
   whatever others do, every other is applied, queued, refused or given up. *)
OnlyOvertakenUpdatesLost ==
    \A s \in Target \X Field : latest[s] \notin signups \cup overtaken => Accounted(s)

(* While nobody else touches the event, two more edits can be lost, and no
   others: a sign-up answered 409 because today is outside the event's dates,
   and one of a member who was signed up already.  (An answer is lost, the
   replay's 409 drops the command without a row for the mirror, the pull that
   would bring the row fails, and the screen asks for a sign-up again.) *)
AloneLossesAreKnown ==
    others = 0 =>
        \A s \in Target \X Field :
            latest[s] \notin blind \cup shutOut \cup overtaken => Accounted(s)

(* A command the server refused stays on Sync Issues, with the edits it was
   refused with, until the user discards it. *)
FailuresAreKept ==
    [][\A c \in queue :
          ~Pending(c) => c \in queue' \/ EditsOf(c.payload) \subseteq discarded']_vars

(* The outbox empties: every command is eventually settled or refused. *)
QueueDrains == <>[](\A c \in queue : ~Pending(c))
=============================================================================
