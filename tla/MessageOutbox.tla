--------------------------- MODULE MessageOutbox ---------------------------
(***************************************************************************)
(* One tenant's announcements: sending (backend/app/routers/messages.py),  *)
(* the recipient rows that are the email queue, and the passes that drain  *)
(* it (backend/app/core/messaging.py, outbox.py).                          *)
(*                                                                         *)
(* Every process is a thread with a database session of its own: it serves *)
(* a POST /messages/{id}/send and the background drain that follows it, or *)
(* runs an outbox pass (the in-process loop of any instance, or the CLI).  *)
(* Nothing keeps passes from overlapping.  Sessions read committed data    *)
(* and write at flush; a row flushed and not committed is locked.          *)
(***************************************************************************)
EXTENDS Integers, FiniteSets

CONSTANTS
    Message, Member,
    Proc,          \* processes with a session
    MaxAttempts,   \* MAX_EMAIL_ATTEMPTS
    BatchLimit,    \* emails per drain (message_rate_per_minute)
    Audience,      \* whom each message may reach
    Delivery,      \* how each message may be delivered
    Preference,    \* what each member may prefer (announcement_email_mode)
    AddressMayGo,  \* TRUE: a member may lose the email address
    SlowRequests,  \* TRUE: a request may span the moment its message is due
    MaxFaults      \* bound on crashes and changes to members' flags together

Entry == Message \X Member

ASSUME MessageOutboxAssumption ==
    /\ MaxAttempts \in Nat \ {0} /\ BatchLimit \in Nat \ {0}
    /\ Audience \subseteq [Message -> SUBSET Member]
    /\ Delivery \subseteq [Message -> {"immediate", "digest"}]
    /\ Preference \subseteq [Member -> {"every", "digest", "none"}]
    /\ AddressMayGo \in BOOLEAN /\ SlowRequests \in BOOLEAN
    /\ MaxFaults \in Nat

VARIABLES
    status,     \* of each message
    isDue,      \* scheduled_at is not set or has come
    audience,   \* whom each message reaches (resolve_message_audience)
    delivery,   \* of each message
    prefers,    \* of each member
    contact,    \* "ok", no address ("none"), bounced or opted out ("off")
    row,        \* the recipient rows: [state, attempts, waiting]
    digestDue,  \* the weekly slot has come and no digest has closed it
    proc,       \* what each process is doing
    crashes, changes,  \* counters
    delivered,  \* history: emails the provider accepted
    alerts      \* history: how often a member was alerted of a message

settings == <<isDue, audience, delivery, prefers, contact, crashes, changes>>
history == <<delivered, alerts>>
vars == <<status, row, digestDue, proc, settings, history>>
-----------------------------------------------------------------------------
RowState == {"none", "pending", "held", "sent", "failed", "skipped"}
NoRow == [state |-> "none", attempts |-> 0, waiting |-> FALSE]
Rows(state) == {e \in Entry : row[e].state = state}

\* next_attempt_at is not set or has come.
Ready(state) == {e \in Rows(state) : ~row[e].waiting}

\* stage: "request" and "schedule" in send_message_now, "promote" in
\* promote_due_scheduled, "inserted" in send_message after its flush, "drain"
\* and "digest" while emails go out, "drained" and "digested" after the flush.
\* res holds what became of each row's email, or a new row's state.
Stage == {"idle", "request", "schedule", "promote", "inserted", "toDrain", "drain",
          "drained", "toDigest", "digest", "digested"}
Outcome == {"none", "ok", "error", "gone", "skip", "pending", "held", "skipped"}
ProcState == [stage : Stage, pass : BOOLEAN, due : SUBSET Message, msg : SUBSET Message,
              batch : SUBSET Entry, read : [Entry -> Nat], res : [Entry -> Outcome],
              final : SUBSET Message, close : BOOLEAN]
Free == [stage |-> "idle", pass |-> FALSE, due |-> {}, msg |-> {}, batch |-> {},
         read |-> [e \in Entry |-> 0], res |-> [e \in Entry |-> "none"],
         final |-> {}, close |-> FALSE]
At(p, stage) == proc[p].stage = stage

\* What a pass goes on with once a transaction of its own is committed.
Onwards(p, stage) ==
    IF proc[p].pass THEN [Free EXCEPT !.stage = stage, !.pass = TRUE, !.due = proc[p].due]
                    ELSE Free

\* initial_email_state
InitialState(m, a) ==
    IF contact[a] # "ok" \/ prefers[a] = "none" THEN "skipped"
    ELSE IF "digest" \in {delivery[m], prefers[a]} THEN "held" ELSE "pending"

\* Drained, looking only at the rows due now.
DrainedOfReady(m, rows) ==
    \A a \in Member : rows[<<m, a>>].state # "pending" \/ rows[<<m, a>>].waiting

\* _finalize_if_drained: no recipient's email remains pending.
Drained(m, rows) == \A a \in Member : rows[<<m, a>>].state # "pending"
-----------------------------------------------------------------------------
(* Sending a message. *)

\* POST /messages/{id}/send reads the message; one already sent is a 409, and
\* one scheduled already stays as it is.
Ask(p, m) ==
    /\ At(p, "idle")
    /\ status[m] \in (IF isDue[m] THEN {"draft", "scheduled"} ELSE {"draft"})
    /\ proc' = [proc EXCEPT ![p] = [Free EXCEPT
                  !.stage = IF isDue[m] THEN "request" ELSE "schedule", !.msg = {m}]]
    /\ UNCHANGED <<status, row, digestDue, settings, history>>

Schedule(p) ==
    /\ At(p, "schedule")
    /\ status' = [m \in Message |-> IF m \in proc[p].msg THEN "scheduled" ELSE status[m]]
    /\ proc' = [proc EXCEPT ![p] = Free]
    /\ UNCHANGED <<row, digestDue, settings, history>>

\* A pass takes up the next of the scheduled messages it found due.
Promote(p, m) ==
    /\ At(p, "promote") /\ m \in proc[p].due
    /\ proc' = [proc EXCEPT ![p] = [@ EXCEPT !.stage = "request", !.msg = {m},
                                             !.due = proc[p].due \ {m}]]
    /\ UNCHANGED <<status, row, digestDue, settings, history>>

\* The flush updates the message and inserts the recipient rows es: it waits
\* for another transaction that holds the message, and the unique index on
\* (message, member) refuses rows that are there by then.
Awaits(p, m) == \E q \in Proc \ {p} : At(q, "inserted") /\ m \in proc[q].msg
Recipients(m) == {m} \X audience[m]
Refused(m) == \E e \in Recipients(m) : row[e].state # "none"

NewRows(p, q) ==
    [e \in Entry |-> IF e \in q.batch THEN [NoRow EXCEPT !.state = q.res[e]] ELSE row[e]]

\* The new rows, and a message no email is pending for done at once.
Resolved(p, m) ==
    LET q == [proc[p] EXCEPT !.stage = "inserted", !.batch = Recipients(m),
                !.res = [e \in Entry |-> IF e \in Recipients(m) THEN InitialState(m, e[2])
                                                               ELSE "none"]]
    IN  [q EXCEPT !.final = IF Drained(m, NewRows(p, q)) THEN {m} ELSE {}]

Alerted(m) == [e \in Entry |-> IF e \in Recipients(m) THEN alerts[e] + 1 ELSE alerts[e]]

\* Pushing before the flush that may be refused.
InsertAlertsFirst(p, m) ==
    /\ At(p, "request") /\ m \in proc[p].msg
    /\ ~Awaits(p, m)
    /\ alerts' = Alerted(m)
    /\ proc' = [proc EXCEPT ![p] = IF Refused(m) THEN Free
                                   ELSE Resolved(p, m)]
    /\ UNCHANGED <<status, row, digestDue, settings, delivered>>

\* Leaving it to the drain to find a message done.
InsertNoFinalize(p, m) ==
    /\ At(p, "request") /\ m \in proc[p].msg
    /\ ~Awaits(p, m) /\ ~Refused(m)
    /\ alerts' = Alerted(m)
    /\ proc' = [proc EXCEPT ![p] = [Resolved(p, m) EXCEPT !.final = {}]]
    /\ UNCHANGED <<status, row, digestDue, settings, delivered>>

\* send_message up to its commit: the rows of the audience are flushed, the
\* push alerts go out.
Insert(p, m) ==
    /\ At(p, "request") /\ m \in proc[p].msg
    /\ ~Awaits(p, m) /\ ~Refused(m)
    /\ alerts' = Alerted(m)
    /\ proc' = [proc EXCEPT ![p] = Resolved(p, m)]
    /\ UNCHANGED <<status, row, digestDue, settings, delivered>>

\* The flush is refused: the request is a 500, or the pass is over.
InsertRefused(p, m) ==
    /\ At(p, "request") /\ m \in proc[p].msg
    /\ ~Awaits(p, m) /\ Refused(m)
    /\ proc' = [proc EXCEPT ![p] = Free]
    /\ UNCHANGED <<status, row, digestDue, settings, history>>

\* A request's commit is followed by a drain in the background.
CommitSend(p) ==
    /\ At(p, "inserted")
    /\ row' = NewRows(p, proc[p])
    /\ status' = [m \in Message |->
                    IF m \in proc[p].final THEN "sent"
                    ELSE IF m \in proc[p].msg THEN "sending" ELSE status[m]]
    /\ proc' = [proc EXCEPT ![p] = IF proc[p].pass THEN Onwards(p, "promote")
                                   ELSE [Free EXCEPT !.stage = "toDrain"]]
    /\ UNCHANGED <<digestDue, settings, history>>
-----------------------------------------------------------------------------
(* An outbox pass: promote what is due, drain, assemble the digest. *)

\* _tenants_with_work before digests were held.
HasWorkButHeld == \/ \E m \in Message : status[m] = "scheduled"
                  \/ Rows("pending") # {}

\* _tenants_with_work
HasWork == \/ \E m \in Message : status[m] = "scheduled"
           \/ Rows("pending") # {} \/ Rows("held") # {}

Tick(p) ==
    /\ At(p, "idle") /\ HasWork
    /\ proc' = [proc EXCEPT ![p] = [Free EXCEPT
                  !.stage = "promote", !.pass = TRUE,
                  !.due = {m \in Message : status[m] = "scheduled" /\ isDue[m]}]]
    /\ UNCHANGED <<status, row, digestDue, settings, history>>

\* A batch of rows is read, with the attempts made so far.  (Which rows are
\* the oldest is left open.)
Picked(p, stage, batch) ==
    [proc[p] EXCEPT !.stage = stage, !.batch = batch,
                    !.read = [e \in Entry |-> IF e \in batch THEN row[e].attempts ELSE 0]]

StartDrain(p) ==
    /\ \/ At(p, "toDrain")
       \/ At(p, "promote") /\ proc[p].due = {}
    /\ \E batch \in SUBSET Ready("pending") :
         /\ IF Cardinality(Ready("pending")) <= BatchLimit
            THEN batch = Ready("pending") ELSE Cardinality(batch) = BatchLimit
         /\ proc' = [proc EXCEPT ![p] = Picked(p, "drain", batch)]
    /\ UNCHANGED <<status, row, digestDue, settings, history>>

Unsent(p) == {e \in proc[p].batch : proc[p].res[e] = "none"}
Note(p, es, o) == proc' = [proc EXCEPT ![p].res = [e \in Entry |-> IF e \in es THEN o ELSE @[e]]]
Accepted(p, es) == Note(p, es, "ok") /\ delivered' = delivered \cup es
NotAccepted(p, es, o) == Note(p, es, o) /\ UNCHANGED delivered

SendEmail(p, e) ==
    /\ At(p, "drain") /\ e \in Unsent(p)
    /\ IF contact[e[2]] = "none" THEN NotAccepted(p, {e}, "gone")
       ELSE Accepted(p, {e}) \/ NotAccepted(p, {e}, "error")
    /\ UNCHANGED <<status, row, digestDue, settings, alerts>>

\* One member's newsletter: every held row of theirs in one email.  The flags
\* are looked at again.
SendDigest(p, a) ==
    LET es == {e \in Unsent(p) : e[2] = a}
    IN  /\ At(p, "digest") /\ es # {}
        /\ CASE contact[a] = "none" -> NotAccepted(p, es, "gone")
             [] contact[a] = "off" -> NotAccepted(p, es, "skip")
             [] contact[a] = "ok" -> Accepted(p, es) \/ NotAccepted(p, es, "error")
        /\ UNCHANGED <<status, row, digestDue, settings, alerts>>

\* A retry counted one too far.
SettledOneLate(x, attempts, o) ==
    CASE o = "ok" -> [x EXCEPT !.state = "sent"]
      [] o = "gone" -> [x EXCEPT !.state = "failed"]
      [] o = "skip" -> [x EXCEPT !.state = "skipped"]
      [] o = "error" -> IF attempts + 1 > MaxAttempts
                        THEN [x EXCEPT !.state = "failed", !.attempts = attempts + 1]
                        ELSE [x EXCEPT !.attempts = attempts + 1, !.waiting = TRUE]

\* The whole row written back as it was read, its state included.
SettledWholeRow(x, attempts, o) ==
    CASE o = "ok" -> [x EXCEPT !.state = "sent"]
      [] o = "gone" -> [x EXCEPT !.state = "failed"]
      [] o = "skip" -> [x EXCEPT !.state = "skipped"]
      [] o = "error" -> IF attempts + 1 >= MaxAttempts
                        THEN [x EXCEPT !.state = "failed", !.attempts = attempts + 1]
                        ELSE [state |-> "pending", attempts |-> attempts + 1, waiting |-> TRUE]

\* What a session's UPDATE leaves of a row: the columns it changed, computed
\* from the attempts it read.
Settled(x, attempts, o) ==
    CASE o = "ok" -> [x EXCEPT !.state = "sent"]
      [] o = "gone" -> [x EXCEPT !.state = "failed"]
      [] o = "skip" -> [x EXCEPT !.state = "skipped"]
      [] o = "error" -> IF attempts + 1 >= MaxAttempts
                        THEN [x EXCEPT !.state = "failed", !.attempts = attempts + 1]
                        ELSE [x EXCEPT !.attempts = attempts + 1, !.waiting = TRUE]

Written(p) ==
    [e \in Entry |-> IF e \in proc[p].batch THEN Settled(row[e], proc[p].read[e], proc[p].res[e])
                                            ELSE row[e]]

\* Rows another session has flushed and not committed.
Locked(p) ==
    \E q \in Proc \ {p} : /\ proc[q].stage \in {"drained", "digested"}
                          /\ proc[q].batch \cap proc[p].batch # {}

\* The flush, and which of the messages touched have nothing pending.  A row
\* whose member or address is gone does not touch its message.
FlushDrain(p) ==
    LET touched == {e[1] : e \in {d \in proc[p].batch : proc[p].res[d] # "gone"}}
    IN  /\ At(p, "drain") /\ Unsent(p) = {} /\ ~Locked(p)
        /\ proc' = [proc EXCEPT ![p] = [@ EXCEPT
                      !.stage = "drained",
                      !.final = {m \in touched : /\ status[m] = "sending"
                                                 /\ Drained(m, Written(p))}]]
        /\ UNCHANGED <<status, row, digestDue, settings, history>>

CommitDrain(p) ==
    /\ At(p, "drained")
    /\ row' = Written(p)
    /\ status' = [m \in Message |-> IF m \in proc[p].final THEN "sent" ELSE status[m]]
    /\ proc' = [proc EXCEPT ![p] = Onwards(p, "toDigest")]
    /\ UNCHANGED <<digestDue, settings, history>>

StartDigest(p) ==
    /\ At(p, "toDigest")
    /\ proc' = [proc EXCEPT ![p] = IF digestDue THEN Picked(p, "digest", Ready("held"))
                                                ELSE Free]
    /\ UNCHANGED <<status, row, digestDue, settings, history>>

\* The slot is closed only when nothing is held any more.
FlushDigest(p) ==
    /\ At(p, "digest") /\ Unsent(p) = {} /\ ~Locked(p)
    /\ proc' = [proc EXCEPT ![p] = [@ EXCEPT
                  !.stage = "digested",
                  !.close = \A e \in Entry : Written(p)[e].state # "held"]]
    /\ UNCHANGED <<status, row, digestDue, settings, history>>

CommitDigest(p) ==
    /\ At(p, "digested")
    /\ row' = Written(p)
    /\ digestDue' = (digestDue /\ ~proc[p].close)
    /\ proc' = [proc EXCEPT ![p] = Free]
    /\ UNCHANGED <<status, settings, history>>

\* The process is killed or an unforeseen error ends it: its transaction is
\* rolled back, and what the provider and the devices received stays received.
Crash(p) ==
    /\ ~At(p, "idle") /\ crashes + changes < MaxFaults
    /\ crashes' = crashes + 1
    /\ proc' = [proc EXCEPT ![p] = Free]
    /\ UNCHANGED <<status, row, digestDue, isDue, audience, delivery, prefers, contact, changes, history>>
-----------------------------------------------------------------------------
(* Time and everybody else. *)
World == UNCHANGED <<status, proc, audience, delivery, prefers, crashes, history>>

\* scheduled_at comes.
TimeComes(m) ==
    /\ ~isDue[m]
    /\ SlowRequests \/ \A p \in Proc : ~At(p, "schedule")
    /\ isDue' = [isDue EXCEPT ![m] = TRUE]
    /\ World /\ UNCHANGED <<row, digestDue, contact, changes>>

BackoffEnds(e) ==
    /\ row[e].waiting
    /\ row' = [row EXCEPT ![e].waiting = FALSE]
    /\ World /\ UNCHANGED <<isDue, digestDue, contact, changes>>

\* The week's day and hour; no pass takes as long as a week.
SlotArrives ==
    /\ ~digestDue /\ \A p \in Proc : proc[p].stage \notin {"digest", "digested"}
    /\ digestDue' = TRUE
    /\ World /\ UNCHANGED <<isDue, row, contact, changes>>

\* A bounce or complaint webhook, an opt-out, an edit or a purge of a member.
ContactChanges(a, c) ==
    /\ crashes + changes < MaxFaults /\ contact[a] # c
    /\ c = "none" => AddressMayGo
    /\ changes' = changes + 1
    /\ contact' = [contact EXCEPT ![a] = c]
    /\ World /\ UNCHANGED <<isDue, row, digestDue>>
-----------------------------------------------------------------------------
Init ==
    /\ status = [m \in Message |-> "draft"]
    /\ isDue \in [Message -> BOOLEAN]
    /\ audience \in Audience
    /\ delivery \in Delivery /\ prefers \in Preference
    /\ contact = [a \in Member |-> "ok"]
    /\ row = [e \in Entry |-> NoRow]
    /\ digestDue = TRUE
    /\ proc = [p \in Proc |-> Free]
    /\ crashes = 0 /\ changes = 0
    /\ delivered = {} /\ alerts = [e \in Entry |-> 0]

\* What a process does by itself once it is under way.
Run(p) ==
    \/ Schedule(p)
    \/ \E m \in Message : Promote(p, m)
    \/ \E m \in Message : Insert(p, m)
    \/ \E m \in Message : InsertRefused(p, m)
    \/ CommitSend(p)
    \/ Tick(p)
    \/ StartDrain(p) \/ (\E e \in Entry : SendEmail(p, e)) \/ FlushDrain(p) \/ CommitDrain(p)
    \/ StartDigest(p) \/ (\E a \in Member : SendDigest(p, a)) \/ FlushDigest(p)
    \/ CommitDigest(p)

Next ==
    \/ \E p \in Proc, m \in Message : Ask(p, m)
    \/ \E p \in Proc : Run(p)
    \/ \E p \in Proc : Crash(p)
    \/ \E m \in Message : TimeComes(m)
    \/ \E e \in Entry : BackoffEnds(e)
    \/ SlotArrives
    \/ \E a \in Member, c \in {"ok", "none", "off"} : ContactChanges(a, c)

Spec == Init /\ [][Next]_vars

\* Every process goes on, the loop keeps ticking, and time passes.
LiveSpec ==
    /\ Spec
    /\ \A p \in Proc : WF_vars(Run(p))
    /\ WF_vars(\E m \in Message : TimeComes(m))
    /\ WF_vars(\E e \in Entry : BackoffEnds(e))
    /\ WF_vars(SlotArrives)
-----------------------------------------------------------------------------
(* Type correctness, and an email on the queue has attempts left. *)
TypeOK ==
    /\ status \in [Message -> {"draft", "scheduled", "sending", "sent"}]
    /\ isDue \in [Message -> BOOLEAN]
    /\ audience \in Audience
    /\ delivery \in Delivery /\ prefers \in Preference
    /\ contact \in [Member -> {"ok", "none", "off"}]
    /\ row \in [Entry -> [state : RowState, attempts : 0..MaxAttempts, waiting : BOOLEAN]]
    /\ \A e \in Entry : row[e].state \in {"pending", "held"} => row[e].attempts < MaxAttempts
    /\ digestDue \in BOOLEAN
    /\ proc \in [Proc -> ProcState]
    /\ crashes \in Nat /\ changes \in Nat
    /\ delivered \subseteq Entry /\ alerts \in [Entry -> Nat]

(* A message is SENT only when no recipient's email is pending any more, not
   even one waiting out a backoff or in the batch of an overlapping pass. *)
SentMeansDrained == \A m \in Message : status[m] = "sent" => Drained(m, row)

(* An email is recorded as sent only if the provider accepted it. *)
SentIsDelivered == Rows("sent") \subseteq delivered

(* Nobody is alerted twice of a message, however requests and passes that
   send it race, unless a process died after its alerts and before its commit. *)
AlertedOnce == \A e \in Entry : alerts[e] <= 1 + crashes

(* What is settled never goes back on the queue, whatever a pass that read it
   earlier writes over it. *)
NeverRequeued ==
    [][\A e \in Entry : row[e].state \in {"sent", "failed", "skipped"}
                           => row'[e].state \in {"sent", "failed", "skipped"}]_vars

(* A message whose sending has begun, or whose time has been set, is
   eventually SENT: "SENDING -> SENT once no recipient email remains pending". *)
EverySendCompletes ==
    \A m \in Message : status[m] \in {"scheduled", "sending"} ~> status[m] = "sent"

\* No two drains are under way at once.
DrainsApart ==
    \A p, q \in Proc : {proc[p].stage, proc[q].stage} \subseteq {"drain", "drained"} => p = q

(* The same while no two drains overlap, however else requests and passes
   race.  Two that overlap can each see the other's email as still pending and
   leave the message SENDING for good. *)
SendsCompleteApart == []DrainsApart => EverySendCompletes

(* Every email is eventually settled: none waits on the queue or for a
   newsletter for ever. *)
QueueEmpties == <>[](Rows("pending") \cup Rows("held") = {})
=============================================================================
