------------------------------ MODULE SyncPull ------------------------------
(***************************************************************************)
(* The offline pull protocol: the server's change stream (the sync_seq     *)
(* cursor, tombstones, the reaper's watermark; backend/app/routers/sync.py *)
(* core/deletion.py, models/base.py) and one device's mirror of it         *)
(* (apps/mobile/src/data/pull.ts, mirror.ts, engine.ts).                   *)
(*                                                                         *)
(* A row is its id and the sync_seq of its last write: a write draws a new *)
(* value, so the value names the row's contents.  Row ids are ordered as   *)
(* UUIDs are.  The seen_epoch column is kept as the set of rows stamped    *)
(* with the current epoch, which is all that sweepStale's "seen_epoch <    *)
(* epoch" tells apart.                                                     *)
(***************************************************************************)
EXTENDS Integers, FiniteSets

CONSTANTS
    Row,         \* row ids of every stream, ordered as numbers
    NumEntity,   \* number of streams, pulled in the order 1..NumEntity
    EntityOf,    \* the stream each row belongs to
    PageLimit,   \* rows per page (PAGE_LIMIT)
    InitialView, \* what the caller may be allowed to see at first
    Disturbance, \* what may come in between: a "view" that changes, a "failure"
                 \* of a sync, an "answer" to a replayed command
    AllowFull,   \* TRUE: someone calls sync({ full: true })
    MaxSeq,      \* bound on the values drawn from the sync_seq sequence
    MaxOpen,     \* bound on the transactions open at once
    MaxFaults    \* bound on these disturbances

ASSUME SyncPullAssumption ==
    /\ Row \subseteq Nat \ {0}
    /\ NumEntity \in Nat \ {0}
    /\ EntityOf \in [Row -> 1..NumEntity]
    /\ PageLimit \in Nat \ {0}
    /\ InitialView \subseteq [Row -> BOOLEAN]
    /\ Disturbance \subseteq {"view", "failure", "answer"} /\ AllowFull \in BOOLEAN
    /\ MaxSeq \in Nat /\ MaxOpen \in Nat /\ MaxFaults \in Nat

Entity == 1..NumEntity

VARIABLES
    srv,        \* the table rows: [st, seq]
    visible,    \* what the caller's audience / family scope lets through
    nextSeq,    \* last value drawn from the sequence
    watermark,  \* Tenant.purged_through_seq
    open,       \* transactions begun and not yet committed
    cursor,     \* sync_state: the persisted cursor of each stream
    mirror,     \* the device's rows: the sync_seq held, 0 when absent
    stamped,    \* device rows whose seen_epoch is the current epoch
    age,        \* last_full_refetch_at: never set, recent, or over a week old
    job,        \* the sync in progress (process memory, lost when the app dies)
    answer,     \* the row in the answer to a replayed command, on its way
    outcome,    \* how the last round ended (lastOutcome)
    faults,     \* failed rounds, visibility changes and answers so far
    horizon,    \* history: the highest value a committed transaction has drawn
    late,       \* history: rows whose last write committed below the horizon
    regained,   \* history: rows that became visible since their last write
    raced,      \* history: rows removed by a reaper that something overtook
    steady      \* history: rows left alone since the refetch under way began

serverVars == <<srv, visible, nextSeq, watermark, open>>
deviceVars == <<cursor, mirror, stamped, age, job, answer, outcome>>
historyVars == <<horizon, late, regained, raced, steady>>
vars == <<serverVars, deviceVars, faults, historyVars>>
-----------------------------------------------------------------------------
(* Positions in a stream.  An id of 0 is since_id = None, which compares   *)
(* seq only: it stands behind every row of that seq.                       *)
NoId == 0
Position == [seq : Nat, id : Row \cup {NoId}]
Zero == [seq |-> 0, id |-> NoId]

RowState == [st : {"none", "live", "dead", "gone"}, seq : Nat]
NoRow == [st |-> "none", seq |-> 0]
Stored(x) == x.st \in {"live", "dead"}

\* The keyset without the id tiebreak.
AfterSeqOnly(x, r, c) == x.seq > c.seq

\* after_cursor: (sync_seq, id) > (since_seq, since_id)
After(x, r, c) == \/ x.seq > c.seq
                  \/ c.id # NoId /\ x.seq = c.seq /\ r > c.id

\* The rows _pull_page's query selects before its LIMIT.
Changes(e, c) ==
    {r \in Row : EntityOf[r] = e /\ Stored(srv[r]) /\ visible[r] /\ After(srv[r], r, c)}

StreamBefore(q, r) == \/ srv[q].seq < srv[r].seq
                      \/ srv[q].seq = srv[r].seq /\ q < r

\* ORDER BY sync_seq, id LIMIT PageLimit: page is the first rows of found.
IsPage(page, found) ==
    /\ page \subseteq found
    /\ \A q \in page, r \in found \ page : StreamBefore(q, r)
    /\ IF Cardinality(found) <= PageLimit THEN page = found
                                          ELSE Cardinality(page) = PageLimit

Here(r) == [seq |-> srv[r].seq, id |-> r]

\* The position a page ends at: its last row's, or where it started if empty.
EndsAt(here, page, since) ==
    \/ page = {} /\ here = since
    \/ \E last \in page : /\ \A q \in page \ {last} : StreamBefore(q, last)
                         /\ here = Here(last)

\* The cursor a page answers with, clamped up to the watermark at the end.
NextCursor(here, more, mark) ==
    IF ~more /\ here.seq < mark THEN [seq |-> mark, id |-> NoId] ELSE here
-----------------------------------------------------------------------------
(* Server transactions.  A statement draws its sync_seq while the          *)
(* transaction is open and the rows show it only at commit.                *)
WriteKind == {"put", "touch", "delete"}
Tx == [kind : WriteKind \cup {"reap"}, rows : SUBSET Row, upd : SUBSET Row,
       seq : Nat, mark : Nat]

ReapOpen == \E t \in open : t.kind = "reap"

\* An insert or revival ("put"), an update that leaves is_deleted alone
\* ("touch") or a soft delete, with the states of the rows it applies to.
Writes == [put |-> {"none", "dead"}, touch |-> {"live", "dead"}, delete |-> {"live"}]

\* A bulk UPDATE gives all its rows one value.
BeginWrite(kind, R) ==
    /\ nextSeq < MaxSeq /\ Cardinality(open) < MaxOpen
    /\ R # {}
    /\ \A r \in R : srv[r].st \in Writes[kind]
    /\ \A r \in R, t \in open : srv[r].st = "none" => r \notin t.rows
    /\ nextSeq' = nextSeq + 1
    /\ open' = open \cup {[kind |-> kind, rows |-> R, upd |-> {},
                           seq |-> nextSeq + 1, mark |-> 0]}
    /\ UNCHANGED <<srv, visible, watermark, deviceVars, faults, historyVars>>

\* reap_purged_members: R are a purged member's row and the rows hanging off
\* it, U the surviving rows whose back-references are nulled.  The watermark
\* is drawn after the updates and deletions.
BeginReap(R, U) ==
    /\ nextSeq + 1 < MaxSeq /\ Cardinality(open) < MaxOpen
    /\ ~ReapOpen
    /\ \E r \in R : srv[r].st = "dead"
    /\ \A r \in R \cup U : Stored(srv[r])
    /\ R \cap U = {}
    /\ nextSeq' = nextSeq + 2
    /\ open' = open \cup {[kind |-> "reap", rows |-> R, upd |-> U,
                           seq |-> nextSeq + 1, mark |-> nextSeq + 2]}
    /\ UNCHANGED <<srv, visible, watermark, deviceVars, faults, historyVars>>

NewState(kind, st) ==
    CASE kind = "put" -> "live"
      [] kind = "touch" -> st
      [] kind = "delete" -> "dead"
      [] kind = "reap" -> "gone"

\* A writer draws its value first and locks its rows with the UPDATE after it,
\* so it waits for a reaper that has removed or updated one of them.
Locked(t) ==
    \E u \in open : /\ u.kind = "reap" /\ t.kind # "reap"
                    /\ (t.rows \cup t.upd) \cap (u.rows \cup u.upd) # {}

\* A statement on a row another transaction has removed matches nothing.
Written(t, r) ==
    IF srv[r].st = "gone" THEN srv[r]
    ELSE IF r \in t.rows
         THEN [st |-> NewState(t.kind, srv[r].st),
               seq |-> IF t.kind = "reap" THEN 0 ELSE t.seq]
    ELSE IF r \in t.upd THEN [srv[r] EXCEPT !.seq = t.seq]
    ELSE srv[r]

MaxOf(a, b) == IF a > b THEN a ELSE b

\* The reaper as it would be without recording the watermark.
NewWatermarkNotRecorded(t) == watermark

NewWatermark(t) == MaxOf(watermark, t.mark)

\* The rows whose removal a page may not betray: a value above the reaper's
\* watermark was committed before it, or a request for their stream has read
\* the old watermark and not yet the rows.
Raced(t) ==
    {r \in t.rows : /\ t.kind = "reap"
                    /\ \/ t.mark <= horizon
                       \/ job.phase = "rows" /\ job.ent = EntityOf[r]}

Commit(t) ==
    /\ ~Locked(t)
    /\ srv' = [r \in Row |-> Written(t, r)]
    /\ watermark' = NewWatermark(t)
    /\ open' = open \ {t}
    /\ horizon' = MaxOf(horizon, MaxOf(t.seq, t.mark))
    /\ IF t.seq > horizon
       THEN /\ late' = late \ (t.rows \cup t.upd)
            /\ regained' = regained \ (t.rows \cup t.upd)
       ELSE /\ late' = late \cup t.rows \cup t.upd
            /\ UNCHANGED regained
    /\ raced' = raced \cup Raced(t)
    /\ steady' = steady \ (t.rows \cup t.upd)
    /\ UNCHANGED <<visible, nextSeq, deviceVars, faults>>

\* A request or the reaper fails: get_db rolls back, the drawn values are lost.
Rollback(t) ==
    /\ open' = open \ {t}
    /\ UNCHANGED <<srv, visible, nextSeq, watermark, deviceVars, faults, historyVars>>

\* Adding or removing an event audience (or changing the caller's groups,
\* family or permissions) changes what the caller's clause lets through and
\* writes no row of the stream.
ChangeVisibility(r) ==
    /\ "view" \in Disturbance /\ faults < MaxFaults
    /\ faults' = faults + 1
    /\ visible' = [visible EXCEPT ![r] = ~@]
    /\ regained' = IF visible[r] THEN regained \ {r} ELSE regained \cup {r}
    /\ steady' = steady \ {r}
    /\ UNCHANGED <<srv, nextSeq, watermark, open, deviceVars, horizon, late, raced>>
-----------------------------------------------------------------------------
(* The device.  job.mode: no sync running, an incremental round, a full    *)
(* refetch, or the refetch's sweep.  job.phase: "ask" before a page        *)
(* request, "rows" after the server read the watermark, "reply" when the   *)
(* answer is on its way, "off" without a request and "done" after a        *)
(* refetch's sweep of the last stream.                                     *)
NoJob == [mode |-> "idle", ent |-> 1, at |-> Zero, phase |-> "off", mark |-> 0,
          snap |-> [r \in Row |-> NoRow], next |-> Zero, more |-> FALSE]

Job == [mode : {"idle", "round", "full", "sweep"}, ent : Entity, at : Position,
        phase : {"off", "ask", "rows", "reply", "done"}, mark : Nat,
        snap : [Row -> RowState], next : Position, more : BOOLEAN]

\* A sync replays the queued commands before it pulls (drainQueue), and only
\* one sync runs: a command's own write is one of the server's transactions,
\* and its answer shows a row as it stands after the commit (db.refresh).
NoAnswer == [row |-> NoId, seq |-> 0]

\* Commands replayed beside a pull.
AnswerBesidePull(r) ==
    /\ answer = NoAnswer
    /\ "answer" \in Disturbance /\ faults < MaxFaults /\ faults' = faults + 1
    /\ srv[r].st = "live"
    /\ answer' = [row |-> r, seq |-> srv[r].seq]
    /\ UNCHANGED <<serverVars, cursor, mirror, stamped, age, job, outcome, historyVars>>

AnswerCommand(r) ==
    /\ job.mode = "idle" /\ answer = NoAnswer
    /\ "answer" \in Disturbance /\ faults < MaxFaults /\ faults' = faults + 1
    /\ srv[r].st = "live"
    /\ answer' = [row |-> r, seq |-> srv[r].seq]
    /\ UNCHANGED <<serverVars, cursor, mirror, stamped, age, job, outcome, historyVars>>

\* upsertResponseRow: a row the mirror lacked begins with the epoch 0.
UpsertResponseRow ==
    /\ answer # NoAnswer
    /\ mirror' = [mirror EXCEPT ![answer.row] = answer.seq]
    /\ stamped' = IF mirror[answer.row] = 0 THEN stamped \ {answer.row} ELSE stamped
    /\ answer' = NoAnswer
    /\ UNCHANGED <<serverVars, cursor, age, job, outcome, faults, historyVars>>

\* The connection drops: the drain halts, and the sync goes on to the pull.
LoseAnswer ==
    /\ answer # NoAnswer /\ answer' = NoAnswer
    /\ UNCHANGED <<serverVars, cursor, mirror, stamped, age, job, outcome, faults, historyVars>>

\* One entity's walk begins at its cursor, or at zero in a full refetch.
WalkFrom(mode, e, c) ==
    [NoJob EXCEPT !.mode = mode, !.ent = e, !.phase = "ask", !.at = c]

\* pullRound: the engine's choice when no refetch is due.
StartRound ==
    /\ job.mode = "idle" /\ answer = NoAnswer /\ age # "due"
    /\ job' = WalkFrom("round", 1, cursor[1])
    /\ UNCHANGED <<serverVars, cursor, mirror, stamped, age, answer, outcome, faults, historyVars>>

\* A refetch that resumes at the stored cursors instead of walking from zero.
StartFullFromCursor ==
    /\ job.mode = "idle" /\ answer = NoAnswer /\ (age = "due" \/ AllowFull)
    /\ job' = WalkFrom("full", 1, cursor[1])
    /\ stamped' = {} /\ steady' = Row
    /\ UNCHANGED <<serverVars, cursor, mirror, age, answer, outcome, faults,
                   horizon, late, regained, raced>>

\* fullRefetch: the epoch is bumped, so no row is stamped any more.
StartFull ==
    /\ job.mode = "idle" /\ answer = NoAnswer /\ (age = "due" \/ AllowFull)
    /\ job' = WalkFrom("full", 1, Zero)
    /\ stamped' = {} /\ steady' = Row
    /\ UNCHANGED <<serverVars, cursor, mirror, age, answer, outcome, faults,
                   horizon, late, regained, raced>>

\* The watermark itself taken for old.
StaleAtWatermark(c) == 0 < c.seq /\ c.seq <= watermark

\* A cursor behind the watermark, which the server answers with 410.
Stale(c) == 0 < c.seq /\ c.seq < watermark

\* The server reads the tenant's watermark and goes on to the rows ...
ReadWatermark ==
    /\ job.phase = "ask" /\ ~Stale(job.at)
    /\ job' = [job EXCEPT !.phase = "rows", !.mark = watermark]
    /\ UNCHANGED <<serverVars, cursor, mirror, stamped, age, answer, outcome, faults, historyVars>>

\* ... or answers 410, which ends the round: pullEntity throws, syncNow
\* catches and keeps the error in its outcome.
Gone410 ==
    /\ job.phase = "ask" /\ Stale(job.at)
    /\ job' = NoJob /\ steady' = {}
    /\ outcome' = "410"
    /\ UNCHANGED <<serverVars, cursor, mirror, stamped, age, answer, faults,
                   horizon, late, regained, raced>>

ReadRows ==
    /\ job.phase = "rows"
    /\ LET found == Changes(job.ent, job.at)
       IN  \E page \in SUBSET found :
             \E here \in {job.at} \cup {Here(r) : r \in page} :
               /\ IsPage(page, found)
               /\ EndsAt(here, page, job.at)
               /\ job' = [job EXCEPT
                     !.phase = "reply", !.mark = 0,
                     !.snap = [r \in Row |-> IF r \in page THEN srv[r] ELSE NoRow],
                     !.next = NextCursor(here, page # found, job.mark),
                     !.more = page # found]
    /\ UNCHANGED <<serverVars, cursor, mirror, stamped, age, answer, outcome, faults, historyVars>>

InPage(r) == Stored(job.snap[r])

\* A page whose rows keep the epoch stamp they were first inserted with.
ApplyPageKeepsStamp ==
    /\ mirror' = [r \in Row |-> IF ~InPage(r) THEN mirror[r]
                                ELSE IF job.snap[r].st = "dead" THEN 0
                                ELSE job.snap[r].seq]
    /\ stamped' = {r \in Row : IF InPage(r) THEN /\ job.snap[r].st = "live"
                                                 /\ r \in stamped \/ mirror[r] = 0
                                            ELSE r \in stamped}
    /\ cursor' = [cursor EXCEPT ![job.ent] = job.next]

\* applyPullPage: the rows and the cursor in one local transaction.
ApplyPage ==
    /\ mirror' = [r \in Row |-> IF ~InPage(r) THEN mirror[r]
                                ELSE IF job.snap[r].st = "dead" THEN 0
                                ELSE job.snap[r].seq]
    /\ stamped' = {r \in Row : IF InPage(r) THEN job.snap[r].st = "live" ELSE r \in stamped}
    /\ cursor' = [cursor EXCEPT ![job.ent] = job.next]

\* More pages of this stream.  (A page with has_more is never empty, so the
\* "not advancing its cursor" error cannot arise from this server.)
ApplyMore ==
    /\ job.phase = "reply" /\ job.more
    /\ ApplyPage
    /\ job' = WalkFrom(job.mode, job.ent, job.next)
    /\ UNCHANGED <<serverVars, age, answer, outcome, faults, historyVars>>

\* The stream is done: on to the next one.
ApplyNext ==
    /\ job.phase = "reply" /\ ~job.more /\ job.ent < NumEntity
    /\ ApplyPage
    /\ job' = WalkFrom(job.mode, job.ent + 1,
                       IF job.mode = "full" THEN Zero ELSE cursor[job.ent + 1])
    /\ UNCHANGED <<serverVars, age, answer, outcome, faults, historyVars>>

\* The last stream is done: a round is over, a refetch turns to sweeping.
ApplyLast ==
    /\ job.phase = "reply" /\ ~job.more /\ job.ent = NumEntity
    /\ ApplyPage
    /\ IF job.mode = "full"
       THEN job' = [NoJob EXCEPT !.mode = "sweep"] /\ UNCHANGED outcome
       ELSE job' = NoJob /\ outcome' = "ok"
    /\ UNCHANGED <<serverVars, age, answer, faults, historyVars>>

\* The loop over streams running one too far.
SweepOverruns ==
    /\ job.mode = "sweep" /\ job.phase = "off"
    /\ mirror' = [r \in Row |-> IF EntityOf[r] = job.ent /\ r \notin stamped
                                THEN 0 ELSE mirror[r]]
    /\ job' = IF job.ent <= NumEntity THEN [job EXCEPT !.ent = @ + 1]
                                      ELSE [job EXCEPT !.phase = "done"]
    /\ UNCHANGED <<serverVars, cursor, stamped, age, answer, outcome, faults, historyVars>>

\* sweepStale of one stream; the loop over streams is not a transaction.
Sweep ==
    /\ job.mode = "sweep" /\ job.phase = "off"
    /\ mirror' = [r \in Row |-> IF EntityOf[r] = job.ent /\ r \notin stamped
                                THEN 0 ELSE mirror[r]]
    /\ job' = IF job.ent < NumEntity THEN [job EXCEPT !.ent = @ + 1]
                                     ELSE [job EXCEPT !.phase = "done"]
    /\ UNCHANGED <<serverVars, cursor, stamped, age, answer, outcome, faults, historyVars>>

\* last_full_refetch_at is written after the sweep of every stream.
FinishFull ==
    /\ job.mode = "sweep" /\ job.phase = "done"
    /\ age' = "fresh" /\ outcome' = "ok" /\ job' = NoJob /\ steady' = {}
    /\ UNCHANGED <<serverVars, cursor, mirror, stamped, answer, faults,
                   horizon, late, regained, raced>>

\* The app is killed, the connection drops, or a request fails otherwise.
Abort ==
    /\ job.mode # "idle" /\ "failure" \in Disturbance /\ faults < MaxFaults
    /\ faults' = faults + 1
    /\ job' = NoJob /\ steady' = {}
    /\ outcome' = "error"
    /\ UNCHANGED <<serverVars, cursor, mirror, stamped, age, answer,
                   horizon, late, regained, raced>>

WeekPasses ==
    /\ age = "fresh" /\ job.mode = "idle"
    /\ age' = "due"
    /\ UNCHANGED <<serverVars, cursor, mirror, stamped, job, answer, outcome, faults, historyVars>>
-----------------------------------------------------------------------------
Init ==
    /\ srv = [r \in Row |-> NoRow]
    /\ visible \in InitialView
    /\ nextSeq = 0 /\ watermark = 0 /\ open = {}
    /\ cursor = [e \in Entity |-> Zero]
    /\ mirror = [r \in Row |-> 0]
    /\ stamped = {}
    /\ age = "never" /\ job = NoJob /\ answer = NoAnswer /\ outcome = "none"
    /\ faults = 0
    /\ horizon = 0 /\ late = {} /\ regained = {} /\ raced = {} /\ steady = {}

Server ==
    \/ \E kind \in WriteKind, R \in SUBSET Row : BeginWrite(kind, R)
    \/ \E R \in SUBSET Row, U \in SUBSET Row : BeginReap(R, U)
    \/ \E t \in open : Commit(t)
    \/ \E t \in open : Rollback(t)
    \/ \E r \in Row : ChangeVisibility(r)

PullStep ==
    \/ ReadWatermark \/ Gone410 \/ ReadRows
    \/ ApplyMore \/ ApplyNext \/ ApplyLast
    \/ Sweep \/ FinishFull

Device ==
    \/ \E r \in Row : AnswerCommand(r)
    \/ UpsertResponseRow \/ LoseAnswer
    \/ StartRound \/ StartFull \/ PullStep \/ Abort \/ WeekPasses

Next == Server \/ Device

Spec == Init /\ [][Next]_vars

\* Open transactions commit (request-scoped), an answer arrives or its
\* connection is given up, a sync under way makes progress, and triggers
\* (foreground, connectivity, enqueue) start another.
\* A trigger starts whichever sync it starts: nothing in the client insists
\* on a full refetch.
LiveSpec ==
    /\ Spec
    /\ WF_vars(\E t \in open : Commit(t))
    /\ WF_vars(UpsertResponseRow \/ LoseAnswer)
    /\ WF_vars(PullStep)
    /\ WF_vars(StartRound \/ StartFull) /\ WF_vars(WeekPasses)

\* With the caller sync-protocol.md asks for, who answers a 410 by a refetch.
RefetchingSpec == LiveSpec /\ SF_vars(StartFull)
-----------------------------------------------------------------------------
(* Type correctness. *)
TypeOK ==
    /\ srv \in [Row -> RowState]
    /\ visible \in [Row -> BOOLEAN]
    /\ nextSeq \in Nat /\ watermark \in Nat
    /\ open \subseteq Tx
    /\ cursor \in [Entity -> Position]
    /\ mirror \in [Row -> Nat]
    /\ stamped \subseteq Row
    /\ age \in {"never", "fresh", "due"}
    /\ job \in Job
    /\ answer \in [row : Row \cup {NoId}, seq : Nat]
    /\ outcome \in {"none", "ok", "410", "error"}
    /\ faults \in Nat
    /\ horizon \in Nat
    /\ late \subseteq Row /\ regained \subseteq Row /\ raced \subseteq Row /\ steady \subseteq Row

\* What a device that has everything holds of a stored row.
Image(x) == IF x.st = "live" THEN x.seq ELSE 0

(* Nothing is missed: a row the caller can see whose last write the stored
   cursor has passed is in the mirror as it stands on the server, or absent
   if it is a tombstone - at every moment, in the middle of a walk, after a
   killed round and while a refetch sweeps.  Excepted are a write that
   committed after a later value had (Decision 1's caveat) and a row that
   became visible without being written. *)
NothingMissed ==
    \A r \in Row :
        (/\ visible[r] /\ Stored(srv[r]) /\ r \notin late \cup regained
         /\ ~After(srv[r], r, cursor[EntityOf[r]]))
            => mirror[r] = Image(srv[r])

(* A row the reaper removed, which no tombstone can express, is never kept
   quietly: the stream it came from will answer the device's cursor with
   410, or the row is unstamped and the next sweep removes it. *)
ReapedRowsAreDetected ==
    \A r \in Row :
        srv[r].st = "gone" /\ mirror[r] # 0
            => Stale(cursor[EntityOf[r]]) \/ r \notin stamped

(* The same of every row whose reaper nothing overtook: refetches that are
   killed or cut off, late answers, earlier reaps and writers that overlap the
   reaper and commit after it leave no removed row unnoticed. *)
OnlyRacedReapsEscape ==
    \A r \in Row \ raced :
        srv[r].st = "gone" /\ mirror[r] # 0
            => Stale(cursor[EntityOf[r]]) \/ r \notin stamped

(* A refetch that has swept the last stream has reconciled every row left
   alone since it began: whatever the stream had missed, whatever left the
   user's view and whatever was reaped, the device holds exactly the live rows
   its user may see - over any number of pages, after refetches that were
   killed and while other rows are written. *)
RefetchReconciles ==
    job.phase = "done" =>
        \A r \in steady : mirror[r] = IF visible[r] THEN Image(srv[r]) ELSE 0

(* A device whose rounds are not answered 410 catches up: once the server
   rests it holds every row in view as it stands, as far as the stream tells
   it (the exceptions are NothingMissed's). *)
CatchesUp ==
    <>[](outcome # "410") =>
        <>[](\A r \in Row : visible[r] /\ Stored(srv[r]) /\ r \notin late \cup regained
                            => mirror[r] = Image(srv[r]))

(* A walk that came to its end is not answered 410 by the next one, unless
   the reaper ran again: once the reaper rests, no round that ended well is
   followed by one that ends in 410. *)
CompletedWalkIsCurrent == <>[][outcome = "ok" => outcome' # "410"]_vars

(* A device that refetches does not loop on 410. *)
NoLoopOn410 == <>[](outcome # "410")

(* A device answered 410 walks its streams again from zero. *)
Gone410LeadsToRefetch == (outcome = "410") ~> (job.mode = "full")
=============================================================================
