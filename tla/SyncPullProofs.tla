--------------------------- MODULE SyncPullProofs ---------------------------
(***************************************************************************)
(* Proofs about SyncPull, for every table, page size, number of streams    *)
(* and bound: the types, that the mirror misses nothing its cursors have   *)
(* passed (NothingMissed), and that a device never keeps a reaped row      *)
(* quietly unless something overtook its reaper (OnlyRacedReapsEscape).    *)
(*                                                                         *)
(* NothingMissed is not inductive.  A page is applied long after it was    *)
(* read, so the invariant says what a reply on its way still guarantees    *)
(* (Replied), where a walk stands relative to the stored cursor (Walking), *)
(* what a refetch has stamped so far (Stamping), and that no position ever *)
(* lies beyond the highest committed value (Behind), which is why a new    *)
(* write lands after every cursor, and what the answer to a replayed       *)
(* command shows of its row (Answered).  ReapInv adds to it what the       *)
(* reaper's watermark relies on.                                           *)
(***************************************************************************)
EXTENDS SyncPull, TLAPS

\* A row the protocol promises to deliver: in view, and its last write neither
\* overtaken at commit nor older than its coming into view.
Known(r) == visible[r] /\ Stored(srv[r]) /\ r \notin late \cup regained

Passed(r, c) == Known(r) /\ ~After(srv[r], r, c)

\* Positions, rows and the watermark never run ahead of the committed values.
Behind ==
    /\ watermark <= horizon /\ job.mark <= horizon
    /\ job.at.seq <= horizon /\ job.next.seq <= horizon
    /\ \A e \in Entity : cursor[e].seq <= horizon
    /\ \A r \in Row : srv[r].seq <= horizon

\* Values are drawn from 1 on, so no stored row hides behind the zero cursor.
Drawn ==
    /\ \A t \in open : t.seq > 0
    /\ \A r \in Row : Stored(srv[r]) => srv[r].seq > 0

\* A walk stands at the stream's stored cursor or at zero.
Walking ==
    job.phase \in {"ask", "rows", "reply"} =>
        /\ job.mode \in {"round", "full"}
        /\ job.at = Zero \/ job.at = cursor[job.ent]

\* A page on its way holds every row between where it began and where it ends
\* that has not been written again since.
Replied ==
    job.phase = "reply" => \A r \in Row :
        /\ InPage(r) => EntityOf[r] = job.ent
        /\ EntityOf[r] = job.ent /\ Passed(r, job.next) =>
              IF InPage(r) THEN job.snap[r] = srv[r] ELSE ~After(srv[r], r, job.at)

\* A refetch has stamped every live row it has walked past.
Stamping ==
    /\ job.mode = "full" => \A r \in Row :
          (/\ srv[r].st = "live"
           /\ \/ EntityOf[r] < job.ent /\ Passed(r, cursor[EntityOf[r]])
              \/ EntityOf[r] = job.ent /\ Passed(r, job.at)) => r \in stamped
    /\ job.mode = "sweep" => \A r \in Row :
          srv[r].st = "live" /\ Passed(r, cursor[EntityOf[r]]) => r \in stamped

\* The answer to a replayed command: no pull runs beside it, and if its row was
\* not written since, it is the row.
Answered ==
    answer # NoAnswer =>
        /\ job.mode = "idle" /\ answer.row \in Row
        /\ Passed(answer.row, cursor[EntityOf[answer.row]]) =>
              answer.seq = Image(srv[answer.row])

IInv ==
    TypeOK /\ Behind /\ Drawn /\ Walking /\ Replied /\ Stamping /\ NothingMissed /\ Answered
-----------------------------------------------------------------------------
(* Types. *)
LEMMA NoJobType == 1 \in Entity /\ Zero \in Position /\ NoJob \in Job
<1>1. 1 \in Entity
  BY SyncPullAssumption DEF Entity
<1>2. Zero \in Position
  BY DEF Zero, Position, NoId
<1>3. [r \in Row |-> NoRow] \in [Row -> RowState]
  BY DEF NoRow, RowState
<1> QED
  BY <1>1, <1>2, <1>3 DEF NoJob, Job

LEMMA WalkType ==
    ASSUME NEW mode \in {"idle", "round", "full", "sweep"}, NEW e \in Entity,
           NEW c \in Position
    PROVE  WalkFrom(mode, e, c) \in Job
  BY NoJobType DEF WalkFrom, Job

LEMMA TypeInit == Init => TypeOK
<1> SUFFICES ASSUME Init PROVE TypeOK
  OBVIOUS
<1> QED
  BY NoJobType, SyncPullAssumption DEF Init, TypeOK, RowState, NoRow, NoAnswer, NoId

LEMMA TypeStep == TypeOK /\ [Next]_vars => TypeOK'
<1> SUFFICES ASSUME TypeOK, [Next]_vars PROVE TypeOK'
  OBVIOUS
<1> USE SyncPullAssumption DEF TypeOK, serverVars, deviceVars, historyVars
<1>0. 1 \in Entity /\ Zero \in Position /\ NoJob \in Job /\ NoId \in Row \cup {NoId}
  BY NoJobType
<1>1. ASSUME NEW kind \in WriteKind, NEW R \in SUBSET Row, BeginWrite(kind, R)
      PROVE  TypeOK'
  <2> DEFINE tx == [kind |-> kind, rows |-> R, upd |-> {}, seq |-> nextSeq + 1, mark |-> 0]
  <2>1. tx \in Tx
    BY DEF Tx
  <2>2. open' = open \cup {tx} /\ nextSeq' = nextSeq + 1
    BY <1>1 DEF BeginWrite
  <2>3. UNCHANGED <<srv, visible, watermark, deviceVars, faults, historyVars>>
    BY <1>1 DEF BeginWrite
  <2> HIDE DEF tx
  <2> QED
    BY <2>1, <2>2, <2>3
<1>2. ASSUME NEW R \in SUBSET Row, NEW U \in SUBSET Row, BeginReap(R, U)
      PROVE  TypeOK'
  <2> DEFINE tx == [kind |-> "reap", rows |-> R, upd |-> U,
                    seq |-> nextSeq + 1, mark |-> nextSeq + 2]
  <2>1. tx \in Tx
    BY DEF Tx
  <2>2. open' = open \cup {tx} /\ nextSeq' = nextSeq + 2
    BY <1>2 DEF BeginReap
  <2> QED
    BY <1>2, <2>1, <2>2 DEF BeginReap
<1>3. ASSUME NEW t \in open, Commit(t)
      PROVE  TypeOK'
  <2>1. t \in Tx /\ NewWatermark(t) \in Nat /\ MaxOf(horizon, MaxOf(t.seq, t.mark)) \in Nat
    BY DEF Tx, NewWatermark, MaxOf
  <2>2. \A r \in Row : Written(t, r) \in RowState
    BY <2>1 DEF Written, NewState, RowState, Tx, WriteKind
  <2>3. t.rows \subseteq Row /\ t.upd \subseteq Row /\ Raced(t) \subseteq Row
    BY <2>1 DEF Tx, Raced
  <2> QED
    BY <1>3, <2>1, <2>2, <2>3 DEF Commit
<1>4. ASSUME NEW t \in open, Rollback(t)
      PROVE  TypeOK'
  BY <1>4 DEF Rollback
<1>5. ASSUME NEW r \in Row, ChangeVisibility(r)
      PROVE  TypeOK'
  BY <1>5 DEF ChangeVisibility
<1>6. ASSUME StartRound PROVE TypeOK'
  <2>1. job' \in Job
    BY <1>0, <1>6, WalkType DEF StartRound
  <2> QED
    BY <1>6, <2>1 DEF StartRound
<1>7. ASSUME StartFull PROVE TypeOK'
  <2>1. job' \in Job
    BY <1>0, <1>7, WalkType DEF StartFull
  <2> QED
    BY <1>7, <2>1 DEF StartFull
<1>8. ASSUME ReadWatermark PROVE TypeOK'
  BY <1>8 DEF ReadWatermark, Job
<1>9. ASSUME Gone410 PROVE TypeOK'
  BY <1>0, <1>9 DEF Gone410
<1>10. ASSUME ReadRows PROVE TypeOK'
  <2> DEFINE found == Changes(job.ent, job.at)
             Reply(page, here) ==
               [job EXCEPT !.phase = "reply", !.mark = 0,
                           !.snap = [r \in Row |-> IF r \in page THEN srv[r] ELSE NoRow],
                           !.next = NextCursor(here, page # found, job.mark),
                           !.more = page # found]
  <2>0. PICK page \in SUBSET found :
          \E here \in {job.at} \cup {Here(r) : r \in page} : job' = Reply(page, here)
    BY <1>10 DEF ReadRows
  <2>1. PICK here \in {job.at} \cup {Here(r) : r \in page} : job' = Reply(page, here)
    BY <2>0
  <2>2. here \in Position /\ job.mark \in Nat
    BY DEF Here, Position, RowState, Job, Changes
  <2>3. NextCursor(here, page # found, job.mark) \in Position
    BY <2>2, <1>0 DEF NextCursor, Position
  <2>4. [r \in Row |-> IF r \in page THEN srv[r] ELSE NoRow] \in [Row -> RowState]
    BY DEF NoRow, RowState
  <2>5. job' \in Job
    BY <2>1, <2>3, <2>4 DEF Job
  <2> QED
    BY <1>10, <2>5 DEF ReadRows
<1>11. ASSUME job.phase = "reply", ApplyPage
       PROVE  cursor' \in [Entity -> Position] /\ mirror' \in [Row -> Nat] /\ stamped' \subseteq Row
  BY <1>11 DEF ApplyPage, Job, RowState
<1>12. ASSUME ApplyMore PROVE TypeOK'
  <2>1. job' \in Job
    BY <1>12, WalkType DEF ApplyMore, Job
  <2> QED
    BY <1>11, <1>12, <2>1 DEF ApplyMore
<1>13. ASSUME ApplyNext PROVE TypeOK'
  <2>1. job.ent + 1 \in Entity /\ job.mode \in {"idle", "round", "full", "sweep"}
    BY <1>13 DEF ApplyNext, Job, Entity
  <2>2. job' \in Job
    BY <1>0, <1>13, <2>1, WalkType DEF ApplyNext
  <2> QED
    BY <1>11, <1>13, <2>2 DEF ApplyNext
<1>14. ASSUME ApplyLast PROVE TypeOK'
  <2>1. NoJob \in Job /\ [NoJob EXCEPT !.mode = "sweep"] \in Job
    BY <1>0 DEF Job
  <2>2. job' \in Job
    BY <1>14, <2>1 DEF ApplyLast
  <2> QED
    BY <1>11, <1>14, <2>2 DEF ApplyLast
<1>15. ASSUME Sweep PROVE TypeOK'
  <2>1. job.ent < NumEntity => job.ent + 1 \in Entity
    BY DEF Job, Entity
  <2>2. [job EXCEPT !.phase = "done"] \in Job
    BY DEF Job
  <2>3. job.ent + 1 \in Entity => [job EXCEPT !.ent = @ + 1] \in Job
    BY DEF Job
  <2>4. job' \in Job
    BY <1>15, <2>1, <2>2, <2>3 DEF Sweep
  <2> QED
    BY <1>15, <2>4 DEF Sweep
<1>16. ASSUME FinishFull PROVE TypeOK'
  BY <1>0, <1>16 DEF FinishFull
<1>17. ASSUME Abort PROVE TypeOK'
  BY <1>0, <1>17 DEF Abort
<1>18. ASSUME WeekPasses PROVE TypeOK'
  BY <1>18 DEF WeekPasses
<1>20. NoAnswer \in [row : Row \cup {NoId}, seq : Nat]
  BY DEF NoAnswer
<1>21. ASSUME NEW r \in Row, AnswerCommand(r)
       PROVE  TypeOK'
  <2>1. srv[r].seq \in Nat
    BY DEF RowState
  <2> QED
    BY <1>21, <2>1 DEF AnswerCommand
<1>22. ASSUME UpsertResponseRow PROVE TypeOK'
  <2>1. answer.seq \in Nat
    OBVIOUS
  <2> QED
    BY <1>20, <1>22, <2>1 DEF UpsertResponseRow
<1>23. ASSUME LoseAnswer PROVE TypeOK'
  BY <1>20, <1>23 DEF LoseAnswer
<1>19. CASE UNCHANGED vars
  BY <1>19 DEF vars
<1> QED
  BY <1>1, <1>2, <1>3, <1>4, <1>5, <1>6, <1>7, <1>8, <1>9, <1>10, <1>12, <1>13,
     <1>14, <1>15, <1>16, <1>17, <1>18, <1>19, <1>21, <1>22, <1>23
  DEF Next, Server, Device, PullStep

\* Every state of every run is well typed: the position held in memory, the
\* stored cursors and the rows of an answer stay within their ranges, and a
\* refetch's sweep never runs past the last stream.
THEOREM TypeCorrect == Spec => []TypeOK
  BY TypeInit, TypeStep, PTL DEF Spec
-----------------------------------------------------------------------------
(* What a server step leaves of the invariant. *)

\* A committed value bounds every row and the watermark, and never falls.
LEMMA ServerBehind == TypeOK /\ Behind /\ Server => Behind' /\ horizon' >= horizon
<1> SUFFICES ASSUME TypeOK, Behind, Server PROVE Behind' /\ horizon' >= horizon
  OBVIOUS
<1> USE DEF TypeOK, Behind, deviceVars, historyVars
<1>1. ASSUME NEW t \in open, Commit(t) PROVE Behind' /\ horizon' >= horizon
  <2>1. t \in Tx /\ t.seq \in Nat /\ t.mark \in Nat
    BY DEF Tx
  <2>2. horizon' >= horizon /\ horizon' >= t.seq /\ horizon' >= t.mark /\ horizon' \in Nat
    BY <1>1, <2>1 DEF Commit, MaxOf
  <2>3. watermark' <= horizon'
    BY <1>1, <2>1, <2>2 DEF Commit, NewWatermark, MaxOf
  <2>4. ASSUME NEW r \in Row PROVE srv'[r].seq <= horizon'
    <3>1. srv'[r] = Written(t, r)
      BY <1>1 DEF Commit
    <3>2. srv'[r].seq \in {srv[r].seq, t.seq, 0}
      BY <3>1 DEF Written, RowState
    <3> QED
      BY <2>2, <3>2 DEF RowState
  <2>5. job' = job /\ cursor' = cursor
    BY <1>1 DEF Commit
  <2>6. /\ job.mark \in Nat /\ job.at.seq \in Nat /\ job.next.seq \in Nat
        /\ \A e \in Entity : cursor[e].seq \in Nat
    BY DEF Job, Position
  <2> QED
    BY <2>2, <2>3, <2>4, <2>5, <2>6
<1>2. CASE UNCHANGED <<srv, watermark, job, cursor, horizon>>
  BY <1>2
<1> QED
  BY <1>1, <1>2 DEF Server, BeginWrite, BeginReap, Rollback, ChangeVisibility

LEMMA ServerDrawn == TypeOK /\ Drawn /\ Server => Drawn'
<1> SUFFICES ASSUME TypeOK, Drawn, Server PROVE Drawn'
  OBVIOUS
<1> USE DEF TypeOK, Drawn
<1>1. ASSUME NEW kind \in WriteKind, NEW R \in SUBSET Row, BeginWrite(kind, R)
      PROVE  Drawn'
  <2> DEFINE tx == [kind |-> kind, rows |-> R, upd |-> {}, seq |-> nextSeq + 1, mark |-> 0]
  <2>1. tx.seq > 0
    OBVIOUS
  <2>2. open' = open \cup {tx} /\ srv' = srv
    BY <1>1 DEF BeginWrite
  <2> HIDE DEF tx
  <2> QED
    BY <2>1, <2>2
<1>2. ASSUME NEW R \in SUBSET Row, NEW U \in SUBSET Row, BeginReap(R, U)
      PROVE  Drawn'
  <2> DEFINE tx == [kind |-> "reap", rows |-> R, upd |-> U,
                    seq |-> nextSeq + 1, mark |-> nextSeq + 2]
  <2>1. tx.seq > 0
    OBVIOUS
  <2>2. open' = open \cup {tx} /\ srv' = srv
    BY <1>2 DEF BeginReap
  <2> HIDE DEF tx
  <2> QED
    BY <2>1, <2>2
<1>3. ASSUME NEW t \in open, Commit(t) PROVE Drawn'
  <2>1. t \in Tx /\ t.seq > 0 /\ open' \subseteq open
    BY <1>3 DEF Tx, Commit
  <2>2. ASSUME NEW r \in Row, Stored(srv'[r]) PROVE srv'[r].seq > 0
    <3>1. srv'[r] = Written(t, r)
      BY <1>3 DEF Commit
    <3>2. CASE srv'[r] = srv[r]
      BY <2>2, <3>2
    <3>3. CASE r \in t.rows /\ srv[r].st # "gone"
      <4>1. t.kind # "reap"
        BY <2>2, <3>1, <3>3 DEF Written, NewState, Stored
      <4> QED
        BY <2>1, <3>1, <3>3, <4>1 DEF Written
    <3>4. CASE srv[r].st # "gone" /\ r \notin t.rows /\ r \in t.upd
      BY <2>1, <3>1, <3>4 DEF Written, RowState
    <3> QED
      BY <3>1, <3>2, <3>3, <3>4 DEF Written
  <2> QED
    BY <2>1, <2>2
<1>4. CASE open' \subseteq open /\ srv' = srv
  BY <1>4
<1> QED
  BY <1>1, <1>2, <1>3, <1>4 DEF Server, Rollback, ChangeVisibility

\* The heart of the matter: after a server step a row the protocol promises is
\* the row it was, or lies beyond everything that had been committed.
LEMMA ServerKeeps ==
    ASSUME TypeOK, Server, NEW r \in Row,
           visible'[r], Stored(srv'[r]), r \notin late' \cup regained'
    PROVE  srv'[r].seq > horizon \/ (srv'[r] = srv[r] /\ Known(r))
<1> USE DEF TypeOK, historyVars
<1>1. ASSUME NEW t \in open, Commit(t)
      PROVE  srv'[r].seq > horizon \/ (srv'[r] = srv[r] /\ Known(r))
  <2>1. t \in Tx /\ srv'[r] = Written(t, r) /\ visible' = visible
    BY <1>1 DEF Commit
  <2>2. CASE r \notin t.rows \cup t.upd
    <3>1. srv'[r] = srv[r]
      BY <2>1, <2>2 DEF Written
    <3>2. r \notin late \cup regained
      BY <1>1, <2>2 DEF Commit
    <3> QED
      BY <2>1, <3>1, <3>2 DEF Known
  <2>3. CASE r \in t.rows \cup t.upd
    <3>1. t.seq > horizon
      BY <1>1, <2>3 DEF Commit
    <3>2. srv[r].st # "gone"
      BY <2>1 DEF Written, Stored
    <3>3. srv'[r].seq = t.seq
      <4>1. CASE r \in t.rows
        <5>1. t.kind # "reap"
          BY <2>1, <3>2, <4>1 DEF Written, NewState, Stored
        <5> QED
          BY <2>1, <3>2, <4>1, <5>1 DEF Written
      <4>2. CASE r \notin t.rows
        BY <2>1, <2>3, <3>2, <4>2 DEF Written, RowState
      <4> QED
        BY <4>1, <4>2
    <3> QED
      BY <3>1, <3>3
  <2> QED
    BY <2>2, <2>3
<1>2. ASSUME NEW q \in Row, ChangeVisibility(q)
      PROVE  srv'[r] = srv[r] /\ Known(r)
  <2>1. srv' = srv /\ late' = late
    BY <1>2 DEF ChangeVisibility
  <2>2. CASE r = q
    <3>1. ~visible[r]
      BY <1>2, <2>2 DEF ChangeVisibility
    <3>2. regained' = regained \cup {r}
      BY <1>2, <2>2, <3>1 DEF ChangeVisibility
    <3> QED
      BY <3>2
  <2>3. CASE r # q
    <3>1. visible[r] /\ r \notin regained
      BY <1>2, <2>3 DEF ChangeVisibility
    <3> QED
      BY <2>1, <3>1 DEF Known
  <2> QED
    BY <2>2, <2>3
<1>3. CASE UNCHANGED <<srv, visible, late, regained>>
  BY <1>3 DEF Known
<1> QED
  BY <1>1, <1>2, <1>3 DEF Server, BeginWrite, BeginReap, Rollback

LEMMA ServerKeepsPassed ==
    ASSUME TypeOK, Server, NEW r \in Row, NEW c \in Position, c.seq <= horizon,
           visible'[r], Stored(srv'[r]), r \notin late' \cup regained',
           ~After(srv'[r], r, c)
    PROVE  srv'[r] = srv[r] /\ Passed(r, c)
<1>1. srv'[r].seq > horizon \/ (srv'[r] = srv[r] /\ Known(r))
  BY ServerKeeps
<1>2. srv'[r] \in RowState
  BY TypeStep DEF Next, TypeOK
<1>3. srv'[r].seq <= c.seq
  BY <1>2 DEF After, RowState, Position
<1>4. srv'[r].seq \in Nat /\ c.seq \in Nat /\ horizon \in Nat
  BY <1>2 DEF RowState, Position, TypeOK
<1> QED
  BY <1>1, <1>3, <1>4 DEF Passed

LEMMA ServerInv ==
    ASSUME IInv, Server
    PROVE  Behind' /\ Drawn' /\ Walking' /\ Replied' /\ Stamping' /\ NothingMissed'
<1> USE DEF IInv
<1>1. Behind' /\ Drawn'
  BY ServerBehind, ServerDrawn
<1>2. UNCHANGED <<cursor, mirror, stamped, job>>
  BY DEF Server, BeginWrite, BeginReap, Commit, Rollback, ChangeVisibility, deviceVars
<1>3. Walking'
  BY <1>2 DEF Walking
<1>4. /\ job.at \in Position /\ job.at.seq <= horizon
      /\ job.next \in Position /\ job.next.seq <= horizon
      /\ \A r \in Row : /\ cursor[EntityOf[r]] \in Position
                       /\ cursor[EntityOf[r]].seq <= horizon
  BY SyncPullAssumption DEF TypeOK, Job, Behind, Entity
<1>5. ASSUME job.phase = "reply", NEW r \in Row
      PROVE  /\ InPage(r) => EntityOf[r] = job.ent
             /\ (/\ EntityOf[r] = job.ent
                 /\ visible'[r] /\ Stored(srv'[r]) /\ r \notin late' \cup regained'
                 /\ ~After(srv'[r], r, job.next)) =>
                   IF InPage(r) THEN job.snap[r] = srv'[r] ELSE ~After(srv'[r], r, job.at)
  BY <1>4, <1>5, ServerKeepsPassed DEF Replied
<1>6. Replied'
  BY <1>2, <1>5 DEF Replied, Passed, Known, InPage
<1>7. ASSUME NEW r \in Row, srv'[r].st = "live",
             visible'[r], r \notin late' \cup regained'
      PROVE  /\ (/\ job.mode = "full" /\ EntityOf[r] < job.ent
                 /\ ~After(srv'[r], r, cursor[EntityOf[r]])) => r \in stamped
             /\ (/\ job.mode = "full" /\ EntityOf[r] = job.ent
                 /\ ~After(srv'[r], r, job.at)) => r \in stamped
             /\ (/\ job.mode = "sweep"
                 /\ ~After(srv'[r], r, cursor[EntityOf[r]])) => r \in stamped
  <2>1. Stored(srv'[r])
    BY <1>7 DEF Stored
  <2>2. \A c \in Position : c.seq <= horizon /\ ~After(srv'[r], r, c)
                              => srv[r].st = "live" /\ Passed(r, c)
    BY <1>7, <2>1, ServerKeepsPassed
  <2> QED
    BY <1>4, <2>2 DEF Stamping
<1>8. Stamping'
  BY <1>2, <1>7 DEF Stamping, Passed, Known
<1>9. ASSUME NEW r \in Row, visible'[r], Stored(srv'[r]), r \notin late' \cup regained',
             ~After(srv'[r], r, cursor[EntityOf[r]])
      PROVE  mirror[r] = Image(srv'[r])
  <2>1. srv'[r] = srv[r] /\ Passed(r, cursor[EntityOf[r]])
    BY <1>4, <1>9, ServerKeepsPassed
  <2> QED
    BY <2>1 DEF NothingMissed, Passed, Known
<1>10. NothingMissed'
  BY <1>2, <1>9 DEF NothingMissed, Image
<1> QED
  BY <1>1, <1>3, <1>6, <1>8, <1>10
-----------------------------------------------------------------------------
(* What a device step leaves of the invariant.  It changes no row. *)

\* No row is behind the zero cursor.
LEMMA ZeroPassesNothing ==
    ASSUME TypeOK, Drawn, NEW r \in Row, Stored(srv[r])
    PROVE  After(srv[r], r, Zero)
  BY DEF TypeOK, Drawn, After, Zero, RowState

\* Without a walk under way the invariant is what it says of rows and cursors.
LEMMA JobEnds ==
    ASSUME IInv, UNCHANGED <<srv, visible, watermark, open, horizon, late, regained>>,
           UNCHANGED <<cursor, mirror>>, job' = NoJob
    PROVE  Behind' /\ Drawn' /\ Walking' /\ Replied' /\ Stamping' /\ NothingMissed'
<1>1. Behind'
  BY DEF IInv, TypeOK, Behind, NoJob, Zero
<1>2. Drawn' /\ NothingMissed'
  BY DEF IInv, Drawn, NothingMissed
<1>3. Walking' /\ Replied' /\ Stamping'
  BY DEF NoJob, Walking, Replied, Stamping
<1> QED
  BY <1>1, <1>2, <1>3

LEMMA StartInv ==
    ASSUME IInv, StartRound \/ StartFull
    PROVE  Behind' /\ Drawn' /\ Walking' /\ Replied' /\ Stamping' /\ NothingMissed'
<1> USE DEF IInv, serverVars, historyVars
<1>1. UNCHANGED <<srv, visible, watermark, open, cursor, mirror, horizon, late, regained>>
  BY DEF StartRound, StartFull
<1>2. 1 \in Entity /\ cursor[1] \in Position /\ cursor[1].seq <= horizon
  BY NoJobType DEF TypeOK, Behind
<1>3. /\ job'.mode \in {"round", "full"} /\ job'.phase = "ask" /\ job'.ent = 1
      /\ job'.at \in {Zero, cursor[1]} /\ job'.next = Zero /\ job'.mark = 0
      /\ job'.mode = "full" => job'.at = Zero
  BY DEF StartRound, StartFull, WalkFrom, NoJob
<1>4. Behind'
  BY <1>1, <1>2, <1>3 DEF TypeOK, Behind, Zero, Position
<1>5. Drawn' /\ NothingMissed'
  BY <1>1 DEF Drawn, NothingMissed
<1>6. Walking' /\ Replied'
  BY <1>1, <1>3 DEF Walking, Replied
<1>7. Stamping'
  <2>1. \A r \in Row : srv[r].st = "live" => After(srv[r], r, Zero)
    BY ZeroPassesNothing DEF Stored
  <2>2. \A r \in Row : ~(EntityOf[r] < 1)
    BY SyncPullAssumption
  <2> QED
    BY <1>1, <1>3, <2>1, <2>2 DEF Stamping, Passed
<1> QED
  BY <1>4, <1>5, <1>6, <1>7

LEMMA ReadWatermarkInv ==
    ASSUME IInv, ReadWatermark
    PROVE  Behind' /\ Drawn' /\ Walking' /\ Replied' /\ Stamping' /\ NothingMissed'
<1> USE DEF IInv, serverVars, historyVars
<1>1. UNCHANGED <<srv, visible, watermark, open, cursor, mirror, stamped, horizon, late, regained>>
  BY DEF ReadWatermark
<1>2. /\ job.phase = "ask" /\ job'.phase = "rows" /\ job'.mark = watermark
      /\ job'.mode = job.mode /\ job'.ent = job.ent /\ job'.at = job.at /\ job'.next = job.next
  BY DEF ReadWatermark, TypeOK, Job
<1>3. Behind' /\ Drawn' /\ NothingMissed'
  BY <1>1, <1>2 DEF Behind, Drawn, NothingMissed
<1>4. Walking' /\ Replied'
  BY <1>1, <1>2 DEF Walking, Replied
<1>5. Stamping'
  BY <1>1, <1>2 DEF Stamping, Passed, Known
<1> QED
  BY <1>3, <1>4, <1>5

\* A page leaves no hole: a row the answer's cursor covers is in the page, or
\* the page's start covered it already.
LEMMA PageLeavesNoHole ==
    ASSUME TypeOK, NEW e \in Entity, NEW at \in Position, NEW mark \in Nat,
           NEW page \in SUBSET Changes(e, at), NEW here,
           IsPage(page, Changes(e, at)), EndsAt(here, page, at),
           NEW r \in Row, Known(r), EntityOf[r] = e,
           ~After(srv[r], r, NextCursor(here, page # Changes(e, at), mark)),
           After(srv[r], r, at)
    PROVE  r \in page
<1>1. r \in Changes(e, at)
  BY DEF Changes, Known
<1>2. SUFFICES ASSUME r \notin page PROVE FALSE
  OBVIOUS
<1>3. ~After(srv[r], r, here)
  BY <1>1, <1>2 DEF NextCursor
<1>4. PICK last \in page : here = Here(last)
  BY <1>3 DEF EndsAt
<1>5. last \in Row /\ StreamBefore(last, r)
  BY <1>1, <1>2 DEF IsPage, Changes
<1>6. last \in Nat \ {0} /\ r \in Nat /\ srv[last].seq \in Nat /\ srv[r].seq \in Nat
  BY <1>5, SyncPullAssumption DEF TypeOK, RowState
<1> QED
  BY <1>3, <1>4, <1>5, <1>6 DEF Here, StreamBefore, After, NoId

LEMMA ReadRowsInv ==
    ASSUME IInv, ReadRows
    PROVE  Behind' /\ Drawn' /\ Walking' /\ Replied' /\ Stamping' /\ NothingMissed'
<1> USE DEF IInv, serverVars, historyVars
<1> DEFINE found == Changes(job.ent, job.at)
           Answer(page, here) ==
             [job EXCEPT !.phase = "reply", !.mark = 0,
                         !.snap = [r \in Row |-> IF r \in page THEN srv[r] ELSE NoRow],
                         !.next = NextCursor(here, page # found, job.mark),
                         !.more = page # found]
<1>1. UNCHANGED <<srv, visible, watermark, open, cursor, mirror, stamped, horizon, late, regained>>
  BY DEF ReadRows
<1>2. PICK page \in SUBSET found :
        \E here \in {job.at} \cup {Here(r) : r \in page} :
          IsPage(page, found) /\ EndsAt(here, page, job.at) /\ job' = Answer(page, here)
  BY DEF ReadRows
<1>3. PICK here \in {job.at} \cup {Here(r) : r \in page} :
        IsPage(page, found) /\ EndsAt(here, page, job.at) /\ job' = Answer(page, here)
  BY <1>2
<1>4. job \in Job /\ job.phase = "rows"
  BY DEF ReadRows, TypeOK
<1>5. /\ job'.phase = "reply" /\ job'.mark = 0 /\ job'.ent = job.ent /\ job'.at = job.at
      /\ job'.mode = job.mode /\ job'.next = NextCursor(here, page # found, job.mark)
      /\ job'.snap = [r \in Row |-> IF r \in page THEN srv[r] ELSE NoRow]
  BY <1>3, <1>4 DEF Job
<1>6. job.ent \in Entity /\ job.at \in Position /\ job.mark \in Nat
  BY <1>4 DEF Job
<1>7. Behind'
  <2>1. here.seq <= horizon
    BY <1>3 DEF Behind, Here, Changes
  <2>2. job'.next.seq <= horizon
    BY <2>1, <1>5 DEF NextCursor, Behind
  <2> QED
    BY <1>1, <1>5, <2>2 DEF Behind, TypeOK
<1>8. Drawn' /\ NothingMissed'
  BY <1>1 DEF Drawn, NothingMissed
<1>9. Walking' /\ Stamping'
  BY <1>1, <1>4, <1>5 DEF Walking, Stamping, Passed, Known
<1>10. Replied'
  <2>1. \A r \in Row : Stored(job'.snap[r]) <=> r \in page
    BY <1>5 DEF Changes, Stored, NoRow
  <2>2. ASSUME NEW r \in page PROVE EntityOf[r] = job.ent /\ job'.snap[r] = srv[r]
    BY <1>5 DEF Changes
  <2>3. ASSUME NEW r \in Row, EntityOf[r] = job.ent, Known(r), ~After(srv[r], r, job'.next),
               r \notin page
        PROVE  ~After(srv[r], r, job.at)
    BY <1>3, <1>5, <1>6, <2>3, PageLeavesNoHole
  <2> QED
    BY <1>1, <1>5, <2>1, <2>2, <2>3 DEF Replied, InPage, Passed, Known
<1> QED
  BY <1>7, <1>8, <1>9, <1>10

\* Applying a page keeps the mirror complete, and in a refetch stamps every
\* live row up to the page's cursor.
LEMMA PageApplied ==
    ASSUME IInv, job.phase = "reply", ApplyPage,
           UNCHANGED <<srv, visible, watermark, open, horizon, late, regained>>
    PROVE  /\ \A e \in Entity : cursor'[e].seq <= horizon
           /\ cursor'[job.ent] = job.next
           /\ \A e \in Entity \ {job.ent} : cursor'[e] = cursor[e]
           /\ NothingMissed'
           /\ job.mode = "full" => \A r \in Row :
                 (/\ srv[r].st = "live"
                  /\ \/ EntityOf[r] < job.ent /\ Passed(r, cursor[EntityOf[r]])
                     \/ EntityOf[r] = job.ent /\ Passed(r, job.next)) => r \in stamped'
<1> USE DEF IInv
<1>1. job \in Job /\ job.ent \in Entity /\ job.next.seq <= horizon
  BY DEF TypeOK, Job, Behind
<1>2. cursor' = [cursor EXCEPT ![job.ent] = job.next]
  BY DEF ApplyPage
<1>3. /\ cursor'[job.ent] = job.next
      /\ \A e \in Entity \ {job.ent} : cursor'[e] = cursor[e]
  BY <1>1, <1>2 DEF TypeOK
<1>4. \A e \in Entity : cursor'[e].seq <= horizon
  BY <1>1, <1>3 DEF Behind
<1>5. ASSUME NEW r \in Row, EntityOf[r] = job.ent, Passed(r, job.next), ~InPage(r)
      PROVE  Passed(r, job.at) /\ mirror[r] = Image(srv[r])
  <2>1. Passed(r, job.at)
    BY <1>5 DEF Replied, Passed
  <2>2. job.at = cursor[job.ent]
    BY <2>1, ZeroPassesNothing DEF Walking, Passed, Known
  <2> QED
    BY <1>5, <2>1, <2>2 DEF NothingMissed, Passed, Known
<1>6. ASSUME NEW r \in Row, Passed(r, cursor'[EntityOf[r]])
      PROVE  mirror'[r] = Image(srv[r])
  <2>1. CASE InPage(r)
    <3>1. EntityOf[r] = job.ent
      BY <2>1 DEF Replied
    <3>2. job.snap[r] = srv[r]
      BY <1>3, <1>6, <2>1, <3>1 DEF Replied
    <3> QED
      BY <2>1, <3>2 DEF ApplyPage, InPage, Stored, Image
  <2>2. CASE ~InPage(r) /\ EntityOf[r] = job.ent
    BY <1>3, <1>5, <1>6, <2>2 DEF ApplyPage
  <2>3. CASE ~InPage(r) /\ EntityOf[r] # job.ent
    <3>1. EntityOf[r] \in Entity
      BY SyncPullAssumption DEF Entity
    <3> QED
      BY <1>3, <1>6, <2>3, <3>1 DEF NothingMissed, Passed, Known, ApplyPage
  <2> QED
    BY <2>1, <2>2, <2>3
<1>7. NothingMissed'
  BY <1>6 DEF NothingMissed, Passed, Known, Image
<1>8. ASSUME job.mode = "full", NEW r \in Row, srv[r].st = "live",
             \/ EntityOf[r] < job.ent /\ Passed(r, cursor[EntityOf[r]])
             \/ EntityOf[r] = job.ent /\ Passed(r, job.next)
      PROVE  r \in stamped'
  <2>1. CASE InPage(r)
    <3>1. EntityOf[r] = job.ent
      BY <2>1 DEF Replied
    <3>2. job.snap[r] = srv[r]
      BY <1>1, <1>8, <2>1, <3>1, SyncPullAssumption DEF Replied, Entity
    <3> QED
      BY <1>8, <2>1, <3>2 DEF ApplyPage
  <2>2. CASE ~InPage(r)
    <3>1. r \in stamped
      BY <1>5, <1>8, <2>2 DEF Stamping
    <3> QED
      BY <2>2, <3>1 DEF ApplyPage
  <2> QED
    BY <2>1, <2>2
<1> QED
  BY <1>3, <1>4, <1>7, <1>8

LEMMA ApplyMoreInv ==
    ASSUME IInv, ApplyMore
    PROVE  Behind' /\ Drawn' /\ Walking' /\ Replied' /\ Stamping' /\ NothingMissed'
<1> USE DEF IInv, serverVars, historyVars
<1>1. /\ UNCHANGED <<srv, visible, watermark, open, horizon, late, regained>>
      /\ job.phase = "reply" /\ ApplyPage /\ job' = WalkFrom(job.mode, job.ent, job.next)
  BY DEF ApplyMore
<1>2. /\ job'.mode = job.mode /\ job'.phase = "ask" /\ job'.ent = job.ent
      /\ job'.at = job.next /\ job'.next = Zero /\ job'.mark = 0
  BY <1>1 DEF WalkFrom, NoJob
<1>3. Behind'
  BY <1>1, <1>2, PageApplied DEF Behind, TypeOK, Zero
<1>4. Drawn' /\ NothingMissed'
  BY <1>1, PageApplied DEF Drawn
<1>5. Walking' /\ Replied'
  BY <1>1, <1>2, PageApplied DEF Walking, Replied
<1>6. Stamping'
  <2>1. \A r \in Row : EntityOf[r] < job.ent => cursor'[EntityOf[r]] = cursor[EntityOf[r]]
    <3>1. /\ \A r \in Row : EntityOf[r] \in 1..NumEntity
          /\ job.ent \in 1..NumEntity
      BY SyncPullAssumption DEF Entity, TypeOK, Job
    <3>2. \A e \in 1..NumEntity : e # job.ent => cursor'[e] = cursor[e]
      BY <1>1, PageApplied DEF Entity
    <3>3. \A e, k \in 1..NumEntity : e < k => e # k
      BY SyncPullAssumption
    <3> QED
      BY <3>1, <3>2, <3>3
  <2>2. job.mode # "sweep"
    BY <1>1 DEF Walking
  <2> QED
    BY <1>1, <1>2, <2>1, <2>2, PageApplied DEF Stamping, Passed, Known
<1> QED
  BY <1>3, <1>4, <1>5, <1>6

LEMMA ApplyNextInv ==
    ASSUME IInv, ApplyNext
    PROVE  Behind' /\ Drawn' /\ Walking' /\ Replied' /\ Stamping' /\ NothingMissed'
<1> USE DEF IInv, serverVars, historyVars
<1> DEFINE from == IF job.mode = "full" THEN Zero ELSE cursor[job.ent + 1]
<1>1. /\ UNCHANGED <<srv, visible, watermark, open, horizon, late, regained>>
      /\ job.phase = "reply" /\ ApplyPage /\ job' = WalkFrom(job.mode, job.ent + 1, from)
      /\ job.ent < NumEntity
  BY DEF ApplyNext
<1>2. /\ job'.mode = job.mode /\ job'.phase = "ask" /\ job'.ent = job.ent + 1
      /\ job'.at = from /\ job'.next = Zero /\ job'.mark = 0
  BY <1>1 DEF WalkFrom, NoJob
<1>3. job.ent \in 1..NumEntity /\ job.ent + 1 \in Entity \ {job.ent}
  BY <1>1, SyncPullAssumption DEF TypeOK, Job, Entity
<1>4. cursor'[job.ent + 1] = cursor[job.ent + 1] /\ cursor[job.ent + 1].seq <= horizon
  BY <1>1, <1>3, PageApplied DEF Behind
<1>5. Behind'
  BY <1>1, <1>2, <1>4, PageApplied DEF Behind, TypeOK, Zero
<1>6. Drawn' /\ NothingMissed'
  BY <1>1, PageApplied DEF Drawn
<1>7. Walking' /\ Replied'
  BY <1>1, <1>2, <1>4 DEF Walking, Replied
<1>8. Stamping'
  <2>1. ASSUME job.mode = "full", NEW r \in Row, srv[r].st = "live",
               \/ EntityOf[r] < job.ent + 1 /\ Passed(r, cursor'[EntityOf[r]])
               \/ EntityOf[r] = job.ent + 1 /\ Passed(r, Zero)
        PROVE  r \in stamped'
    <3>1. ~Passed(r, Zero)
      BY <2>1, ZeroPassesNothing DEF Stored, Passed
    <3>2. EntityOf[r] \in 1..NumEntity /\ (EntityOf[r] < job.ent \/ EntityOf[r] = job.ent)
      BY <1>3, <2>1, <3>1, SyncPullAssumption
    <3>3. CASE EntityOf[r] = job.ent
      BY <1>1, <2>1, <3>1, <3>3, PageApplied
    <3>4. CASE EntityOf[r] < job.ent
      <4>1. cursor'[EntityOf[r]] = cursor[EntityOf[r]]
        BY <1>1, <1>3, <3>2, <3>4, PageApplied DEF Entity
      <4> QED
        BY <1>1, <1>3, <2>1, <3>1, <3>2, <3>4, <4>1, PageApplied
    <3> QED
      BY <3>2, <3>3, <3>4
  <2>2. job.mode # "sweep"
    BY <1>1 DEF Walking
  <2> QED
    BY <1>1, <1>2, <2>1, <2>2 DEF Stamping, Passed, Known
<1> QED
  BY <1>5, <1>6, <1>7, <1>8

LEMMA ApplyLastInv ==
    ASSUME IInv, ApplyLast
    PROVE  Behind' /\ Drawn' /\ Walking' /\ Replied' /\ Stamping' /\ NothingMissed'
<1> USE DEF IInv, serverVars, historyVars
<1>1. /\ UNCHANGED <<srv, visible, watermark, open, horizon, late, regained>>
      /\ job.phase = "reply" /\ ApplyPage /\ job.ent = NumEntity
  BY DEF ApplyLast
<1>2. /\ job'.phase = "off" /\ job'.at = Zero /\ job'.next = Zero /\ job'.mark = 0
      /\ job'.mode = IF job.mode = "full" THEN "sweep" ELSE "idle"
  BY DEF ApplyLast, NoJob
<1>3. Behind'
  BY <1>1, <1>2, PageApplied DEF Behind, TypeOK, Zero
<1>4. Drawn' /\ NothingMissed'
  BY <1>1, PageApplied DEF Drawn
<1>5. Walking' /\ Replied'
  BY <1>2 DEF Walking, Replied
<1>6. Stamping'
  <2>1. ASSUME job.mode = "full", NEW r \in Row, srv[r].st = "live",
               Passed(r, cursor'[EntityOf[r]])
        PROVE  r \in stamped'
    <3>1. EntityOf[r] \in Entity /\ (EntityOf[r] < job.ent \/ EntityOf[r] = job.ent)
      BY <1>1, SyncPullAssumption DEF Entity
    <3>2. CASE EntityOf[r] = job.ent
      BY <1>1, <2>1, <3>2, PageApplied
    <3>3. CASE EntityOf[r] < job.ent
      <4>1. cursor'[EntityOf[r]] = cursor[EntityOf[r]]
        BY <1>1, <3>1, <3>3, PageApplied, SyncPullAssumption DEF Entity
      <4> QED
        BY <1>1, <2>1, <3>3, <4>1, PageApplied
    <3> QED
      BY <3>1, <3>2, <3>3
  <2> QED
    BY <1>1, <1>2, <2>1 DEF Stamping, Passed, Known
<1> QED
  BY <1>3, <1>4, <1>5, <1>6

LEMMA SweepInv ==
    ASSUME IInv, Sweep
    PROVE  Behind' /\ Drawn' /\ Walking' /\ Replied' /\ Stamping' /\ NothingMissed'
<1> USE DEF IInv, serverVars, historyVars
<1>1. UNCHANGED <<srv, visible, watermark, open, cursor, stamped, horizon, late, regained>>
  BY DEF Sweep
<1>2. /\ job.mode = "sweep" /\ job'.mode = "sweep" /\ job'.phase \in {"off", "done"}
      /\ job'.mark = job.mark /\ job'.at = job.at /\ job'.next = job.next
  BY DEF Sweep, TypeOK, Job
<1>3. Behind' /\ Drawn'
  BY <1>1, <1>2 DEF Behind, Drawn
<1>4. Walking' /\ Replied' /\ Stamping'
  BY <1>1, <1>2 DEF Walking, Replied, Stamping, Passed, Known
<1>5. ASSUME NEW r \in Row, Passed(r, cursor[EntityOf[r]])
      PROVE  mirror'[r] = Image(srv[r])
  <2>1. mirror[r] = Image(srv[r])
    BY <1>5 DEF NothingMissed, Passed, Known
  <2>2. srv[r].st = "live" => r \in stamped
    BY <1>2, <1>5 DEF Stamping
  <2> QED
    BY <2>1, <2>2 DEF Sweep, Image
<1>6. NothingMissed'
  BY <1>1, <1>5 DEF NothingMissed, Passed, Known, Image
<1> QED
  BY <1>3, <1>4, <1>6

\* The answer's row arrives as it stands, or the next page replaces it.
LEMMA AnswerInv ==
    ASSUME IInv, NEW r \in Row, AnswerCommand(r) \/ UpsertResponseRow \/ LoseAnswer
    PROVE  Behind' /\ Drawn' /\ Walking' /\ Replied' /\ Stamping' /\ NothingMissed'
<1> USE DEF IInv, serverVars, historyVars
<1>1. /\ UNCHANGED <<srv, visible, watermark, open, cursor, job, horizon, late, regained>>
      /\ job.mode = "idle"
  BY DEF AnswerCommand, UpsertResponseRow, LoseAnswer, Answered
<1>2. Behind' /\ Drawn' /\ Walking' /\ Replied'
  BY <1>1 DEF Behind, Drawn, Walking, Replied, InPage, Passed, Known
<1>3. Stamping'
  BY <1>1 DEF Stamping
<1>4. CASE UpsertResponseRow
  <2>1. ASSUME NEW q \in Row, Passed(q, cursor[EntityOf[q]])
        PROVE  mirror'[q] = Image(srv[q])
    <3>1. mirror' = [mirror EXCEPT ![answer.row] = answer.seq] /\ mirror \in [Row -> Nat]
      BY <1>4 DEF UpsertResponseRow, TypeOK
    <3>2. CASE q = answer.row
      BY <1>4, <2>1, <3>1, <3>2 DEF UpsertResponseRow, Answered
    <3>3. CASE q # answer.row
      BY <2>1, <3>1, <3>3 DEF NothingMissed, Passed, Known
    <3> QED
      BY <3>2, <3>3
  <2> QED
    BY <1>1, <1>2, <1>3, <2>1 DEF NothingMissed, Passed, Known
<1>5. CASE mirror' = mirror
  BY <1>1, <1>2, <1>3, <1>5 DEF NothingMissed
<1> QED
  BY <1>4, <1>5 DEF AnswerCommand, LoseAnswer

LEMMA AnsweredStep == IInv /\ [Next]_vars => Answered'
<1> SUFFICES ASSUME IInv, [Next]_vars PROVE Answered'
  OBVIOUS
<1> USE DEF IInv, serverVars, historyVars
<1>1. CASE Server
  <2>1. answer' = answer /\ job' = job /\ cursor' = cursor
    BY <1>1 DEF Server, BeginWrite, BeginReap, Commit, Rollback, ChangeVisibility, deviceVars
  <2>2. SUFFICES ASSUME answer # NoAnswer, Passed(answer.row, cursor[EntityOf[answer.row]])'
                 PROVE  answer.seq = Image(srv'[answer.row])
    BY <2>1 DEF Answered
  <2>3. /\ answer.row \in Row /\ cursor[EntityOf[answer.row]] \in Position
        /\ cursor[EntityOf[answer.row]].seq <= horizon
    BY <2>2, SyncPullAssumption DEF Answered, TypeOK, Behind, Entity
  <2>4. srv'[answer.row] = srv[answer.row] /\ Passed(answer.row, cursor[EntityOf[answer.row]])
    BY <1>1, <2>1, <2>2, <2>3, ServerKeepsPassed DEF Passed, Known
  <2> QED
    BY <2>2, <2>4 DEF Answered
<1>2. ASSUME NEW r \in Row, AnswerCommand(r)
      PROVE  Answered'
  <2>1. /\ job' = job /\ srv' = srv /\ job.mode = "idle"
        /\ answer' = [row |-> r, seq |-> srv[r].seq] /\ srv[r].st = "live"
    BY <1>2 DEF AnswerCommand
  <2> QED
    BY <2>1 DEF Answered, Image
<1>3. CASE UpsertResponseRow \/ LoseAnswer
  BY <1>3 DEF UpsertResponseRow, LoseAnswer, Answered
<1>4. CASE StartRound \/ StartFull
  BY <1>4 DEF StartRound, StartFull, Answered
<1>5. CASE PullStep \/ Abort
  <2>1. job.mode # "idle" /\ answer' = answer
    BY <1>5 DEF PullStep, ReadWatermark, Gone410, ReadRows, ApplyMore, ApplyNext, ApplyLast,
                Sweep, FinishFull, Abort, Walking
  <2> QED
    BY <2>1 DEF Answered
<1>6. CASE WeekPasses \/ UNCHANGED vars
  <2>1. UNCHANGED <<answer, job, srv, visible, cursor, late, regained>>
    BY <1>6 DEF WeekPasses, vars, deviceVars
  <2> QED
    BY <2>1 DEF Answered, Passed, Known
<1> QED
  BY <1>1, <1>2, <1>3, <1>4, <1>5, <1>6 DEF Next, Device

LEMMA IInvInit == Init => IInv
<1> SUFFICES ASSUME Init PROVE IInv
  OBVIOUS
<1>1. Behind /\ Drawn
  BY NoJobType DEF Init, Behind, Drawn, NoJob, NoRow, Stored, Zero
<1>2. Walking /\ Replied /\ Stamping
  BY DEF Init, NoJob, Walking, Replied, Stamping
<1>3. NothingMissed /\ Answered
  BY DEF Init, NothingMissed, NoRow, Stored, Answered
<1> QED
  BY <1>1, <1>2, <1>3, TypeInit DEF IInv

LEMMA IInvStep == IInv /\ [Next]_vars => IInv'
<1> SUFFICES ASSUME IInv, [Next]_vars PROVE IInv'
  OBVIOUS
<1>1. TypeOK' /\ Answered'
  BY TypeStep, AnsweredStep DEF IInv
<1>2. CASE Server
  BY <1>1, <1>2, ServerInv DEF IInv
<1>3. CASE StartRound \/ StartFull
  BY <1>1, <1>3, StartInv DEF IInv
<1>4. CASE ReadWatermark
  BY <1>1, <1>4, ReadWatermarkInv DEF IInv
<1>5. CASE ReadRows
  BY <1>1, <1>5, ReadRowsInv DEF IInv
<1>6. CASE ApplyMore
  BY <1>1, <1>6, ApplyMoreInv DEF IInv
<1>7. CASE ApplyNext
  BY <1>1, <1>7, ApplyNextInv DEF IInv
<1>8. CASE ApplyLast
  BY <1>1, <1>8, ApplyLastInv DEF IInv
<1>9. CASE Sweep
  BY <1>1, <1>9, SweepInv DEF IInv
<1>10. CASE Gone410 \/ FinishFull \/ Abort
  BY <1>1, <1>10, JobEnds DEF IInv, Gone410, FinishFull, Abort, serverVars, historyVars
<1>11. CASE WeekPasses \/ UNCHANGED vars
  <2>1. UNCHANGED <<srv, visible, watermark, open, cursor, mirror, stamped, job,
                    horizon, late, regained>>
    BY <1>11 DEF WeekPasses, vars, serverVars, deviceVars, historyVars
  <2> QED
    BY <1>1, <2>1 DEF IInv, Behind, Drawn, Walking, Replied, Stamping, NothingMissed,
                      Passed, Known, InPage
<1>12. CASE (\E r \in Row : AnswerCommand(r)) \/ UpsertResponseRow \/ LoseAnswer
  <2>1. CASE \E r \in Row : AnswerCommand(r)
    BY <1>1, <2>1, AnswerInv DEF IInv
  <2>2. CASE UpsertResponseRow \/ LoseAnswer
    <3>1. answer.row \in Row
      BY <2>2 DEF IInv, Answered, UpsertResponseRow, LoseAnswer
    <3> QED
      BY <1>1, <2>2, <3>1, AnswerInv DEF IInv
  <2> QED
    BY <1>12, <2>1, <2>2
<1> QED
  BY <1>1, <1>2, <1>3, <1>4, <1>5, <1>6, <1>7, <1>8, <1>9, <1>10, <1>11, <1>12
  DEF Next, Device, PullStep, IInv

LEMMA IInvAlways == Spec => []IInv
BY IInvInit, IInvStep, PTL DEF Spec

\* Nothing is missed, for every table and page size: whatever server
\* transactions overlap the walk and wherever the app is killed, a row in view
\* that the cursor has passed is held as it stands, or was written below a
\* value already committed, or came into view without a write.  This is what
\* after_cursor, the atomic page application and the epoch stamps are for.
THEOREM NothingIsMissed == Spec => []NothingMissed
<1>1. IInv => NothingMissed
  BY DEF IInv
<1> QED
  BY <1>1, IInvAlways, PTL
-----------------------------------------------------------------------------
(* The reaper.  A row it removed leaves no tombstone; unless something       *)
(* overtook it, its watermark lies beyond every position a device can hold,  *)
(* so that a stamped row that is gone has a stale cursor.  The invariant     *)
(* follows the position from the cursor through the walk to the answer on    *)
(* its way.                                                                  *)

Walks == job.phase \in {"ask", "rows", "reply"}

\* A walk resumes at the cursor, or has stamped nothing of its stream yet.
Resuming ==
    Walks =>
        /\ job.mode = "round" => job.at = cursor[job.ent]
        /\ job.mode = "full" =>
              /\ \A r \in stamped : EntityOf[r] <= job.ent
              /\ \/ job.at = cursor[job.ent]
                 \/ job.at = Zero /\ \A r \in stamped : EntityOf[r] # job.ent

\* Cursors and answers do not fall back behind what they have delivered.
Onward ==
    /\ \A r \in stamped : cursor[EntityOf[r]].seq > 0
    /\ job.phase = "reply" =>
          /\ job.next.seq >= job.at.seq
          /\ \A r \in Row : InPage(r) => job.next.seq > 0

\* A removed row is not stamped behind a cursor, or an answer, that still
\* passes, nor while a page of its stream is read.
Detected ==
    \A r \in Row \ raced : srv[r].st = "gone" =>
        /\ r \in stamped => Stale(cursor[EntityOf[r]])
        /\ job.phase = "rows" /\ EntityOf[r] = job.ent => r \notin stamped
        /\ job.phase = "reply" /\ EntityOf[r] = job.ent /\ (InPage(r) \/ r \in stamped)
              => Stale(job.next)

ReapInv == Resuming /\ Onward /\ Detected

LEMMA SyncTypes ==
    ASSUME TypeOK
    PROVE  /\ job \in Job /\ job.ent \in Entity /\ job.at \in Position /\ job.next \in Position
           /\ job.at.seq \in Nat /\ job.next.seq \in Nat /\ job.mark \in Nat
           /\ \A e \in Entity : cursor[e] \in Position /\ cursor[e].seq \in Nat
           /\ \A r \in Row : EntityOf[r] \in Entity /\ srv[r] \in RowState /\ srv[r].seq \in Nat
           /\ watermark \in Nat /\ horizon \in Nat /\ nextSeq \in Nat
           /\ stamped \subseteq Row /\ Entity = 1..NumEntity /\ NumEntity \in Nat
BY SyncPullAssumption DEF TypeOK, Job, Position, RowState, Entity

\* An answer that carries or continues something stamped has moved off zero.
LEMMA NextBeyond ==
    ASSUME IInv, Resuming, Onward, job.phase = "reply", NEW r \in Row,
           EntityOf[r] = job.ent, InPage(r) \/ r \in stamped
    PROVE  job.next.seq > 0
<1>1. CASE InPage(r)
  BY <1>1 DEF Onward
<1>2. CASE r \in stamped
  <2>1. job.mode \in {"round", "full"} /\ Walks
    BY DEF IInv, Walking, Walks
  <2>2. job.at = cursor[job.ent]
    BY <1>2, <2>1 DEF Resuming
  <2>3. job.at.seq > 0
    BY <1>2, <2>2 DEF Onward
  <2>4. job.next.seq >= job.at.seq
    BY DEF Onward
  <2> QED
    BY <2>3, <2>4, SyncTypes DEF IInv
<1> QED
  BY <1>1, <1>2

\* Only the reaper removes rows.
LEMMA RemovedByReaper ==
    ASSUME TypeOK, NEW t \in Tx, NEW r \in Row, srv[r].st # "gone",
           Written(t, r).st = "gone"
    PROVE  t.kind = "reap" /\ r \in t.rows
<1>1. srv[r] \in RowState
  BY DEF TypeOK
<1>2. r \in t.rows
  BY <1>1 DEF Written, RowState
<1>3. NewState(t.kind, srv[r].st) = "gone"
  BY <1>2 DEF Written
<1>4. t.kind \in WriteKind \cup {"reap"}
  BY DEF Tx
<1> QED
  BY <1>2, <1>3, <1>4 DEF NewState, WriteKind

LEMMA CommitDetected ==
    ASSUME IInv, ReapInv, NEW t \in open, Commit(t)
    PROVE  ReapInv'
<1>1. /\ TypeOK /\ Behind /\ t \in Tx /\ t.mark \in Nat
      /\ UNCHANGED <<cursor, stamped, job>>
      /\ watermark' = MaxOf(watermark, t.mark) /\ raced' = raced \cup Raced(t)
      /\ \A r \in Row : srv'[r] = Written(t, r)
  BY DEF Commit, IInv, TypeOK, Tx, deviceVars, NewWatermark
<1>2. Resuming' /\ Onward'
  BY <1>1 DEF ReapInv, Resuming, Walks, Onward, InPage
<1>3. watermark' \in Nat /\ watermark' >= watermark /\ watermark' >= t.mark
  BY <1>1, SyncTypes DEF MaxOf
<1>4. ASSUME NEW c \in Position, Stale(c) PROVE Stale(c)'
  BY <1>1, <1>3, <1>4, SyncTypes DEF Stale, Position
<1>5. ASSUME NEW r \in Row \ raced', srv'[r].st = "gone"
      PROVE  /\ r \in stamped => Stale(cursor[EntityOf[r]])'
             /\ job.phase = "rows" /\ EntityOf[r] = job.ent => r \notin stamped
             /\ job.phase = "reply" /\ EntityOf[r] = job.ent /\ (InPage(r) \/ r \in stamped)
                   => Stale(job.next)'
  <2>0. /\ r \notin raced /\ r \notin Raced(t) /\ EntityOf[r] \in Entity
        /\ cursor[EntityOf[r]] \in Position /\ job.next \in Position
        /\ cursor' = cursor /\ job' = job
    BY <1>1, <1>5, SyncTypes
  <2>1. CASE srv[r].st = "gone"
    <3>1. /\ r \in stamped => Stale(cursor[EntityOf[r]])
          /\ job.phase = "rows" /\ EntityOf[r] = job.ent => r \notin stamped
          /\ job.phase = "reply" /\ EntityOf[r] = job.ent /\ (InPage(r) \/ r \in stamped)
                => Stale(job.next)
      BY <2>0, <2>1 DEF ReapInv, Detected
    <3> QED
      BY <1>4, <2>0, <3>1
  <2>2. CASE srv[r].st # "gone"
    <3>1. t.kind = "reap" /\ r \in t.rows
      BY <1>1, <1>5, <2>2, RemovedByReaper
    <3>2. ~(t.mark <= horizon) /\ ~(job.phase = "rows" /\ job.ent = EntityOf[r])
      BY <2>0, <3>1 DEF Raced
    <3>3. ASSUME NEW c \in Position, 0 < c.seq, c.seq <= horizon PROVE Stale(c)'
      <4>1. c.seq \in Nat /\ horizon \in Nat
        BY <1>1, SyncTypes DEF Position
      <4>2. c.seq < watermark'
        BY <1>1, <1>3, <3>2, <3>3, <4>1
      <4> QED
        BY <3>3, <4>2 DEF Stale
    <3>4. r \in stamped => Stale(cursor[EntityOf[r]])'
      <4>1. r \in stamped => cursor[EntityOf[r]].seq > 0
        BY DEF ReapInv, Onward
      <4>2. cursor[EntityOf[r]].seq <= horizon /\ cursor[EntityOf[r]].seq \in Nat
        BY <1>1, <2>0, SyncTypes DEF Behind
      <4> QED
        BY <2>0, <3>3, <4>1, <4>2
    <3>5. job.phase = "reply" /\ EntityOf[r] = job.ent /\ (InPage(r) \/ r \in stamped)
             => Stale(job.next)'
      <4>1. SUFFICES ASSUME job.phase = "reply", EntityOf[r] = job.ent, InPage(r) \/ r \in stamped
                     PROVE  Stale(job.next)'
        OBVIOUS
      <4>2. job.next.seq > 0
        BY <4>1, NextBeyond DEF ReapInv
      <4>3. job.next.seq <= horizon /\ job.next.seq \in Nat
        BY <1>1, SyncTypes DEF Behind
      <4> QED
        BY <2>0, <3>3, <4>2, <4>3
    <3> QED
      BY <3>2, <3>4, <3>5
  <2> QED
    BY <2>1, <2>2
<1>6. Detected'
  BY <1>1, <1>5 DEF Detected, InPage
<1> QED
  BY <1>2, <1>6 DEF ReapInv

LEMMA ServerDetected ==
    ASSUME IInv, ReapInv, Server
    PROVE  ReapInv'
<1>1. CASE UNCHANGED <<srv, watermark, raced, cursor, stamped, job>>
  BY <1>1 DEF ReapInv, Resuming, Walks, Onward, Detected, Stale, InPage
<1>2. ASSUME NEW r \in Row, ChangeVisibility(r)
      PROVE  UNCHANGED <<srv, watermark, raced, cursor, stamped, job>>
  BY <1>2 DEF ChangeVisibility, deviceVars
<1> QED
  BY <1>1, <1>2, CommitDetected
  DEF Server, BeginWrite, BeginReap, Rollback, deviceVars, historyVars
-----------------------------------------------------------------------------
(* The device's steps leave the rows, the watermark and what raced.          *)
ServerRests == UNCHANGED <<srv, watermark, raced>>

LEMMA WalkEnds ==
    ASSUME ReapInv, ServerRests, cursor' = cursor, stamped' \subseteq stamped, ~Walks'
    PROVE  ReapInv'
<1>1. job'.phase # "rows" /\ job'.phase # "reply"
  BY DEF Walks
<1> QED
  BY <1>1 DEF ReapInv, Resuming, Onward, Detected, Stale, ServerRests

LEMMA StartDetected ==
    ASSUME IInv, ReapInv, StartRound \/ StartFull
    PROVE  ReapInv'
<1>1. ServerRests /\ cursor' = cursor /\ job'.phase = "ask" /\ job'.ent = 1
  BY DEF StartRound, StartFull, WalkFrom, NoJob, ServerRests, serverVars, historyVars
<1>2. \/ job'.mode = "round" /\ job'.at = cursor[1] /\ stamped' = stamped
      \/ job'.mode = "full" /\ job'.at = Zero /\ stamped' = {}
  BY DEF StartRound, StartFull, WalkFrom, NoJob
<1> QED
  BY <1>1, <1>2 DEF ReapInv, Resuming, Onward, Detected, Stale, ServerRests

LEMMA ReadWatermarkDetected ==
    ASSUME IInv, ReapInv, ReadWatermark
    PROVE  ReapInv'
<1>1. ServerRests /\ cursor' = cursor /\ stamped' = stamped /\ ~Stale(job.at)
  BY DEF ReadWatermark, ServerRests, serverVars, historyVars
<1>2. /\ job.phase = "ask" /\ job'.phase = "rows"
      /\ job'.mode = job.mode /\ job'.ent = job.ent /\ job'.at = job.at
  BY DEF ReadWatermark, IInv, TypeOK, Job
<1>3. ASSUME NEW r \in Row \ raced, srv[r].st = "gone", EntityOf[r] = job.ent
      PROVE  r \notin stamped
  <2>1. SUFFICES ASSUME r \in stamped PROVE FALSE
    OBVIOUS
  <2>2. Stale(cursor[job.ent])
    BY <1>3, <2>1 DEF ReapInv, Detected
  <2>3. job.mode \in {"round", "full"} /\ Walks
    BY <1>2 DEF IInv, Walking, Walks
  <2> QED
    BY <1>1, <1>3, <2>1, <2>2, <2>3 DEF ReapInv, Resuming
<1>4. Detected'
  BY <1>1, <1>2, <1>3 DEF ReapInv, Detected, Stale, ServerRests
<1>5. Resuming' /\ Onward'
  BY <1>1, <1>2 DEF ReapInv, Resuming, Walks, Onward
<1> QED
  BY <1>4, <1>5 DEF ReapInv

\* An answer ends no earlier than it began, and past zero if it carries a row.
LEMMA PageEnds ==
    ASSUME TypeOK, Drawn, NEW e \in Entity, NEW at \in Position, NEW mark \in Nat,
           NEW page \in SUBSET Changes(e, at), NEW more \in BOOLEAN,
           NEW here \in {at} \cup {Here(r) : r \in page}, EndsAt(here, page, at)
    PROVE  /\ NextCursor(here, more, mark).seq >= at.seq
           /\ page # {} => NextCursor(here, more, mark).seq > 0
<1>1. at.seq \in Nat
  BY DEF Position
<1>2. here.seq \in Nat /\ here.seq >= at.seq /\ (page # {} => here.seq > 0)
  <2>1. CASE page = {}
    BY <1>1, <2>1 DEF EndsAt
  <2>2. CASE page # {}
    <3>1. PICK last \in page : here = Here(last)
      BY <2>2 DEF EndsAt
    <3>2. last \in Row /\ Stored(srv[last]) /\ After(srv[last], last, at)
      BY <3>1 DEF Changes
    <3>3. srv[last].seq \in Nat /\ srv[last].seq > 0
      BY <3>2 DEF TypeOK, Drawn, RowState
    <3>4. srv[last].seq >= at.seq
      BY <1>1, <3>2, <3>3 DEF After
    <3> QED
      BY <3>1, <3>3, <3>4 DEF Here
  <2> QED
    BY <2>1, <2>2
<1>3. NextCursor(here, more, mark).seq = here.seq
      \/ (here.seq < mark /\ NextCursor(here, more, mark).seq = mark)
  BY DEF NextCursor
<1> QED
  BY <1>1, <1>2, <1>3

LEMMA ReadRowsDetected ==
    ASSUME IInv, ReapInv, ReadRows
    PROVE  ReapInv'
<1> DEFINE found == Changes(job.ent, job.at)
           Answer(page, here) ==
             [job EXCEPT !.phase = "reply", !.mark = 0,
                         !.snap = [r \in Row |-> IF r \in page THEN srv[r] ELSE NoRow],
                         !.next = NextCursor(here, page # found, job.mark),
                         !.more = page # found]
<1>1. ServerRests /\ cursor' = cursor /\ stamped' = stamped
  BY DEF ReadRows, ServerRests, serverVars, historyVars
<1>2. PICK page \in SUBSET found :
        \E here \in {job.at} \cup {Here(r) : r \in page} :
          EndsAt(here, page, job.at) /\ job' = Answer(page, here)
  BY DEF ReadRows
<1>3. PICK here \in {job.at} \cup {Here(r) : r \in page} :
        EndsAt(here, page, job.at) /\ job' = Answer(page, here)
  BY <1>2
<1>4. job \in Job /\ job.phase = "rows" /\ job.ent \in Entity /\ job.at \in Position /\ job.mark \in Nat
  BY DEF ReadRows, IInv, TypeOK, Job
<1>5. /\ job'.phase = "reply" /\ job'.ent = job.ent /\ job'.at = job.at
      /\ job'.mode = job.mode /\ job'.next = NextCursor(here, page # found, job.mark)
      /\ job'.snap = [r \in Row |-> IF r \in page THEN srv[r] ELSE NoRow]
  BY <1>3, <1>4 DEF Job
<1>6. \A r \in Row : Stored(job'.snap[r]) <=> r \in page
  BY <1>5 DEF Changes, Stored, NoRow
<1>7. Resuming'
  BY <1>1, <1>4, <1>5 DEF ReapInv, Resuming, Walks
<1>8. Onward'
  <2>1. /\ job'.next.seq >= job.at.seq
        /\ page # {} => job'.next.seq > 0
    <3>1. (page # found) \in BOOLEAN /\ TypeOK /\ Drawn
      BY DEF IInv
    <3>2. \A more \in BOOLEAN :
            /\ NextCursor(here, more, job.mark).seq >= job.at.seq
            /\ page # {} => NextCursor(here, more, job.mark).seq > 0
      BY <1>3, <1>4, <3>1, PageEnds
    <3> QED
      BY <1>5, <3>1, <3>2
  <2> QED
    BY <1>1, <1>5, <1>6, <2>1 DEF ReapInv, Onward, InPage
<1>9. ASSUME NEW r \in Row \ raced, srv[r].st = "gone"
      PROVE  r \notin page /\ ~(EntityOf[r] = job.ent /\ r \in stamped)
  BY <1>4, <1>9 DEF Changes, Stored, ReapInv, Detected
<1>10. Detected'
  BY <1>1, <1>5, <1>6, <1>9 DEF ReapInv, Detected, Stale, InPage, ServerRests
<1> QED
  BY <1>7, <1>8, <1>10 DEF ReapInv

\* Applying a page stamps only rows of its stream, and its cursor is the
\* answer's: what is gone and stamped is behind it and detected.
LEMMA PageDetected ==
    ASSUME IInv, ReapInv, job.phase = "reply", ApplyPage, ServerRests
    PROVE  /\ \A r \in stamped' : r \in stamped \/ EntityOf[r] = job.ent
           /\ \A r \in stamped' : cursor'[EntityOf[r]].seq > 0
           /\ \A r \in Row \ raced : srv'[r].st = "gone" /\ r \in stamped' =>
                 0 < cursor'[EntityOf[r]].seq /\ cursor'[EntityOf[r]].seq < watermark'
<1>1. /\ cursor' = [cursor EXCEPT ![job.ent] = job.next] /\ srv' = srv /\ watermark' = watermark
      /\ cursor \in [Entity -> Position] /\ job.ent \in Entity
  BY SyncTypes DEF ApplyPage, ServerRests, IInv, TypeOK
<1>2. ASSUME NEW r \in stamped'
      PROVE  /\ r \in Row /\ EntityOf[r] \in Entity
             /\ r \in stamped \/ InPage(r)
             /\ InPage(r) => EntityOf[r] = job.ent
  BY SyncTypes DEF ApplyPage, IInv, Replied
<1>3. ASSUME NEW r \in stamped', EntityOf[r] = job.ent
      PROVE  /\ cursor'[EntityOf[r]].seq > 0
             /\ srv[r].st = "gone" /\ r \notin raced => Stale(job.next)
  BY <1>1, <1>2, <1>3, NextBeyond DEF ReapInv, Detected
<1>4. ASSUME NEW r \in stamped', EntityOf[r] # job.ent
      PROVE  r \in stamped /\ cursor'[EntityOf[r]] = cursor[EntityOf[r]]
  BY <1>1, <1>2, <1>4
<1>5. ASSUME NEW r \in stamped' PROVE cursor'[EntityOf[r]].seq > 0
  BY <1>3, <1>4 DEF ReapInv, Onward
<1>6. ASSUME NEW r \in stamped', srv[r].st = "gone", r \notin raced PROVE Stale(cursor'[EntityOf[r]])
  <2>1. CASE EntityOf[r] = job.ent
    BY <1>1, <1>3, <1>6, <2>1
  <2>2. CASE EntityOf[r] # job.ent
    BY <1>2, <1>4, <1>6, <2>2 DEF ReapInv, Detected
  <2> QED
    BY <2>1, <2>2
<1>7. \A r \in stamped' : r \in stamped \/ EntityOf[r] = job.ent
  BY <1>2
<1>8. \A r \in Row \ raced : srv'[r].st = "gone" /\ r \in stamped' =>
        0 < cursor'[EntityOf[r]].seq /\ cursor'[EntityOf[r]].seq < watermark'
  BY <1>1, <1>6 DEF Stale
<1> QED
  BY <1>5, <1>7, <1>8

\* The parts of the invariant a walk that goes on has to restore.
LEMMA ApplyDetected ==
    ASSUME IInv, ReapInv, ApplyMore \/ ApplyNext \/ ApplyLast
    PROVE  ReapInv'
<1>1. ServerRests /\ job.phase = "reply" /\ ApplyPage
  BY DEF ApplyMore, ApplyNext, ApplyLast, ServerRests, serverVars, historyVars
<1>2. job'.phase \in {"ask", "off"}
  <2>1. CASE ApplyMore \/ ApplyNext
    BY <2>1 DEF ApplyMore, ApplyNext, WalkFrom, NoJob
  <2>2. CASE ApplyLast
    BY <2>2 DEF ApplyLast, NoJob
  <2> QED
    BY <2>1, <2>2
<1>4. Onward' /\ Detected'
  BY <1>1, <1>2, PageDetected DEF Onward, Detected, Stale, ServerRests
<1>5. /\ cursor' = [cursor EXCEPT ![job.ent] = job.next]
      /\ cursor \in [Entity -> Position] /\ job.ent \in 1..NumEntity /\ Entity = 1..NumEntity
      /\ job.mode \in {"round", "full"} /\ Walks
  BY <1>1, SyncTypes DEF ApplyPage, IInv, TypeOK, Walking, Walks
<1>6. ASSUME job.mode = "full", NEW r \in stamped' PROVE EntityOf[r] <= job.ent /\ EntityOf[r] \in Nat
  <2>1. r \in stamped \/ EntityOf[r] = job.ent
    BY <1>1, PageDetected
  <2>2. r \in Row
    BY <1>1, SyncTypes DEF ApplyPage, IInv
  <2> QED
    BY <1>5, <1>6, <2>1, <2>2, SyncPullAssumption DEF ReapInv, Resuming
<1>7. CASE ApplyMore
  <2>1. job'.mode = job.mode /\ job'.ent = job.ent /\ job'.at = job.next
    BY <1>7 DEF ApplyMore, WalkFrom, NoJob
  <2>2. Resuming'
    BY <1>5, <1>6, <2>1 DEF Resuming
  <2> QED
    BY <1>4, <2>2 DEF ReapInv
<1>8. CASE ApplyNext
  <2>1. /\ job'.mode = job.mode /\ job'.ent = job.ent + 1
        /\ job'.at = IF job.mode = "full" THEN Zero ELSE cursor[job.ent + 1]
        /\ job.ent < NumEntity
    BY <1>8 DEF ApplyNext, WalkFrom, NoJob
  <2>2. job.ent + 1 \in Entity /\ job.ent + 1 # job.ent /\ NumEntity \in Nat
    BY <1>5, <2>1, SyncPullAssumption
  <2>3. cursor'[job.ent + 1] = cursor[job.ent + 1]
    BY <1>5, <2>2
  <2>4. ASSUME job.mode = "full", NEW r \in stamped'
        PROVE  EntityOf[r] <= job.ent + 1 /\ EntityOf[r] # job.ent + 1
    BY <1>5, <1>6, <2>4
  <2>5. Resuming'
    BY <1>5, <2>1, <2>3, <2>4 DEF Resuming
  <2> QED
    BY <1>4, <2>5 DEF ReapInv
<1>9. CASE ApplyLast
  <2>1. ~Walks'
    BY <1>9 DEF ApplyLast, NoJob, Walks
  <2>2. Resuming'
    BY <2>1 DEF Resuming
  <2> QED
    BY <1>4, <2>2 DEF ReapInv
<1> QED
  BY <1>7, <1>8, <1>9
-----------------------------------------------------------------------------
LEMMA ReapInvInit == Init => ReapInv
<1> SUFFICES ASSUME Init PROVE ReapInv
  OBVIOUS
<1>1. Resuming
  BY DEF Init, Resuming, Walks, NoJob
<1>2. Onward /\ Detected
  BY DEF Init, Onward, Detected, NoJob, NoRow
<1> QED
  BY <1>1, <1>2 DEF ReapInv

LEMMA ReapInvStep == IInv /\ ReapInv /\ [Next]_vars => ReapInv'
<1> SUFFICES ASSUME IInv, ReapInv, [Next]_vars PROVE ReapInv'
  OBVIOUS
<1>1. CASE Server
  BY <1>1, ServerDetected
<1>2. CASE StartRound \/ StartFull
  BY <1>2, StartDetected
<1>3. CASE ReadWatermark
  BY <1>3, ReadWatermarkDetected
<1>4. CASE ReadRows
  BY <1>4, ReadRowsDetected
<1>5. CASE ApplyMore \/ ApplyNext \/ ApplyLast
  BY <1>5, ApplyDetected
<1>6. CASE Gone410 \/ FinishFull \/ Abort \/ Sweep
  <2>1. ServerRests /\ UNCHANGED <<cursor, stamped>>
    BY <1>6 DEF Gone410, FinishFull, Abort, Sweep, ServerRests, serverVars, historyVars
  <2>2. job'.phase \in {"off", "done"}
    BY <1>6 DEF Gone410, FinishFull, Abort, Sweep, NoJob, IInv, TypeOK, Job
  <2> QED
    BY <2>1, <2>2, WalkEnds DEF Walks
<1>8. CASE (\E r \in Row : AnswerCommand(r)) \/ UpsertResponseRow \/ LoseAnswer
  <2>1. ServerRests /\ cursor' = cursor /\ stamped' \subseteq stamped /\ job' = job
    BY <1>8 DEF AnswerCommand, UpsertResponseRow, LoseAnswer, ServerRests, serverVars, historyVars
  <2>2. job.mode = "idle"
    BY <1>8 DEF AnswerCommand, UpsertResponseRow, LoseAnswer, IInv, Answered
  <2> QED
    BY <2>1, <2>2, WalkEnds DEF Walks, IInv, Walking
<1>7. CASE WeekPasses \/ UNCHANGED vars
  <2>1. UNCHANGED <<srv, watermark, raced, cursor, stamped, job>>
    BY <1>7 DEF WeekPasses, vars, serverVars, deviceVars, historyVars
  <2> QED
    BY <2>1 DEF ReapInv, Resuming, Walks, Onward, Detected, Stale, InPage
<1> QED
  BY <1>1, <1>2, <1>3, <1>4, <1>5, <1>6, <1>7, <1>8 DEF Next, Device, PullStep

\* A row the reaper removed never stays on a device quietly unless something
\* overtook its reaper: whatever writers and pulls overlap it otherwise,
\* whatever rounds and refetches were aborted and however pages and rows fell,
\* the stream that still stamps the row answers the stored cursor with 410.
\* (Overtaken, it need not: the run of the race shows how.)
THEOREM ReapedAreDetected == Spec => []OnlyRacedReapsEscape
<1>1. ReapInv => OnlyRacedReapsEscape
  BY DEF ReapInv, Detected, OnlyRacedReapsEscape
<1>2. IInv /\ ReapInv /\ [Next]_vars => ReapInv'
  BY ReapInvStep
<1> QED
  BY <1>1, <1>2, ReapInvInit, IInvAlways, PTL DEF Spec
=============================================================================
