------------------------ MODULE MessageOutboxProofs ------------------------
(***************************************************************************)
(* Proofs about MessageOutbox, for any messages, members, processes,       *)
(* crashes and retries: the types, that an email recorded as sent was      *)
(* accepted, that a message is SENT only when nothing of it is pending,    *)
(* that nobody is alerted twice of it, and that what is settled never goes *)
(* back on the queue.                                                      *)
(*                                                                         *)
(* Sessions write what they computed from an earlier read.  The invariant  *)
(* says what each of them may still rely on when it commits: an insertion  *)
(* that its message has no row (Inserting), a drain that its batch is      *)
(* queued rows with attempts left and that "ok" was accepted (Going), and  *)
(* that a message it will finish has no other pending row (Finishing).     *)
(***************************************************************************)
EXTENDS MessageOutbox, TLAPS

Statuses == {"draft", "scheduled", "sending", "sent"}
Row == [state : RowState, attempts : 0..MaxAttempts, waiting : BOOLEAN]
AttemptsLeft(rw) ==
    \A e \in Entry : rw[e].state \in {"pending", "held"} => rw[e].attempts < MaxAttempts

\* A session that is sending nothing yet; what a request or a pass works on.
Clean(r) == r.stage \in {"promote", "toDrain", "toDigest"} => r.res = [e \in Entry |-> "none"]
Named(r) == r.stage = "request" => \E m \in Message : r.msg = {m}

\* New rows of a message that has none.
Inserting(r, rw) ==
    r.stage = "inserted" =>
        /\ \A e \in r.batch : e[1] \in r.msg /\ r.res[e] \in {"pending", "held", "skipped"}
        /\ \A e \in Entry : e[1] \in r.msg => rw[e].state = "none"
        /\ r.final \subseteq r.msg
        /\ \A e \in r.batch : e[1] \in r.final => r.res[e] # "pending"

\* A batch that was read from the queue.
Going(r, rw, accepted) ==
    r.stage \in {"drain", "drained", "digest", "digested"} =>
        \A e \in r.batch :
            /\ rw[e].state # "none" /\ r.read[e] < MaxAttempts
            /\ r.res[e] \in {"none", "ok", "error", "gone", "skip"}
            /\ r.res[e] = "none" => r.stage \in {"drain", "digest"}
            /\ r.res[e] = "ok" => e \in accepted

\* What the commit will take off the queue for good.
Ends(r, e) ==
    /\ e \in r.batch
    /\ r.res[e] \in {"ok", "gone", "skip"} \/ r.read[e] + 1 >= MaxAttempts

Finishing(r, rw) ==
    r.stage = "drained" =>
        \A m \in r.final :
            /\ \E a \in Member : <<m, a>> \in r.batch
            /\ \A a \in Member : rw[<<m, a>>].state # "pending" \/ Ends(r, <<m, a>>)

Local(r, rw, accepted) ==
    /\ Clean(r) /\ Named(r) /\ Inserting(r, rw) /\ Going(r, rw, accepted) /\ Finishing(r, rw)

\* Rows are of the audience, insertions under way are of different messages.
Addressed ==
    /\ \A e \in Entry : row[e].state # "none" => e[2] \in audience[e[1]]
    /\ \A p \in Proc : At(p, "inserted") => \A e \in proc[p].batch : e[2] \in audience[e[1]]
Apart ==
    \A p, q \in Proc : At(p, "inserted") /\ At(q, "inserted") /\ p # q
                         => proc[p].msg \cap proc[q].msg = {}

\* An alert belongs to a row, to an insertion under way or to a crash.
Counted ==
    \A e \in Entry :
        /\ alerts[e] <= 1 + crashes
        /\ \/ alerts[e] <= crashes
           \/ row[e].state # "none"
           \/ \E p \in Proc : At(p, "inserted") /\ e \in proc[p].batch

OutboxInv ==
    /\ TypeOK /\ SentMeansDrained /\ SentIsDelivered
    /\ Addressed /\ Apart /\ Counted
    /\ \A p \in Proc : Local(proc[p], row, delivered)
-----------------------------------------------------------------------------
(* Records and rows. *)

\* A process at rest.
LEMMA FreeType ==
    /\ Free \in ProcState /\ Free.stage = "idle" /\ Free.batch = {}
    /\ Free.res = [e \in Entry |-> "none"]
BY DEF Free, ProcState, Stage, Outcome

\* A process that has nothing in flight asks nothing of the rows.
LEMMA IdleLocal ==
    ASSUME NEW r, NEW rw, NEW accepted,
           r.stage \in {"idle", "schedule", "promote", "toDrain", "toDigest"},
           r.res = [e \in Entry |-> "none"]
    PROVE  Local(r, rw, accepted)
BY DEF Local, Clean, Named, Inserting, Going, Finishing

LEMMA OnwardsType ==
    ASSUME TypeOK, NEW p \in Proc, NEW stage \in {"promote", "toDigest"}
    PROVE  /\ Onwards(p, stage) \in ProcState
           /\ Onwards(p, stage).stage \in {"idle", stage}
           /\ Onwards(p, stage).res = [e \in Entry |-> "none"]
<1>1. proc[p] \in ProcState
  BY DEF TypeOK
<1> QED
  BY <1>1 DEF Onwards, Free, ProcState, Stage, Outcome

\* What the update of a settled email makes of its row.
LEMMA SettledRow ==
    ASSUME NEW x \in Row, NEW k \in Nat, k < MaxAttempts,
           NEW o \in {"ok", "error", "gone", "skip"}, NEW y, y = Settled(x, k, o)
    PROVE  /\ y \in Row
           /\ y.state \in {x.state, "sent", "failed", "skipped"}
           /\ y.state = "sent" => o = "ok" \/ x.state = "sent"
           /\ y.state = "pending" => o = "error" /\ k + 1 < MaxAttempts
           /\ y.state \in {"pending", "held"} => y.attempts < MaxAttempts
<1>0. MaxAttempts \in Nat
  BY MessageOutboxAssumption
<1>1. CASE o = "ok"
  BY <1>0, <1>1 DEF Settled, Row, RowState
<1>2. CASE o = "gone"
  BY <1>0, <1>2 DEF Settled, Row, RowState
<1>3. CASE o = "skip"
  BY <1>0, <1>3 DEF Settled, Row, RowState
<1>4. CASE o = "error" /\ k + 1 >= MaxAttempts
  <2>1. Settled(x, k, o) = [x EXCEPT !.state = "failed", !.attempts = k + 1]
    BY <1>4 DEF Settled
  <2>2. k + 1 \in 0..MaxAttempts
    BY <1>0
  <2> QED
    BY <2>1, <2>2 DEF Row, RowState
<1>5. CASE o = "error" /\ ~(k + 1 >= MaxAttempts)
  <2>1. Settled(x, k, o) = [x EXCEPT !.attempts = k + 1, !.waiting = TRUE]
    BY <1>5 DEF Settled
  <2>2. k + 1 \in 0..MaxAttempts /\ k + 1 < MaxAttempts
    BY <1>0, <1>5
  <2> QED
    BY <1>5, <2>1, <2>2 DEF Row, RowState
<1> QED
  BY <1>1, <1>2, <1>3, <1>4, <1>5

\* What a session relies on outlasts a change of rows that unsettles none,
\* queues none of those it finishes and inserts none of those it inserts.
LEMMA LocalStable ==
    ASSUME NEW r \in ProcState, NEW rw, NEW rv, NEW accepted, NEW more,
           Local(r, rw, accepted), accepted \subseteq more,
           \A e \in Entry : rw[e].state # "none" =>
               /\ rv[e].state # "none"
               /\ rv[e].state = "pending" => rw[e].state = "pending",
           \A e \in Entry : rw[e].state = "none" /\ rv[e].state # "none" =>
               /\ r.stage = "inserted" => e[1] \notin r.msg
               /\ \A d \in Entry : d[1] = e[1] => rw[d].state = "none"
    PROVE  Local(r, rv, more)
<1>0. r.batch \subseteq Entry
  BY DEF ProcState
<1>1. Clean(r) /\ Named(r)
  BY DEF Local
<1>2. Inserting(r, rv)
  BY DEF Local, Inserting
<1>3. Going(r, rv, more)
  BY <1>0 DEF Local, Going
<1>4. Finishing(r, rv)
  <2> SUFFICES ASSUME r.stage = "drained", NEW m \in r.final
               PROVE  /\ \E a \in Member : <<m, a>> \in r.batch
                      /\ \A a \in Member : rv[<<m, a>>].state # "pending" \/ Ends(r, <<m, a>>)
    BY DEF Finishing
  <2>1. PICK b \in Member : <<m, b>> \in r.batch
    BY DEF Local, Finishing
  <2>2. rw[<<m, b>>].state # "none"
    BY <2>1 DEF Local, Going
  <2>3. m \in Message /\ <<m, b>> \in Entry
    BY <1>0, <2>1 DEF Entry
  <2>4. ASSUME NEW a \in Member PROVE rv[<<m, a>>].state # "pending" \/ Ends(r, <<m, a>>)
    <3>1. <<m, a>> \in Entry
      BY <2>3 DEF Entry
    <3>2. rw[<<m, a>>].state # "pending" \/ Ends(r, <<m, a>>)
      BY DEF Local, Finishing
    <3>3. CASE rw[<<m, a>>].state = "none"
      BY <2>2, <2>3, <3>1, <3>3
    <3>4. CASE rw[<<m, a>>].state # "none"
      BY <3>1, <3>2, <3>4
    <3> QED
      BY <3>3, <3>4
  <2> QED
    BY <2>1, <2>4
<1> QED
  BY <1>1, <1>2, <1>3, <1>4 DEF Local
-----------------------------------------------------------------------------
(* Kinds of steps. *)

\* One session goes on and writes no row.  One that gives up an insertion
\* crashed.
LEMMA SessionMoves ==
    ASSUME OutboxInv, NEW p \in Proc, NEW r \in ProcState,
           proc' = [proc EXCEPT ![p] = r], r.stage # "inserted",
           Local(r, row, delivered'),
           status' \in [Message -> Statuses],
           \A m \in Message : status'[m] = "sent" => status[m] = "sent",
           delivered \subseteq delivered', delivered' \subseteq Entry,
           crashes' \in {crashes, crashes + 1},
           At(p, "inserted") => crashes' = crashes + 1,
           UNCHANGED <<row, digestDue, isDue, audience, delivery, prefers, contact, changes, alerts>>
    PROVE  OutboxInv'
<1>0. /\ TypeOK /\ proc \in [Proc -> ProcState] /\ crashes \in Nat /\ alerts \in [Entry -> Nat]
  BY DEF OutboxInv, TypeOK
<1>1. \A q \in Proc : proc'[q] = IF q = p THEN r ELSE proc[q]
  BY <1>0
<1>2. TypeOK'
  BY <1>0 DEF TypeOK, Statuses
<1>3. SentMeansDrained' /\ SentIsDelivered'
  BY DEF OutboxInv, SentMeansDrained, SentIsDelivered, Drained, Rows
<1>4. ASSUME NEW q \in Proc PROVE Local(proc'[q], row', delivered')
  <2>1. PICK s \in ProcState : s = proc[q]
    BY <1>0
  <2>2. CASE q # p
    <3>1. Local(s, row, delivered)
      BY <2>1 DEF OutboxInv
    <3>2. Local(s, row, delivered')
      BY <3>1, LocalStable
    <3> QED
      BY <1>1, <2>1, <2>2, <3>2
  <2>3. CASE q = p
    BY <1>1, <2>3
  <2> QED
    BY <2>2, <2>3
<1>5. \A q \in Proc : At(q, "inserted")' => q # p /\ At(q, "inserted") /\ proc'[q] = proc[q]
  BY <1>1 DEF At
<1>6. Addressed' /\ Apart'
  BY <1>5 DEF OutboxInv, Addressed, Apart
<1>7. Counted'
  <2> SUFFICES ASSUME NEW e \in Entry
               PROVE  /\ alerts[e] <= 1 + crashes'
                      /\ \/ alerts[e] <= crashes'
                         \/ row[e].state # "none"
                         \/ \E q \in Proc : At(q, "inserted")' /\ e \in proc'[q].batch
    BY DEF Counted
  <2>1. /\ alerts[e] <= 1 + crashes
        /\ \/ alerts[e] <= crashes
           \/ row[e].state # "none"
           \/ \E q \in Proc : At(q, "inserted") /\ e \in proc[q].batch
    BY DEF OutboxInv, Counted
  <2>2. alerts[e] \in Nat /\ crashes' \in Nat
    BY <1>0
  <2>3. CASE crashes' = crashes + 1
    BY <1>0, <2>1, <2>2, <2>3
  <2>4. CASE crashes' = crashes /\ ~At(p, "inserted")
    <3>1. \A q \in Proc : At(q, "inserted") => At(q, "inserted")' /\ proc'[q] = proc[q]
      BY <1>1, <2>4 DEF At
    <3> QED
      BY <2>1, <2>4, <3>1
  <2> QED
    BY <1>0, <2>3, <2>4
<1> QED
  BY <1>2, <1>3, <1>4, <1>6, <1>7 DEF OutboxInv

\* A drain or a digest commits: nothing it writes is queued anew.
LEMMA WrittenRows ==
    ASSUME OutboxInv, NEW p \in Proc, proc[p].stage \in {"drained", "digested"}
    PROVE  /\ Written(p) \in [Entry -> Row] /\ AttemptsLeft(Written(p))
           /\ \A e \in Entry :
                /\ Written(p)[e].state = "none" <=> row[e].state = "none"
                /\ Written(p)[e].state \in {row[e].state, "sent", "failed", "skipped"}
                /\ Written(p)[e].state = "sent" => e \in delivered
                /\ Written(p)[e].state = "pending" /\ e \in proc[p].batch => ~Ends(proc[p], e)
<1>0. /\ row \in [Entry -> Row] /\ AttemptsLeft(row)
      /\ proc[p] \in ProcState /\ MaxAttempts \in Nat
  BY MessageOutboxAssumption DEF OutboxInv, TypeOK, Row, AttemptsLeft
<1>1. \A e \in Entry : row[e].state = "sent" => e \in delivered
  BY DEF OutboxInv, SentIsDelivered, Rows
<1>2. ASSUME NEW e \in Entry
      PROVE  /\ Written(p)[e] \in Row
             /\ Written(p)[e].state \in {"pending", "held"} => Written(p)[e].attempts < MaxAttempts
             /\ Written(p)[e].state = "none" <=> row[e].state = "none"
             /\ Written(p)[e].state \in {row[e].state, "sent", "failed", "skipped"}
             /\ Written(p)[e].state = "sent" => e \in delivered
             /\ Written(p)[e].state = "pending" /\ e \in proc[p].batch => ~Ends(proc[p], e)
  <2>1. CASE e \notin proc[p].batch
    BY <1>0, <1>1, <2>1 DEF Written, AttemptsLeft
  <2>2. CASE e \in proc[p].batch
    <3>1. PICK x \in Row, k \in Nat, o \in Outcome :
              x = row[e] /\ k = proc[p].read[e] /\ o = proc[p].res[e]
      BY <1>0 DEF ProcState
    <3>2. /\ Local(proc[p], row, delivered)
          /\ x.state # "none" /\ k < MaxAttempts /\ o \in {"ok", "error", "gone", "skip"}
          /\ o = "ok" => e \in delivered
      BY <2>2, <3>1 DEF OutboxInv, Local, Going
    <3>3. PICK y : y = Written(p)[e] /\ y = Settled(x, k, o)
      BY <2>2, <3>1 DEF Written
    <3>4. x.state = "sent" => e \in delivered
      BY <1>1, <3>1
    <3>5. x \in Row /\ k \in Nat /\ k < MaxAttempts
      BY <3>2
    <3>6. o \in {"ok", "error", "gone", "skip"}
      BY <3>2
    <3>7. y = Settled(x, k, o)
      BY <3>3
    <3>8. /\ y \in Row
          /\ y.state \in {x.state, "sent", "failed", "skipped"}
          /\ y.state = "sent" => o = "ok" \/ x.state = "sent"
          /\ y.state = "pending" => o = "error" /\ k + 1 < MaxAttempts
          /\ y.state \in {"pending", "held"} => y.attempts < MaxAttempts
      BY <3>5, <3>6, <3>7, SettledRow
    <3>9. y.state = "pending" => ~Ends(proc[p], e)
      BY <1>0, <3>1, <3>8 DEF Ends
    <3> QED
      BY <3>1, <3>2, <3>3, <3>4, <3>8, <3>9
  <2> QED
    BY <2>1, <2>2
<1>3. Written(p) = [e \in Entry |-> Written(p)[e]]
  BY DEF Written
<1>4. Written(p) \in [Entry -> Row]
  BY <1>2, <1>3
<1> QED
  BY <1>2, <1>4 DEF AttemptsLeft

\* ... whatever it says of the messages it touched and of the slot.
LEMMA SettlingCommits ==
    ASSUME OutboxInv, NEW p \in Proc, proc[p].stage \in {"drained", "digested"},
           NEW r \in ProcState, r.stage \in {"idle", "toDigest"},
           r.res = [e \in Entry |-> "none"],
           proc' = [proc EXCEPT ![p] = r], row' = Written(p),
           status' \in [Message -> Statuses], digestDue' \in BOOLEAN,
           \A m \in Message : status'[m] = "sent" =>
               \/ status[m] = "sent"
               \/ proc[p].stage = "drained" /\ m \in proc[p].final,
           UNCHANGED <<settings, history>>
    PROVE  OutboxInv'
<1>0. /\ proc \in [Proc -> ProcState] /\ row \in [Entry -> Row] /\ alerts \in [Entry -> Nat]
      /\ crashes \in Nat
  BY DEF OutboxInv, TypeOK, Row
<1>1. /\ row' \in [Entry -> Row] /\ AttemptsLeft(row')
      /\ \A e \in Entry :
           /\ row'[e].state = "none" <=> row[e].state = "none"
           /\ row'[e].state \in {row[e].state, "sent", "failed", "skipped"}
           /\ row'[e].state = "sent" => e \in delivered
           /\ row'[e].state = "pending" /\ e \in proc[p].batch => ~Ends(proc[p], e)
  BY WrittenRows
<1>2. \A q \in Proc : proc'[q] = IF q = p THEN r ELSE proc[q]
  BY <1>0
<1>3. TypeOK'
  BY <1>0, <1>1 DEF OutboxInv, TypeOK, Row, AttemptsLeft, Statuses, settings, history
<1>4. SentIsDelivered'
  BY <1>1 DEF SentIsDelivered, Rows, history
<1>5. SentMeansDrained'
  <2> SUFFICES ASSUME NEW m \in Message, status'[m] = "sent", NEW a \in Member
               PROVE  row'[<<m, a>>].state # "pending"
    BY DEF SentMeansDrained, Drained
  <2>1. <<m, a>> \in Entry
    BY DEF Entry
  <2>2. CASE status[m] = "sent"
    <3>1. row[<<m, a>>].state # "pending"
      BY <2>2 DEF OutboxInv, SentMeansDrained, Drained
    <3> QED
      BY <1>1, <2>1, <3>1
  <2>3. CASE proc[p].stage = "drained" /\ m \in proc[p].final
    <3>1. row[<<m, a>>].state # "pending" \/ Ends(proc[p], <<m, a>>)
      BY <2>3 DEF OutboxInv, Local, Finishing
    <3>2. Ends(proc[p], <<m, a>>) => <<m, a>> \in proc[p].batch
      BY DEF Ends
    <3> QED
      BY <1>1, <2>1, <3>1, <3>2
  <2> QED
    BY <2>2, <2>3
<1>6. \A q \in Proc : Local(proc'[q], row', delivered')
  <2> SUFFICES ASSUME NEW q \in Proc PROVE Local(proc'[q], row', delivered')
    OBVIOUS
  <2>1. CASE q = p
    BY <1>2, <2>1, IdleLocal
  <2>2. CASE q # p
    <3>1. PICK s \in ProcState : s = proc[q]
      BY <1>0
    <3>2. Local(s, row, delivered)
      BY <3>1 DEF OutboxInv
    <3>3. /\ \A e \in Entry : row[e].state # "none" =>
               /\ row'[e].state # "none"
               /\ row'[e].state = "pending" => row[e].state = "pending"
          /\ \A e \in Entry : row[e].state = "none" => row'[e].state = "none"
      BY <1>1
    <3>4. Local(s, row', delivered)
      BY <3>2, <3>3, LocalStable
    <3> QED
      BY <1>2, <2>2, <3>1, <3>4 DEF history
  <2> QED
    BY <2>1, <2>2
<1>7. /\ \A q \in Proc : At(q, "inserted")' <=> At(q, "inserted")
      /\ \A q \in Proc : At(q, "inserted") => proc'[q] = proc[q]
  BY <1>2 DEF At
<1>8. Addressed' /\ Apart'
  BY <1>1, <1>7 DEF OutboxInv, Addressed, Apart, settings
<1>9. Counted'
  <2> SUFFICES ASSUME NEW e \in Entry
               PROVE  /\ alerts[e] <= 1 + crashes
                      /\ \/ alerts[e] <= crashes
                         \/ row'[e].state # "none"
                         \/ \E q \in Proc : At(q, "inserted")' /\ e \in proc'[q].batch
    BY DEF Counted, history, settings
  <2> QED
    BY <1>1, <1>7 DEF OutboxInv, Counted
<1> QED
  BY <1>3, <1>4, <1>5, <1>6, <1>8, <1>9 DEF OutboxInv

\* Entries, and the rows of a message.
LEMMA Pairs ==
    /\ \A e \in Entry : e[1] \in Message /\ e[2] \in Member /\ e = <<e[1], e[2]>>
    /\ \A m \in Message, a \in Member : <<m, a>> \in Entry
    /\ TypeOK => \A m \in Message : \A e :
          e \in Recipients(m) <=> e \in Entry /\ e[1] = m /\ e[2] \in audience[m]
<1>1. TypeOK => \A m \in Message : audience[m] \subseteq Member
  BY MessageOutboxAssumption DEF TypeOK
<1> QED
  BY <1>1 DEF Entry, Recipients

\* The email of one or several rows of the batch is sent or refused.
LEMMA EmailGoes ==
    ASSUME OutboxInv, NEW p \in Proc, proc[p].stage \in {"drain", "digest"},
           NEW es \in SUBSET proc[p].batch, NEW o \in {"ok", "error", "gone", "skip"},
           Note(p, es, o),
           delivered' = IF o = "ok" THEN delivered \cup es ELSE delivered,
           UNCHANGED <<status, row, digestDue, settings, alerts>>
    PROVE  OutboxInv'
<1> DEFINE res == [e \in Entry |-> IF e \in es THEN o ELSE proc[p].res[e]]
           r == [proc[p] EXCEPT !.res = res]
<1>0. /\ proc \in [Proc -> ProcState] /\ status \in [Message -> Statuses] /\ crashes \in Nat
      /\ delivered \subseteq Entry /\ proc[p].batch \subseteq Entry
  BY DEF OutboxInv, TypeOK, ProcState, Statuses
<1>1. proc' = [proc EXCEPT ![p] = r]
  BY DEF Note
<1>2. res \in [Entry -> Outcome]
  BY <1>0 DEF ProcState, Outcome
<1>3. r \in ProcState /\ r.stage = proc[p].stage /\ r.batch = proc[p].batch
      /\ r.read = proc[p].read /\ r.res = res
  BY <1>0, <1>2 DEF ProcState
<1>4. Going(r, row, delivered')
  <2>1. Going(proc[p], row, delivered)
    BY DEF OutboxInv, Local
  <2> QED
    BY <1>0, <1>3, <2>1 DEF Going
<1>5. Local(r, row, delivered')
  BY <1>3, <1>4 DEF Local, Clean, Named, Inserting, Finishing
<1>6. delivered \subseteq delivered' /\ delivered' \subseteq Entry
  BY <1>0
<1>7. ~At(p, "inserted") /\ r.stage # "inserted"
  BY <1>3 DEF At
<1> HIDE DEF r
<1> QED
  BY <1>0, <1>1, <1>3, <1>5, <1>6, <1>7, SessionMoves DEF settings

\* A batch is read from the queue by a session that has sent nothing yet.
LEMMA BatchIsRead ==
    ASSUME OutboxInv, NEW p \in Proc, proc[p].stage \in {"promote", "toDrain", "toDigest"},
           NEW stage \in {"drain", "digest"}, NEW state \in {"pending", "held"},
           NEW batch \in SUBSET Ready(state),
           proc' = [proc EXCEPT ![p] = Picked(p, stage, batch)],
           UNCHANGED <<status, row, digestDue, settings, history>>
    PROVE  OutboxInv'
<1> DEFINE r == Picked(p, stage, batch)
<1>0. /\ proc \in [Proc -> ProcState] /\ status \in [Message -> Statuses] /\ crashes \in Nat
      /\ delivered \subseteq Entry /\ MaxAttempts \in Nat /\ row \in [Entry -> Row]
  BY MessageOutboxAssumption DEF OutboxInv, TypeOK, Statuses, Row
<1>1. batch \subseteq Entry /\ \A e \in batch : row[e].state # "none" /\ row[e].attempts < MaxAttempts
  BY DEF OutboxInv, TypeOK, Ready, Rows
<1>2. [e \in Entry |-> IF e \in batch THEN row[e].attempts ELSE 0] \in [Entry -> Nat]
  BY <1>0 DEF Row
<1>3. /\ r \in ProcState /\ r.stage = stage /\ r.batch = batch /\ r.res = proc[p].res
      /\ \A e \in batch : r.read[e] = row[e].attempts
  <2>1. PICK read \in [Entry -> Nat] :
          read = [e \in Entry |-> IF e \in batch THEN row[e].attempts ELSE 0]
    BY <1>2
  <2>2. PICK s \in ProcState : s = proc[p]
    BY <1>0
  <2>3. r = [s EXCEPT !.stage = stage, !.batch = batch, !.read = read]
    BY <2>1, <2>2 DEF Picked
  <2>4. /\ r \in ProcState /\ r.stage = stage /\ r.batch = batch /\ r.res = s.res
        /\ r.read = read
    BY <1>1, <2>3 DEF ProcState, Stage
  <2> QED
    BY <1>1, <2>1, <2>2, <2>4
<1>4. proc[p].res = [e \in Entry |-> "none"]
  BY DEF OutboxInv, Local, Clean
<1>5. Local(r, row, delivered)
  BY <1>1, <1>3, <1>4 DEF Local, Clean, Named, Inserting, Going, Finishing
<1>6. ~At(p, "inserted") /\ r.stage # "inserted"
  BY <1>3 DEF At
<1> HIDE DEF r
<1> QED
  BY <1>0, <1>3, <1>5, <1>6, SessionMoves DEF settings, history, r

\* Time passes, a member's flags change: no row changes its state.
LEMMA WorldMoves ==
    ASSUME OutboxInv, UNCHANGED <<status, proc, audience, delivery, prefers, crashes, history>>,
           isDue' \in [Message -> BOOLEAN], digestDue' \in BOOLEAN, changes' \in Nat,
           contact' \in [Member -> {"ok", "none", "off"}], row' \in [Entry -> Row],
           \A e \in Entry : row'[e].state = row[e].state /\ row'[e].attempts = row[e].attempts
    PROVE  OutboxInv'
<1>1. TypeOK'
  BY DEF OutboxInv, TypeOK, Row, history
<1>2. SentIsDelivered'
  BY DEF OutboxInv, SentIsDelivered, Rows, history
<1>3. SentMeansDrained'
  BY Pairs DEF OutboxInv, SentMeansDrained, Drained
<1>4. ASSUME NEW q \in Proc PROVE Local(proc'[q], row', delivered')
  <2>1. PICK s \in ProcState : s = proc[q]
    BY DEF OutboxInv, TypeOK
  <2>2. Local(s, row, delivered)
    BY <2>1 DEF OutboxInv
  <2>3. Local(s, row', delivered)
    BY <2>2, LocalStable
  <2> QED
    BY <2>1, <2>3 DEF history
<1>5. Addressed' /\ Apart'
  BY DEF OutboxInv, Addressed, Apart, At
<1>6. Counted'
  BY DEF OutboxInv, Counted, At, history
<1> QED
  BY <1>1, <1>2, <1>3, <1>4, <1>5, <1>6 DEF OutboxInv
-----------------------------------------------------------------------------
(* The steps that insert rows or find a message done. *)

\* An insertion flushes rows of a message that has none.
LEMMA InsertStep ==
    ASSUME OutboxInv, NEW p \in Proc, NEW m \in Message, Insert(p, m) PROVE OutboxInv'
<1> DEFINE res == [e \in Entry |-> IF e \in Recipients(m) THEN InitialState(m, e[2]) ELSE "none"]
           q == [proc[p] EXCEPT !.stage = "inserted", !.batch = Recipients(m), !.res = res]
           r == Resolved(p, m)
<1>0. /\ proc \in [Proc -> ProcState] /\ row \in [Entry -> Row] /\ alerts \in [Entry -> Nat]
      /\ crashes \in Nat /\ TypeOK
  BY DEF OutboxInv, TypeOK, Row
<1>1. /\ proc[p].stage = "request" /\ proc[p].msg = {m} /\ proc[p] \in ProcState
      /\ proc' = [proc EXCEPT ![p] = r]
  BY <1>0 DEF Insert, At, OutboxInv, Local, Named
<1>2. \A e \in Recipients(m) : /\ e \in Entry /\ row[e].state = "none"
                               /\ res[e] \in {"pending", "held", "skipped"}
  BY <1>0, Pairs DEF Insert, Refused, InitialState
<1>3. res \in [Entry -> Outcome]
  BY <1>2 DEF Outcome
<1>4. q \in ProcState /\ q.batch = Recipients(m) /\ q.res = res /\ q.msg = {m} /\ q.stage = "inserted"
  BY <1>1, <1>2, <1>3 DEF ProcState, Stage
<1>5. r = [q EXCEPT !.final = IF Drained(m, NewRows(p, q)) THEN {m} ELSE {}]
  BY DEF Resolved
<1>6. /\ r \in ProcState /\ r.stage = "inserted" /\ r.batch = Recipients(m) /\ r.msg = {m}
      /\ r.res = res /\ r.final \subseteq {m}
      /\ r.final # {} => Drained(m, NewRows(p, q))
  <2> HIDE DEF q, r
  <2> QED
    BY <1>4, <1>5 DEF ProcState
<1>7. \A e \in Entry : e[1] = m => row[e].state = "none"
  BY <1>0, <1>2, Pairs DEF OutboxInv, Addressed
<1>8. \A e \in Recipients(m) : r.final # {} => res[e] # "pending"
  <2> SUFFICES ASSUME NEW e \in Recipients(m), Drained(m, NewRows(p, q))
               PROVE  res[e] # "pending"
    BY <1>6
  <2>1. e \in Entry /\ e = <<m, e[2]>> /\ e[2] \in Member
    BY <1>0, Pairs
  <2>2. NewRows(p, q)[e].state = res[e]
    BY <1>4, <2>1 DEF NewRows, NoRow
  <2> QED
    BY <2>1, <2>2 DEF Drained
<1>9. Local(r, row, delivered)
  <2>1. \A e \in Recipients(m) : e[1] = m
    BY <1>0, Pairs
  <2>2. Inserting(r, row)
    BY <1>2, <1>6, <1>7, <1>8, <2>1 DEF Inserting
  <2> QED
    BY <1>6, <2>2 DEF Local, Clean, Named, Going, Finishing
<1> HIDE DEF res, q, r
<1>10. \A s \in Proc : proc'[s] = IF s = p THEN r ELSE proc[s]
  BY <1>0, <1>1
<1>11. alerts' = [e \in Entry |-> IF e \in Recipients(m) THEN alerts[e] + 1 ELSE alerts[e]]
       /\ UNCHANGED <<status, row, digestDue, settings, delivered>>
  BY DEF Insert, Alerted
<1>12. TypeOK'
  <2>1. alerts' \in [Entry -> Nat] /\ proc' \in [Proc -> ProcState]
    BY <1>0, <1>1, <1>6, <1>11
  <2> QED
    BY <1>0, <1>11, <2>1 DEF TypeOK, settings
<1>13. SentMeansDrained' /\ SentIsDelivered'
  BY <1>11 DEF OutboxInv, SentMeansDrained, SentIsDelivered, Drained, Rows
<1>14. \A s \in Proc : Local(proc'[s], row', delivered')
  BY <1>9, <1>10, <1>11 DEF OutboxInv
<1>15. Addressed'
  BY <1>0, <1>6, <1>10, <1>11, Pairs DEF OutboxInv, Addressed, At, settings
<1>16. \A s \in Proc \ {p} : At(s, "inserted") => m \notin proc[s].msg
  BY DEF Insert, Awaits
<1>17. Apart'
  BY <1>6, <1>10, <1>16 DEF OutboxInv, Apart, At
<1>18. Counted'
  <2> SUFFICES ASSUME NEW e \in Entry
               PROVE  /\ alerts'[e] <= 1 + crashes
                      /\ \/ alerts'[e] <= crashes
                         \/ row[e].state # "none"
                         \/ \E s \in Proc : At(s, "inserted")' /\ e \in proc'[s].batch
    BY <1>11 DEF Counted, settings
  <2>1. /\ alerts[e] <= 1 + crashes /\ alerts[e] \in Nat
        /\ \/ alerts[e] <= crashes
           \/ row[e].state # "none"
           \/ \E s \in Proc : At(s, "inserted") /\ e \in proc[s].batch
    BY <1>0 DEF OutboxInv, Counted
  <2>2. CASE e \in Recipients(m)
    <3>1. e[1] = m /\ row[e].state = "none"
      BY <1>0, <1>2, <2>2, Pairs
    <3>2. ASSUME NEW s \in Proc, At(s, "inserted"), e \in proc[s].batch PROVE FALSE
      <4>1. e[1] \in proc[s].msg
        BY <3>2 DEF OutboxInv, Local, Inserting, At
      <4> QED
        BY <1>1, <1>16, <3>1, <3>2, <4>1 DEF At
    <3>3. alerts[e] <= crashes /\ alerts'[e] = alerts[e] + 1
      BY <1>11, <2>1, <2>2, <3>1, <3>2
    <3>4. At(p, "inserted")' /\ e \in proc'[p].batch
      BY <1>6, <1>10, <2>2 DEF At
    <3> QED
      BY <1>0, <2>1, <3>3, <3>4
  <2>3. CASE e \notin Recipients(m)
    <3>1. \A s \in Proc : At(s, "inserted") => At(s, "inserted")' /\ proc'[s] = proc[s]
      BY <1>1, <1>10 DEF At
    <3> QED
      BY <1>11, <2>1, <2>3, <3>1
  <2> QED
    BY <2>2, <2>3
<1> QED
  BY <1>12, <1>13, <1>14, <1>15, <1>17, <1>18 DEF OutboxInv

\* ... and commits them: no other insertion is of this message.
LEMMA CommitSendStep ==
    ASSUME OutboxInv, NEW p \in Proc, CommitSend(p) PROVE OutboxInv'
<1> DEFINE r == IF proc[p].pass THEN Onwards(p, "promote") ELSE [Free EXCEPT !.stage = "toDrain"]
<1>0. /\ proc \in [Proc -> ProcState] /\ row \in [Entry -> Row] /\ alerts \in [Entry -> Nat]
      /\ status \in [Message -> Statuses] /\ AttemptsLeft(row) /\ MaxAttempts \in Nat \ {0}
      /\ crashes \in Nat /\ TypeOK
  BY MessageOutboxAssumption DEF OutboxInv, TypeOK, Row, Statuses, AttemptsLeft
<1>1. /\ proc[p].stage = "inserted" /\ proc' = [proc EXCEPT ![p] = r]
      /\ row' = NewRows(p, proc[p])
      /\ status' = [m \in Message |->
                      IF m \in proc[p].final THEN "sent"
                      ELSE IF m \in proc[p].msg THEN "sending" ELSE status[m]]
      /\ UNCHANGED <<digestDue, settings, history>>
  BY DEF CommitSend, At
<1>2. r \in ProcState /\ r.stage \in {"idle", "promote", "toDrain"} /\ r.res = [e \in Entry |-> "none"]
  BY <1>0, OnwardsType, FreeType DEF ProcState, Stage
<1> HIDE DEF r
<1>3. \A q \in Proc : proc'[q] = IF q = p THEN r ELSE proc[q]
  BY <1>0, <1>1
<1>4. /\ \A e \in proc[p].batch : /\ e \in Entry /\ e[1] \in proc[p].msg
                                  /\ proc[p].res[e] \in {"pending", "held", "skipped"}
      /\ \A e \in Entry : e[1] \in proc[p].msg => row[e].state = "none"
      /\ proc[p].final \subseteq proc[p].msg
      /\ \A e \in proc[p].batch : e[1] \in proc[p].final => proc[p].res[e] # "pending"
  BY <1>0, <1>1 DEF OutboxInv, Local, Inserting, ProcState
<1>5. /\ \A e \in proc[p].batch : /\ row'[e].state = proc[p].res[e] /\ row'[e].attempts = 0
                                  /\ row'[e] \in Row
      /\ \A e \in Entry : e \notin proc[p].batch => row'[e] = row[e]
  <2>1. \A e \in Entry : row'[e] = IF e \in proc[p].batch
                                   THEN [NoRow EXCEPT !.state = proc[p].res[e]] ELSE row[e]
    BY <1>1 DEF NewRows
  <2>2. ASSUME NEW x \in {"pending", "held", "skipped"}, NEW y, y = [NoRow EXCEPT !.state = x]
        PROVE  y.state = x /\ y.attempts = 0 /\ y \in Row
    <3>1. y = [state |-> x, attempts |-> 0, waiting |-> FALSE]
      BY <2>2 DEF NoRow
    <3> QED
      BY <1>0, <3>1 DEF Row, RowState
  <2>3. ASSUME NEW e \in proc[p].batch
        PROVE  row'[e].state = proc[p].res[e] /\ row'[e].attempts = 0 /\ row'[e] \in Row
    <3>1. PICK x \in {"pending", "held", "skipped"} : x = proc[p].res[e]
      BY <1>4
    <3>2. row'[e] = [NoRow EXCEPT !.state = x]
      BY <1>4, <2>1, <3>1
    <3> QED
      BY <2>2, <3>1, <3>2
  <2> QED
    BY <2>1, <2>3
<1>6. row' \in [Entry -> Row] /\ AttemptsLeft(row')
  <2>1. row' = [e \in Entry |-> row'[e]]
    BY <1>1 DEF NewRows
  <2>2. \A e \in Entry : row'[e] \in Row
    BY <1>0, <1>5
  <2>3. AttemptsLeft(row')
    BY <1>0, <1>5 DEF AttemptsLeft
  <2> QED
    BY <2>1, <2>2, <2>3
<1>7. TypeOK'
  <2>1. status' \in [Message -> Statuses] /\ proc' \in [Proc -> ProcState]
    BY <1>0, <1>1, <1>2 DEF Statuses
  <2>2. UNCHANGED <<digestDue, isDue, audience, delivery, prefers, contact, crashes, changes,
                    delivered, alerts>>
    BY <1>1 DEF settings, history
  <2> QED
    BY <1>0, <1>6, <2>1, <2>2 DEF TypeOK, Row, AttemptsLeft, Statuses
<1>8. SentIsDelivered'
  <2> SUFFICES ASSUME NEW e \in Entry, row'[e].state = "sent" PROVE e \in delivered
    BY <1>1 DEF SentIsDelivered, Rows, history
  <2>1. row[e].state = "sent"
    BY <1>4, <1>5
  <2> QED
    BY <2>1 DEF OutboxInv, SentIsDelivered, Rows
<1>9. SentMeansDrained'
  <2> SUFFICES ASSUME NEW m \in Message, status'[m] = "sent", NEW a \in Member
               PROVE  row'[<<m, a>>].state # "pending"
    BY DEF SentMeansDrained, Drained
  <2>1. <<m, a>> \in Entry /\ <<m, a>>[1] = m
    BY Pairs
  <2>2. CASE m \in proc[p].final
    BY <1>4, <1>5, <2>1, <2>2
  <2>3. CASE m \notin proc[p].final
    <3>1. m \notin proc[p].msg /\ status[m] = "sent"
      BY <1>1, <2>3
    <3>2. row[<<m, a>>].state # "pending"
      BY <3>1 DEF OutboxInv, SentMeansDrained, Drained
    <3> QED
      BY <1>4, <1>5, <2>1, <3>1, <3>2
  <2> QED
    BY <2>2, <2>3
<1>10. ASSUME NEW q \in Proc PROVE Local(proc'[q], row', delivered')
  <2>1. CASE q = p
    BY <1>2, <1>3, <2>1, IdleLocal
  <2>2. CASE q # p
    <3>1. PICK s \in ProcState : s = proc[q]
      BY <1>0
    <3>2. Local(s, row, delivered)
      BY <3>1 DEF OutboxInv
    <3>3. \A e \in Entry : row[e].state # "none" => row'[e] = row[e]
      BY <1>4, <1>5
    <3>4. \A e \in Entry : row[e].state = "none" /\ row'[e].state # "none" => e[1] \in proc[p].msg
      BY <1>4, <1>5
    <3>5. s.stage = "inserted" => s.msg \cap proc[p].msg = {}
      BY <1>1, <2>2, <3>1 DEF OutboxInv, Apart, At
    <3>6. Local(s, row', delivered)
      BY <1>4, <3>2, <3>3, <3>4, <3>5, LocalStable
    <3> QED
      BY <1>1, <1>3, <2>2, <3>1, <3>6 DEF history
  <2> QED
    BY <2>1, <2>2
<1>11. \A q \in Proc : At(q, "inserted")' => q # p /\ At(q, "inserted") /\ proc'[q] = proc[q]
  BY <1>2, <1>3 DEF At
<1>12. Addressed' /\ Apart'
  <2>1. \A e \in proc[p].batch : e[2] \in audience[e[1]]
    BY <1>1 DEF OutboxInv, Addressed, At
  <2> QED
    BY <1>1, <1>5, <1>11, <2>1 DEF OutboxInv, Addressed, Apart, settings
<1>13. Counted'
  <2> SUFFICES ASSUME NEW e \in Entry
               PROVE  /\ alerts[e] <= 1 + crashes
                      /\ \/ alerts[e] <= crashes
                         \/ row'[e].state # "none"
                         \/ \E q \in Proc : At(q, "inserted")' /\ e \in proc'[q].batch
    BY <1>1 DEF Counted, settings, history
  <2>1. /\ alerts[e] <= 1 + crashes
        /\ \/ alerts[e] <= crashes
           \/ row[e].state # "none"
           \/ \E q \in Proc : At(q, "inserted") /\ e \in proc[q].batch
    BY DEF OutboxInv, Counted
  <2>2. \A q \in Proc : q # p /\ At(q, "inserted") => At(q, "inserted")' /\ proc'[q] = proc[q]
    BY <1>3 DEF At
  <2>3. CASE e \in proc[p].batch
    BY <1>4, <1>5, <2>1, <2>3
  <2>4. CASE e \notin proc[p].batch
    BY <1>5, <2>1, <2>2, <2>4
  <2> QED
    BY <2>3, <2>4
<1> QED
  BY <1>7, <1>8, <1>9, <1>10, <1>12, <1>13 DEF OutboxInv

\* Flushing a drain: a message it names is one whose rows outside the batch
\* are settled, and whose rows inside it will be.
LEMMA FlushDrainStep ==
    ASSUME OutboxInv, NEW p \in Proc, FlushDrain(p) PROVE OutboxInv'
<1> DEFINE touched == {e[1] : e \in {d \in proc[p].batch : proc[p].res[d] # "gone"}}
           final == {m \in touched : status[m] = "sending" /\ Drained(m, Written(p))}
           r == [proc[p] EXCEPT !.stage = "drained", !.final = final]
<1>0. /\ TypeOK /\ row \in [Entry -> Row] /\ MaxAttempts \in Nat
      /\ proc \in [Proc -> ProcState] /\ status \in [Message -> Statuses]
  BY MessageOutboxAssumption DEF OutboxInv, TypeOK, Row, Statuses
<1>1. /\ proc[p].stage = "drain" /\ Unsent(p) = {} /\ proc' = [proc EXCEPT ![p] = r]
      /\ UNCHANGED <<status, row, digestDue, settings, history>>
  BY <1>0 DEF FlushDrain, At
<1>2. proc[p].batch \subseteq Entry /\ proc[p].res \in [Entry -> Outcome]
      /\ proc[p].read \in [Entry -> Nat] /\ proc[p] \in ProcState
  BY <1>0 DEF ProcState
<1>3. final \subseteq Message
  BY <1>2 DEF Entry
<1>4. /\ r \in ProcState /\ r.stage = "drained" /\ r.final = final /\ r.batch = proc[p].batch
      /\ r.res = proc[p].res /\ r.read = proc[p].read
  BY <1>2, <1>3 DEF ProcState, Stage
<1>5. \A e \in proc[p].batch :
        /\ row[e].state # "none" /\ proc[p].read[e] < MaxAttempts
        /\ proc[p].res[e] \in {"ok", "error", "gone", "skip"}
        /\ proc[p].res[e] = "ok" => e \in delivered
  BY <1>1 DEF OutboxInv, Local, Going, Unsent
<1>6. Going(r, row, delivered)
  BY <1>4, <1>5 DEF Going
<1>7. Finishing(r, row)
  <2> SUFFICES ASSUME NEW m \in final
               PROVE  /\ \E a \in Member : <<m, a>> \in proc[p].batch
                      /\ \A a \in Member : row[<<m, a>>].state # "pending" \/ Ends(r, <<m, a>>)
    BY <1>4 DEF Finishing
  <2>1. m \in touched /\ Drained(m, Written(p)) /\ m \in Message
    BY <1>3
  <2>2. PICK d \in proc[p].batch : m = d[1]
    BY <2>1
  <2>3. d[2] \in Member /\ <<m, d[2]>> \in proc[p].batch
    BY <1>2, <2>2, Pairs
  <2>4. ASSUME NEW a \in Member, row[<<m, a>>].state = "pending" PROVE Ends(r, <<m, a>>)
    <3>1. PICK e \in Entry : e = <<m, a>>
      BY <2>1, Pairs
    <3>2. Written(p)[e].state # "pending"
      BY <2>1, <3>1 DEF Drained
    <3>3. e \in proc[p].batch
      BY <2>4, <3>1, <3>2 DEF Written
    <3>4. Settled(row[e], proc[p].read[e], proc[p].res[e]).state # "pending"
      BY <3>2, <3>3 DEF Written
    <3>5. PICK x \in Row, k \in Nat, o \in Outcome :
             x = row[e] /\ k = proc[p].read[e] /\ o = proc[p].res[e]
      BY <1>0, <1>2
    <3>6. x.state = "pending" /\ Settled(x, k, o).state # "pending"
          /\ o \in {"ok", "error", "gone", "skip"}
      BY <1>5, <2>4, <3>1, <3>3, <3>4, <3>5
    <3>7. CASE o = "error" /\ ~(k + 1 >= MaxAttempts)
      BY <3>6, <3>7 DEF Settled, Row
    <3>8. CASE o \in {"ok", "gone", "skip"} \/ k + 1 >= MaxAttempts
      BY <1>4, <3>1, <3>3, <3>5, <3>8 DEF Ends
    <3> QED
      BY <3>6, <3>7, <3>8
  <2> QED
    BY <2>3, <2>4
<1>8. Local(r, row, delivered)
  BY <1>4, <1>6, <1>7 DEF Local, Clean, Named, Inserting
<1> HIDE DEF r, final, touched
<1>9. /\ status' \in [Message -> Statuses]
      /\ \A m \in Message : status'[m] = "sent" => status[m] = "sent"
      /\ delivered \subseteq delivered' /\ delivered' \subseteq Entry
      /\ crashes' \in {crashes, crashes + 1}
      /\ UNCHANGED <<row, digestDue, isDue, audience, delivery, prefers, contact, changes, alerts>>
      /\ Local(r, row, delivered')
  BY <1>0, <1>1, <1>8 DEF settings, history, TypeOK
<1> QED
  BY <1>1, <1>4, <1>9, SessionMoves DEF At

\* A session that turns to something else with nothing flushed.
LEMMA SessionTurns ==
    ASSUME OutboxInv, NEW p \in Proc, NEW r \in ProcState,
           proc' = [proc EXCEPT ![p] = r],
           r.stage # "inserted", Local(r, row, delivered), ~At(p, "inserted"),
           UNCHANGED <<status, row, digestDue, settings, history>>
    PROVE  OutboxInv'
<1>1. /\ status' \in [Message -> Statuses] /\ delivered' \subseteq Entry
      /\ delivered' = delivered /\ crashes' = crashes
      /\ UNCHANGED <<row, digestDue, isDue, audience, delivery, prefers, contact, changes, alerts>>
  BY DEF OutboxInv, TypeOK, Statuses, settings, history
<1>2. \A m \in Message : status'[m] = "sent" => status[m] = "sent"
  OBVIOUS
<1>3. Local(r, row, delivered')
  BY <1>1
<1> QED
  BY <1>1, <1>2, <1>3, SessionMoves

\* Flushing a digest: every row of it is settled.
LEMMA FlushDigestStep ==
    ASSUME OutboxInv, NEW p \in Proc, FlushDigest(p) PROVE OutboxInv'
<1> DEFINE close == \A e \in Entry : Written(p)[e].state # "held"
           r == [proc[p] EXCEPT !.stage = "digested", !.close = close]
<1>0. proc \in [Proc -> ProcState] /\ proc[p] \in ProcState /\ proc[p].batch \subseteq Entry
  BY DEF OutboxInv, TypeOK, ProcState
<1>1. /\ proc[p].stage = "digest" /\ Unsent(p) = {} /\ proc' = [proc EXCEPT ![p] = r]
      /\ UNCHANGED <<status, row, digestDue, settings, history>>
  BY <1>0 DEF FlushDigest, At
<1> HIDE DEF close
<1>2. /\ r \in ProcState /\ r.stage = "digested" /\ r.batch = proc[p].batch
      /\ r.res = proc[p].res /\ r.read = proc[p].read
  <2>1. close \in BOOLEAN
    BY DEF close
  <2> QED
    BY <1>0, <2>1 DEF ProcState, Stage
<1>3. Going(proc[p], row, delivered)
  BY DEF OutboxInv, Local
<1>4. Local(r, row, delivered)
  BY <1>1, <1>2, <1>3 DEF Local, Clean, Named, Inserting, Finishing, Going, Unsent
<1> HIDE DEF r
<1> QED
  BY <1>1, <1>2, <1>4, SessionTurns DEF At
-----------------------------------------------------------------------------
(* Every step. *)

\* The steps of a session that has nothing in flight.
LEMMA QuietSteps ==
    ASSUME OutboxInv, NEW p \in Proc,
           \/ \E m \in Message : Ask(p, m) \/ Promote(p, m) \/ InsertRefused(p, m)
           \/ Schedule(p) \/ Tick(p) \/ StartDrain(p) \/ StartDigest(p)
    PROVE  OutboxInv'
<1>0. /\ proc \in [Proc -> ProcState] /\ proc[p] \in ProcState /\ TypeOK
      /\ status \in [Message -> Statuses]
  BY DEF OutboxInv, TypeOK, Statuses
<1>1. ASSUME NEW m \in Message, Ask(p, m) PROVE OutboxInv'
  <2> DEFINE r == [Free EXCEPT !.stage = IF isDue[m] THEN "request" ELSE "schedule", !.msg = {m}]
  <2>1. r \in ProcState /\ r.stage \in {"request", "schedule"} /\ r.msg = {m}
    BY FreeType DEF ProcState, Stage
  <2>2. Local(r, row, delivered)
    BY <2>1 DEF Local, Clean, Named, Inserting, Going, Finishing
  <2>3. proc' = [proc EXCEPT ![p] = r]
    BY <1>1 DEF Ask
  <2>4. ~At(p, "inserted") /\ UNCHANGED <<status, row, digestDue, settings, history>>
    BY <1>1 DEF Ask, At
  <2> HIDE DEF r
  <2> QED
    BY <2>1, <2>2, <2>3, <2>4, SessionTurns
<1>2. ASSUME NEW m \in Message, Promote(p, m) PROVE OutboxInv'
  <2> DEFINE r == [proc[p] EXCEPT !.stage = "request", !.msg = {m}, !.due = proc[p].due \ {m}]
  <2>1. r \in ProcState /\ r.stage = "request" /\ r.msg = {m}
    BY <1>0 DEF ProcState, Stage
  <2>2. Local(r, row, delivered)
    BY <2>1 DEF Local, Clean, Named, Inserting, Going, Finishing
  <2>3. proc' = [proc EXCEPT ![p] = r]
    BY <1>0, <1>2 DEF Promote
  <2>4. ~At(p, "inserted") /\ UNCHANGED <<status, row, digestDue, settings, history>>
    BY <1>2 DEF Promote, At
  <2> HIDE DEF r
  <2> QED
    BY <2>1, <2>2, <2>3, <2>4, SessionTurns
<1>3. Local(Free, row, delivered) /\ Free.stage # "inserted"
  BY FreeType, IdleLocal
<1>4. ASSUME NEW m \in Message, InsertRefused(p, m) PROVE OutboxInv'
  <2>1. /\ proc' = [proc EXCEPT ![p] = Free] /\ ~At(p, "inserted")
        /\ UNCHANGED <<status, row, digestDue, settings, history>>
    BY <1>4 DEF InsertRefused, At
  <2> QED
    BY <1>3, <2>1, FreeType, SessionTurns
<1>5. ASSUME Schedule(p) PROVE OutboxInv'
  <2>1. /\ proc' = [proc EXCEPT ![p] = Free] /\ ~At(p, "inserted")
        /\ status' = [m \in Message |-> IF m \in proc[p].msg THEN "scheduled" ELSE status[m]]
        /\ UNCHANGED <<row, digestDue, settings, history>>
    BY <1>5 DEF Schedule, At
  <2>2. status' \in [Message -> Statuses]
        /\ \A m \in Message : status'[m] = "sent" => status[m] = "sent"
    BY <1>0, <2>1 DEF Statuses
  <2>3. /\ UNCHANGED <<row, digestDue, isDue, audience, delivery, prefers, contact, changes, alerts>>
        /\ crashes' = crashes /\ delivered' = delivered /\ delivered \subseteq Entry
    BY <1>0, <2>1 DEF settings, history, TypeOK
  <2> QED
    BY <1>3, <2>1, <2>2, <2>3, FreeType, SessionMoves
<1>6. ASSUME Tick(p) PROVE OutboxInv'
  <2> DEFINE due == {m \in Message : status[m] = "scheduled" /\ isDue[m]}
             r == [Free EXCEPT !.stage = "promote", !.pass = TRUE, !.due = due]
  <2>1. due \subseteq Message
    OBVIOUS
  <2> HIDE DEF due
  <2>2. r \in ProcState /\ r.stage = "promote" /\ r.res = [e \in Entry |-> "none"]
    BY <2>1, FreeType DEF ProcState, Stage
  <2>3. /\ proc' = [proc EXCEPT ![p] = r] /\ ~At(p, "inserted")
        /\ UNCHANGED <<status, row, digestDue, settings, history>>
    BY <1>6 DEF Tick, At, due
  <2> HIDE DEF r
  <2>4. Local(r, row, delivered)
    BY <2>2, IdleLocal
  <2> QED
    BY <2>2, <2>3, <2>4, SessionTurns
<1>7. ASSUME StartDrain(p) PROVE OutboxInv'
  <2>1. PICK batch \in SUBSET Ready("pending") : proc' = [proc EXCEPT ![p] = Picked(p, "drain", batch)]
    BY <1>7 DEF StartDrain
  <2>2. proc[p].stage \in {"promote", "toDrain", "toDigest"}
        /\ UNCHANGED <<status, row, digestDue, settings, history>>
    BY <1>7 DEF StartDrain, At
  <2> QED
    BY <2>1, <2>2, BatchIsRead
<1>8. ASSUME StartDigest(p) PROVE OutboxInv'
  <2>1. /\ proc[p].stage = "toDigest" /\ ~At(p, "inserted")
        /\ UNCHANGED <<status, row, digestDue, settings, history>>
        /\ proc' = [proc EXCEPT ![p] = IF digestDue THEN Picked(p, "digest", Ready("held")) ELSE Free]
    BY <1>8 DEF StartDigest, At
  <2>2. CASE digestDue
    <3>1. proc' = [proc EXCEPT ![p] = Picked(p, "digest", Ready("held"))]
      BY <2>1, <2>2
    <3> QED
      BY <2>1, <3>1, BatchIsRead
  <2>3. CASE ~digestDue
    <3>1. proc' = [proc EXCEPT ![p] = Free]
      BY <2>1, <2>3
    <3> QED
      BY <1>3, <2>1, <3>1, FreeType, SessionTurns
  <2> QED
    BY <2>2, <2>3
<1> QED
  BY <1>1, <1>2, <1>4, <1>5, <1>6, <1>7, <1>8

\* One email of a drain, one newsletter of a digest.
LEMMA SendEmailStep ==
    ASSUME OutboxInv, NEW p \in Proc, NEW e \in Entry, SendEmail(p, e) PROVE OutboxInv'
<1>1. /\ proc[p].stage \in {"drain", "digest"} /\ {e} \in SUBSET proc[p].batch
      /\ UNCHANGED <<status, row, digestDue, settings, alerts>>
  BY DEF SendEmail, At, Unsent
<1>2. PICK o \in {"ok", "error", "gone"} :
        /\ Note(p, {e}, o)
        /\ delivered' \in {delivered, delivered \cup {e}}
        /\ delivered' = IF o = "ok" THEN delivered \cup {e} ELSE delivered
  BY DEF SendEmail, Accepted, NotAccepted
<1> QED
  BY <1>1, <1>2, EmailGoes

LEMMA SendDigestStep ==
    ASSUME OutboxInv, NEW p \in Proc, NEW a \in Member, SendDigest(p, a) PROVE OutboxInv'
<1> DEFINE es == {e \in Unsent(p) : e[2] = a}
<1>1. /\ proc[p].stage \in {"drain", "digest"}
      /\ UNCHANGED <<status, row, digestDue, settings, alerts>>
  BY DEF SendDigest, At
<1>2. es \in SUBSET proc[p].batch
  BY DEF Unsent
<1>3. contact[a] \in {"ok", "none", "off"}
  BY DEF OutboxInv, TypeOK
<1>4. \/ Accepted(p, es)
      \/ \E o \in {"error", "gone", "skip"} : NotAccepted(p, es, o)
  BY <1>3 DEF SendDigest
<1>5. \E o \in {"ok", "error", "gone", "skip"} :
         Note(p, es, o) /\ delivered' = IF o = "ok" THEN delivered \cup es ELSE delivered
  BY <1>4 DEF Accepted, NotAccepted
<1> HIDE DEF es
<1> QED
  BY <1>1, <1>2, <1>5, EmailGoes

\* Drains and digests commit.
LEMMA CommitSteps ==
    ASSUME OutboxInv, NEW p \in Proc, CommitDrain(p) \/ CommitDigest(p) PROVE OutboxInv'
<1>0. /\ TypeOK /\ status \in [Message -> Statuses] /\ digestDue \in BOOLEAN
  BY DEF OutboxInv, TypeOK, Statuses
<1>1. CASE CommitDrain(p)
  <2>1. PICK r : r = Onwards(p, "toDigest")
    OBVIOUS
  <2>2. r \in ProcState /\ r.stage \in {"idle", "toDigest"} /\ r.res = [e \in Entry |-> "none"]
    BY <1>0, <2>1, OnwardsType
  <2>3. /\ proc[p].stage = "drained" /\ row' = Written(p) /\ proc' = [proc EXCEPT ![p] = r]
        /\ status' = [m \in Message |-> IF m \in proc[p].final THEN "sent" ELSE status[m]]
        /\ UNCHANGED <<digestDue, settings, history>>
    BY <1>1, <2>1 DEF CommitDrain, At
  <2>4. /\ status' \in [Message -> Statuses] /\ digestDue' \in BOOLEAN
        /\ \A m \in Message : status'[m] = "sent" =>
               \/ status[m] = "sent"
               \/ proc[p].stage = "drained" /\ m \in proc[p].final
    BY <1>0, <2>3 DEF Statuses
  <2> QED
    BY <2>2, <2>3, <2>4, SettlingCommits
<1>2. CASE CommitDigest(p)
  <2>1. /\ proc[p].stage = "digested" /\ row' = Written(p) /\ proc' = [proc EXCEPT ![p] = Free]
        /\ digestDue' = (digestDue /\ ~proc[p].close)
        /\ UNCHANGED <<status, settings, history>>
    BY <1>2 DEF CommitDigest, At
  <2>2. status' \in [Message -> Statuses] /\ digestDue' \in BOOLEAN
    BY <1>0, <2>1
  <2> QED
    BY <2>1, <2>2, FreeType, SettlingCommits
<1> QED
  BY <1>1, <1>2

\* A crash gives up what was not committed.
LEMMA CrashStep ==
    ASSUME OutboxInv, NEW p \in Proc, Crash(p) PROVE OutboxInv'
<1>1. /\ proc' = [proc EXCEPT ![p] = Free] /\ crashes' = crashes + 1
      /\ UNCHANGED <<status, row, digestDue, isDue, audience, delivery, prefers, contact, changes, history>>
  BY DEF Crash
<1>2. Local(Free, row, delivered) /\ Free.stage # "inserted"
  BY FreeType, IdleLocal
<1>3. /\ status' \in [Message -> Statuses] /\ delivered' = delivered /\ delivered \subseteq Entry
      /\ alerts' = alerts
  BY <1>1 DEF OutboxInv, TypeOK, Statuses, history
<1> QED
  BY <1>1, <1>2, <1>3, FreeType, SessionMoves

\* Time, backoffs, the slot and the members move no row.
LEMMA WorldStep ==
    ASSUME OutboxInv,
           \/ \E m \in Message : TimeComes(m)
           \/ \E e \in Entry : BackoffEnds(e)
           \/ SlotArrives
           \/ \E a \in Member, c \in {"ok", "none", "off"} : ContactChanges(a, c)
    PROVE  OutboxInv'
<1>0. /\ row \in [Entry -> Row] /\ isDue \in [Message -> BOOLEAN]
      /\ contact \in [Member -> {"ok", "none", "off"}] /\ digestDue \in BOOLEAN
      /\ changes \in Nat
  BY DEF OutboxInv, TypeOK, Row
<1>1. UNCHANGED <<status, proc, audience, delivery, prefers, crashes, history>>
  BY DEF TimeComes, BackoffEnds, SlotArrives, ContactChanges, World
<1>2. CASE \E m \in Message : TimeComes(m)
  <2>1. isDue' \in [Message -> BOOLEAN] /\ UNCHANGED <<row, digestDue, contact, changes>>
    BY <1>0, <1>2 DEF TimeComes
  <2> QED
    BY <1>0, <1>1, <2>1, WorldMoves
<1>3. CASE \E e \in Entry : BackoffEnds(e)
  <2>1. PICK d \in Entry : row' = [row EXCEPT ![d] = [@ EXCEPT !.waiting = FALSE]]
    BY <1>3 DEF BackoffEnds
  <2>2. row[d] \in Row
    BY <1>0
  <2>3. /\ row' \in [Entry -> Row]
        /\ \A e \in Entry : row'[e].state = row[e].state /\ row'[e].attempts = row[e].attempts
    BY <1>0, <2>1, <2>2 DEF Row
  <2>4. UNCHANGED <<isDue, digestDue, contact, changes>>
    BY <1>3 DEF BackoffEnds
  <2> QED
    BY <1>0, <1>1, <2>3, <2>4, WorldMoves
<1>4. CASE SlotArrives
  <2>1. digestDue' \in BOOLEAN /\ UNCHANGED <<isDue, row, contact, changes>>
    BY <1>4 DEF SlotArrives
  <2> QED
    BY <1>0, <1>1, <2>1, WorldMoves
<1>5. CASE \E a \in Member, c \in {"ok", "none", "off"} : ContactChanges(a, c)
  <2>1. PICK a \in Member, c \in {"ok", "none", "off"} :
          contact' = [contact EXCEPT ![a] = c] /\ changes' = changes + 1
          /\ UNCHANGED <<isDue, row, digestDue>>
    BY <1>5 DEF ContactChanges
  <2>2. contact' \in [Member -> {"ok", "none", "off"}] /\ changes' \in Nat
    BY <1>0, <2>1
  <2> QED
    BY <1>0, <1>1, <2>1, <2>2, WorldMoves
<1> QED
  BY <1>2, <1>3, <1>4, <1>5

\* Nothing is sent and nobody is at work.
LEMMA InitialOutbox ==
    ASSUME Init PROVE OutboxInv
<1>1. TypeOK
  BY FreeType, MessageOutboxAssumption DEF Init, TypeOK, NoRow, RowState
<1>2. SentMeansDrained /\ SentIsDelivered /\ Addressed /\ Apart /\ Counted
  BY FreeType DEF Init, SentMeansDrained, SentIsDelivered, Rows, Addressed, Apart, Counted, At, NoRow
<1>3. \A p \in Proc : Local(proc[p], row, delivered)
  BY FreeType, IdleLocal DEF Init
<1> QED
  BY <1>1, <1>2, <1>3 DEF OutboxInv

\* The invariant is inductive.
LEMMA OutboxStep ==
    ASSUME OutboxInv, [Next]_vars PROVE OutboxInv'
<1>1. ASSUME NEW p \in Proc, NEW m \in Message, Ask(p, m) PROVE OutboxInv'
  BY <1>1, QuietSteps
<1>2. ASSUME NEW p \in Proc, Run(p) PROVE OutboxInv'
  <2>1. CASE \/ \E m \in Message : Promote(p, m) \/ InsertRefused(p, m)
             \/ Schedule(p) \/ Tick(p) \/ StartDrain(p) \/ StartDigest(p)
    BY <2>1, QuietSteps
  <2>2. CASE \E m \in Message : Insert(p, m)
    BY <2>2, InsertStep
  <2>3. CASE CommitSend(p)
    BY <2>3, CommitSendStep
  <2>4. CASE \E e \in Entry : SendEmail(p, e)
    BY <2>4, SendEmailStep
  <2>5. CASE \E a \in Member : SendDigest(p, a)
    BY <2>5, SendDigestStep
  <2>6. CASE FlushDrain(p)
    BY <2>6, FlushDrainStep
  <2>7. CASE FlushDigest(p)
    BY <2>7, FlushDigestStep
  <2>8. CASE CommitDrain(p) \/ CommitDigest(p)
    BY <2>8, CommitSteps
  <2> QED
    BY <1>2, <2>1, <2>2, <2>3, <2>4, <2>5, <2>6, <2>7, <2>8 DEF Run
<1>3. ASSUME NEW p \in Proc, Crash(p) PROVE OutboxInv'
  BY <1>3, CrashStep
<1>4. CASE \/ \E m \in Message : TimeComes(m)
           \/ \E e \in Entry : BackoffEnds(e)
           \/ SlotArrives
           \/ \E a \in Member, c \in {"ok", "none", "off"} : ContactChanges(a, c)
  BY <1>4, WorldStep
<1>5. CASE UNCHANGED vars
  <2>1. /\ UNCHANGED <<status, proc, audience, delivery, prefers, crashes, history>>
        /\ UNCHANGED <<isDue, digestDue, changes, contact, row>>
    BY <1>5 DEF vars, settings
  <2>2. /\ isDue \in [Message -> BOOLEAN] /\ digestDue \in BOOLEAN /\ changes \in Nat
        /\ contact \in [Member -> {"ok", "none", "off"}] /\ row \in [Entry -> Row]
    BY DEF OutboxInv, TypeOK, Row
  <2> QED
    BY <2>1, <2>2, WorldMoves
<1> QED
  BY <1>1, <1>2, <1>3, <1>4, <1>5 DEF Next

\* The invariant holds throughout.
LEMMA OutboxInvariant == Spec => []OutboxInv
<1>1. Init => OutboxInv
  BY InitialOutbox
<1>2. OutboxInv /\ [Next]_vars => OutboxInv'
  BY OutboxStep
<1> QED
  BY <1>1, <1>2, PTL DEF Spec
-----------------------------------------------------------------------------
(* What follows. *)

(* The state of sending keeps its types, and an email on the queue has an
   attempt left: no overlap of drains counts one past MAX_EMAIL_ATTEMPTS and
   leaves it queued. *)
THEOREM OutboxTypes == Spec => []TypeOK
<1>1. OutboxInv => TypeOK
  BY DEF OutboxInv
<1> QED
  BY <1>1, OutboxInvariant, PTL

(* A message is SENT only when no recipient's email is pending, whatever the
   drain that finalized it had read before the others wrote. *)
THEOREM SentMessagesAreDrained == Spec => []SentMeansDrained
<1>1. OutboxInv => SentMeansDrained
  BY DEF OutboxInv
<1> QED
  BY <1>1, OutboxInvariant, PTL

(* A row says SENT only if the provider accepted the email, whichever of the
   overlapping drains wrote it. *)
THEOREM SentEmailsAreDelivered == Spec => []SentIsDelivered
<1>1. OutboxInv => SentIsDelivered
  BY DEF OutboxInv
<1> QED
  BY <1>1, OutboxInvariant, PTL

(* Requests and passes that race to send a message alert nobody of it twice,
   but for processes that die between the alerts and the commit. *)
THEOREM AlertsGoOutOnce == Spec => []AlertedOnce
<1>1. OutboxInv => AlertedOnce
  BY DEF OutboxInv, Counted, AlertedOnce
<1> QED
  BY <1>1, OutboxInvariant, PTL

\* A commit writes a final state over a final state, a new message has no such row.
LEMMA NothingRequeued ==
    ASSUME OutboxInv, [Next]_vars, NEW e \in Entry, row[e].state \in {"sent", "failed", "skipped"}
    PROVE  row'[e].state \in {"sent", "failed", "skipped"}
<1>0. row \in [Entry -> Row]
  BY DEF OutboxInv, TypeOK, Row
<1>1. ASSUME NEW p \in Proc, CommitDrain(p) \/ CommitDigest(p)
      PROVE  row'[e].state \in {"sent", "failed", "skipped"}
  <2>1. row' = Written(p) /\ proc[p].stage \in {"drained", "digested"}
    BY <1>1 DEF CommitDrain, CommitDigest, At
  <2>2. Written(p)[e].state \in {row[e].state, "sent", "failed", "skipped"}
    BY <2>1, WrittenRows
  <2> QED
    BY <2>1, <2>2
<1>2. ASSUME NEW p \in Proc, CommitSend(p)
      PROVE  row'[e].state \in {"sent", "failed", "skipped"}
  <2>1. proc[p].stage = "inserted" /\ row' = NewRows(p, proc[p])
    BY <1>2 DEF CommitSend, At
  <2>2. Inserting(proc[p], row)
    BY DEF OutboxInv, Local
  <2>3. e \notin proc[p].batch
    BY <2>1, <2>2 DEF Inserting
  <2> QED
    BY <2>1, <2>3 DEF NewRows
<1>3. ASSUME NEW d \in Entry, BackoffEnds(d)
      PROVE  row'[e].state \in {"sent", "failed", "skipped"}
  BY <1>0, <1>3 DEF BackoffEnds, Row
<1>4. CASE row' = row
  BY <1>4
<1>5. ASSUME NEW p \in Proc, Run(p), ~CommitDrain(p), ~CommitDigest(p), ~CommitSend(p)
      PROVE  row' = row
  <2>1. CASE Schedule(p) \/ Tick(p) \/ StartDrain(p) \/ StartDigest(p) \/ FlushDrain(p) \/ FlushDigest(p)
    BY <2>1 DEF Schedule, Tick, StartDrain, StartDigest, FlushDrain, FlushDigest
  <2>2. CASE \E m \in Message : Promote(p, m) \/ Insert(p, m) \/ InsertRefused(p, m)
    BY <2>2 DEF Promote, Insert, InsertRefused
  <2>3. CASE (\E d \in Entry : SendEmail(p, d)) \/ (\E a \in Member : SendDigest(p, a))
    BY <2>3 DEF SendEmail, SendDigest
  <2> QED
    BY <1>5, <2>1, <2>2, <2>3 DEF Run
<1>6. ASSUME NEW p \in Proc, Crash(p) \/ \E m \in Message : Ask(p, m) PROVE row' = row
  BY <1>6 DEF Crash, Ask
<1>7. CASE \/ \E m \in Message : TimeComes(m)
           \/ SlotArrives
           \/ \E a \in Member, c \in {"ok", "none", "off"} : ContactChanges(a, c)
  BY <1>7 DEF TimeComes, SlotArrives, ContactChanges
<1>8. CASE UNCHANGED vars
  BY <1>8 DEF vars
<1> QED
  BY <1>1, <1>2, <1>3, <1>4, <1>5, <1>6, <1>7, <1>8 DEF Next

(* What is settled stays settled: a drain that read a row while it was queued
   writes at worst another final state over it, never puts it back. *)
THEOREM SettledStaySettled == Spec => NeverRequeued
<1>1. OutboxInv /\ [Next]_vars =>
        [\A e \in Entry : row[e].state \in {"sent", "failed", "skipped"}
                            => row'[e].state \in {"sent", "failed", "skipped"}]_vars
  BY NothingRequeued
<1> QED
  BY <1>1, OutboxInvariant, PTL DEF Spec, NeverRequeued
=============================================================================
