-------------------------- MODULE AdvancementProofs --------------------------
(***************************************************************************)
(* Proofs about Advancement, for any versions, leaf requirements, requests *)
(* and thresholds: the types, that a rank whose requirements are complete  *)
(* is earned, and that no credit lands on a revoked requirement.           *)
(*                                                                         *)
(* EarnedWhenComplete is about moments at which nothing is under way; the  *)
(* invariant says who is about to derive the date in the meantime (Owed).  *)
(* A revocation and a credit meet only through the rows they are to write: *)
(* Rewrites and Creditable say what is still true of those.                *)
(***************************************************************************)
EXTENDS Advancement, TLAPS

Statuses == AdvStatus \cup {"none"}
AdvReq == [op : {"idle", "record", "rewrite", "revoke", "derive", "earn", "recompute",
                 "credit", "elect"},
           put : [Leaf -> Statuses], to : Election, new : BOOLEAN, stale : BOOLEAN]

\* Requests that may insert rows elect a version when none is.
Elects == \A p \in AdvSession : advReq[p].op \in {"record", "credit", "elect"}
                                  => advReq[p].to # {}

\* Updates and revocations are about rows that are there.
Rewrites == \A p \in AdvSession : advReq[p].op \in {"rewrite", "revoke"}
                                    => Puts(p) \subseteq Recorded

\* Credits about to be granted are of leaves nobody revoked.
Creditable == \A p \in AdvSession : advReq[p].op = "credit" /\ ~advReq[p].stale
                                      => Puts(p) \cap revoked = {}

\* A complete rank is earned, or somebody is about to derive it.
Owed == RankComplete /\ ~underived /\ ~earned
          => \E p \in AdvSession : advReq[p].op \in {"derive", "earn"}

AdvInv == AdvTypeOK /\ Elects /\ Rewrites /\ Creditable /\ Owed

\* What the commit of another's op leaves of request q.
Left(q, op) ==
    /\ advReq'[q].op = advReq[q].op /\ advReq'[q].to = advReq[q].to
    /\ Puts(q)' \subseteq Puts(q)
    /\ ~advReq'[q].stale => /\ ~advReq[q].stale
                            /\ advReq[q].op = "credit" => completion' = completion
-----------------------------------------------------------------------------
(* Requests. *)

LEMMA AdvIdleType ==
    /\ AdvIdle \in AdvReq /\ AdvIdle.op = "idle"
    /\ \A l \in Leaf : AdvIdle.put[l] = "none"
BY DEF AdvIdle, AdvReq, NoRows, Election, Statuses

LEMMA GoesType ==
    \A op \in {"derive", "earn", "recompute"} : Goes(op) \in AdvReq /\ Goes(op).op = op
BY AdvIdleType DEF Goes, AdvReq

LEMMA BeginsStep ==
    ASSUME advReq \in [AdvSession -> AdvReq], requests \in 0..MaxRequests,
           NEW p \in AdvSession, NEW r \in AdvReq, AdvBegins(p, r)
    PROVE  /\ advReq' \in [AdvSession -> AdvReq] /\ requests' \in 0..MaxRequests
           /\ advReq[p] = AdvIdle /\ advReq'[p] = r
           /\ \A q \in AdvSession \ {p} : advReq'[q] = advReq[q]
BY AdvancementAssumption DEF AdvBegins

LEMMA GoesStep ==
    ASSUME advReq \in [AdvSession -> AdvReq],
           NEW p \in AdvSession, NEW op, NEW r \in AdvReq, AdvGoes(p, op, r)
    PROVE  /\ advReq' \in [AdvSession -> AdvReq] /\ requests' = requests
           /\ advReq[p].op = op /\ advReq'[p] = r
           /\ \A q \in AdvSession \ {p} :
                 /\ Left(q, op)
                 /\ op = "revoke" /\ advReq[q].op \in {"rewrite", "revoke"}
                      => Puts(q)' = Puts(q) \ Puts(p)
<1> DEFINE other(q) ==
      [advReq[q] EXCEPT
         !.stale = @ \/ (advReq[q].op = "credit" /\ completion' # completion),
         !.put = IF op = "revoke" /\ advReq[q].op \in {"rewrite", "revoke"}
                 THEN [l \in Leaf |-> IF l \in Puts(p) THEN "none" ELSE @[l]] ELSE @]
<1>1. /\ advReq[p].op = op /\ requests' = requests
      /\ advReq' = [q \in AdvSession |-> IF q = p THEN r ELSE other(q)]
  BY DEF AdvGoes
<1>2. ASSUME NEW q \in AdvSession
      PROVE  /\ other(q) \in AdvReq
             /\ other(q).op = advReq[q].op /\ other(q).to = advReq[q].to
             /\ other(q).stale = (advReq[q].stale
                                    \/ (advReq[q].op = "credit" /\ completion' # completion))
             /\ other(q).put = IF op = "revoke" /\ advReq[q].op \in {"rewrite", "revoke"}
                               THEN [l \in Leaf |-> IF l \in Puts(p) THEN "none"
                                                    ELSE advReq[q].put[l]]
                               ELSE advReq[q].put
  <2> DEFINE s == advReq[q].stale \/ (advReq[q].op = "credit" /\ completion' # completion)
             w == IF op = "revoke" /\ advReq[q].op \in {"rewrite", "revoke"}
                  THEN [l \in Leaf |-> IF l \in Puts(p) THEN "none" ELSE advReq[q].put[l]]
                  ELSE advReq[q].put
  <2>1. advReq[q] \in AdvReq
    OBVIOUS
  <2>2. s \in BOOLEAN
    BY <2>1 DEF AdvReq
  <2>3. w \in [Leaf -> Statuses]
    BY <2>1 DEF AdvReq, Statuses
  <2>4. other(q) = [advReq[q] EXCEPT !.stale = s, !.put = w]
    BY <2>1 DEF AdvReq
  <2> HIDE DEF other, s, w
  <2>5. other(q) \in AdvReq /\ other(q).op = advReq[q].op /\ other(q).to = advReq[q].to
        /\ other(q).stale = s /\ other(q).put = w
    BY <2>1, <2>2, <2>3, <2>4 DEF AdvReq
  <2> QED
    BY <2>5 DEF s, w
<1> HIDE DEF other
<1>3. advReq' \in [AdvSession -> AdvReq] /\ advReq'[p] = r
  BY <1>1, <1>2
<1>4. ASSUME NEW q \in AdvSession \ {p}
      PROVE  /\ Left(q, op)
             /\ op = "revoke" /\ advReq[q].op \in {"rewrite", "revoke"}
                  => Puts(q)' = Puts(q) \ Puts(p)
  <2>1. advReq'[q] = other(q)
    BY <1>1, <1>4
  <2>2. op = "revoke" /\ advReq[q].op \in {"rewrite", "revoke"}
          => Puts(q)' = Puts(q) \ Puts(p)
    <3> SUFFICES ASSUME op = "revoke", advReq[q].op \in {"rewrite", "revoke"}
                 PROVE  Puts(q)' = Puts(q) \ Puts(p)
      OBVIOUS
    <3>1. advReq'[q].put = [l \in Leaf |-> IF l \in Puts(p) THEN "none"
                                           ELSE advReq[q].put[l]]
      BY <1>2, <1>4, <2>1
    <3>2. \A l \in Leaf : advReq'[q].put[l] # "none"
                            <=> advReq[q].put[l] # "none" /\ l \notin Puts(p)
      BY <3>1
    <3> QED
      BY <3>2 DEF Puts
  <2>3. ~(op = "revoke" /\ advReq[q].op \in {"rewrite", "revoke"}) => Puts(q)' = Puts(q)
    <3> SUFFICES ASSUME ~(op = "revoke" /\ advReq[q].op \in {"rewrite", "revoke"})
                 PROVE  Puts(q)' = Puts(q)
      OBVIOUS
    <3>1. advReq'[q].put = advReq[q].put
      BY <1>2, <1>4, <2>1
    <3> QED
      BY <3>1 DEF Puts
  <2> QED
    BY <1>2, <1>4, <2>1, <2>2, <2>3 DEF Left
<1> QED
  BY <1>1, <1>3, <1>4

LEMMA ElectionTypes ==
    /\ \A v \in Version : {v} \in Election
    /\ elected \in Election => ElectedOrLatest \in Election /\ ElectedOrLatest # {}
BY AdvancementAssumption DEF Election, ElectedOrLatest

LEMMA WrittenType ==
    ASSUME AdvTypeOK, NEW p \in AdvSession
    PROVE  /\ Written(p) \in [Leaf -> Statuses]
           /\ \A l \in Leaf : Written(p)[l] = IF l \in Puts(p) THEN advReq[p].put[l]
                                                              ELSE completion[l]
<1>1. advReq[p].put \in [Leaf -> Statuses] /\ completion \in [Leaf -> Statuses]
  BY DEF AdvTypeOK, Statuses
<1> QED
  BY <1>1 DEF Written
-----------------------------------------------------------------------------
(* One lemma for each kind of step, about the whole invariant. *)

LEMMA AdvInvInit == AdvInit => AdvInv
<1> SUFFICES ASSUME AdvInit PROVE AdvInv
  OBVIOUS
<1>1. advReq \in [AdvSession -> AdvReq] /\ \A p \in AdvSession : advReq[p].op = "idle"
  BY AdvIdleType DEF AdvInit
<1>2. /\ elected = {} /\ elected \in Election /\ earned = FALSE /\ awarded = FALSE
      /\ completion \in [Leaf -> Statuses] /\ Recorded = {} /\ revoked = {} /\ due = {}
      /\ requests \in 0..MaxRequests /\ underived = FALSE
  BY AdvancementAssumption DEF AdvInit, Election, Statuses, Recorded
<1>3. AdvTypeOK
  BY <1>1, <1>2 DEF AdvTypeOK, AdvReq, Statuses
<1>4. ~RankComplete
  BY <1>2 DEF RankComplete, LeavesOf
<1> QED
  BY <1>1, <1>3, <1>4 DEF AdvInv, Elects, Rewrites, Creditable, Owed

\* A request that begins and changes nothing else.
LEMMA BeginInv ==
    ASSUME AdvInv, NEW p \in AdvSession, NEW r \in AdvReq, AdvBegins(p, r),
           UNCHANGED <<elected, earned, awarded, completion, revoked, due, underived>>,
           r.op \in {"record", "elect"} => r.to # {},
           r.op \in {"rewrite", "revoke"} => \A l \in Leaf : r.put[l] # "none" => l \in Recorded,
           r.op # "credit"
    PROVE  AdvInv'
<1>1. advReq \in [AdvSession -> AdvReq] /\ requests \in 0..MaxRequests
  BY DEF AdvInv, AdvTypeOK, AdvReq, Statuses
<1>2. /\ advReq' \in [AdvSession -> AdvReq] /\ requests' \in 0..MaxRequests
      /\ advReq[p].op = "idle" /\ advReq'[p] = r
      /\ \A q \in AdvSession \ {p} : advReq'[q] = advReq[q]
  BY <1>1, BeginsStep, AdvIdleType
<1>3. AdvTypeOK'
  BY <1>2 DEF AdvInv, AdvTypeOK, AdvReq, Statuses, Recorded
<1>4. Elects'
  BY <1>2 DEF AdvInv, Elects
<1>5. Rewrites'
  <2> SUFFICES ASSUME NEW q \in AdvSession, advReq'[q].op \in {"rewrite", "revoke"}
               PROVE  Puts(q)' \subseteq Recorded
    BY DEF Rewrites, Recorded
  <2>1. CASE q = p
    BY <1>2, <2>1 DEF Puts
  <2>2. CASE q # p
    BY <1>2, <2>2 DEF Puts, AdvInv, Rewrites
  <2> QED
    BY <2>1, <2>2
<1>6. Creditable'
  BY <1>2 DEF AdvInv, Creditable, Puts
<1>7. Owed'
  BY <1>2 DEF AdvInv, Owed, RankComplete
<1> QED
  BY <1>3, <1>4, <1>5, <1>6, <1>7 DEF AdvInv

\* A step of session p that takes no row away.
LEMMA CommitInv ==
    ASSUME AdvInv, NEW p \in AdvSession, NEW op, NEW r \in AdvReq, AdvGoes(p, op, r),
           r.op \notin {"record", "rewrite", "revoke", "elect"},
           r.op = "credit" => /\ r.to # {} /\ completion' = completion
                              /\ \A l \in revoked : r.put[l] = "none",
           elected' \in Election, earned' \in BOOLEAN, underived' \in BOOLEAN,
           completion' \in [Leaf -> Statuses],
           Recorded \subseteq Recorded',
           Recorded' # {} => elected' # {}, elected # {} => elected' # {},
           UNCHANGED <<awarded, revoked, due>>,
           Owed'
    PROVE  AdvInv'
<1>1. advReq \in [AdvSession -> AdvReq] /\ requests \in 0..MaxRequests
  BY DEF AdvInv, AdvTypeOK, AdvReq, Statuses
<1>2. /\ advReq' \in [AdvSession -> AdvReq] /\ requests' = requests
      /\ advReq[p].op = op /\ advReq'[p] = r
      /\ \A q \in AdvSession \ {p} : Left(q, op)
  BY <1>1, GoesStep
<1>3. AdvTypeOK'
  BY <1>1, <1>2 DEF AdvInv, AdvTypeOK, AdvReq, Statuses
<1>4. Elects'
  BY <1>2 DEF AdvInv, Elects, Left
<1>5. Rewrites'
  <2> SUFFICES ASSUME NEW q \in AdvSession, advReq'[q].op \in {"rewrite", "revoke"}
               PROVE  Puts(q)' \subseteq Recorded'
    BY DEF Rewrites
  <2>1. q # p
    BY <1>2
  <2>2. Puts(q)' \subseteq Puts(q) /\ advReq[q].op = advReq'[q].op
    BY <1>2, <2>1 DEF Left
  <2>3. Puts(q) \subseteq Recorded
    BY <2>2 DEF AdvInv, Rewrites
  <2> QED
    BY <2>2, <2>3
<1>6. Creditable'
  <2> SUFFICES ASSUME NEW q \in AdvSession, advReq'[q].op = "credit", ~advReq'[q].stale
               PROVE  Puts(q)' \cap revoked = {}
    BY DEF Creditable
  <2>1. CASE q = p
    BY <1>2, <2>1 DEF Puts
  <2>2. CASE q # p
    <3>1. Puts(q)' \subseteq Puts(q) /\ advReq[q].op = "credit" /\ ~advReq[q].stale
      BY <1>2, <2>2 DEF Left
    <3>2. Puts(q) \cap revoked = {}
      BY <3>1 DEF AdvInv, Creditable
    <3> QED
      BY <3>1, <3>2
  <2> QED
    BY <2>1, <2>2
<1> QED
  BY <1>3, <1>4, <1>5, <1>6 DEF AdvInv

LEMMA AdvInvStep == AdvInv /\ [AdvNext]_advVars => AdvInv'
<1> SUFFICES ASSUME AdvInv, [AdvNext]_advVars PROVE AdvInv'
  OBVIOUS
<1>0. /\ advReq \in [AdvSession -> AdvReq] /\ requests \in 0..MaxRequests
      /\ elected \in Election /\ earned \in BOOLEAN /\ underived \in BOOLEAN
      /\ completion \in [Leaf -> Statuses] /\ due \subseteq AutoLeaf
      /\ revoked \subseteq Leaf
      /\ AdvTypeOK /\ Elects /\ Rewrites /\ Creditable /\ Owed
  BY DEF AdvInv, AdvTypeOK, AdvReq, Statuses
<1>e. Recorded # {} \/ revoked # {} => elected # {}
  BY <1>0 DEF AdvTypeOK
<1>i. AdvIdle \in AdvReq /\ AdvIdle.op = "idle"
  BY AdvIdleType
\* Who is left to derive the earned date.
<1>o. ASSUME NEW p \in AdvSession, NEW op, NEW r \in AdvReq, AdvGoes(p, op, r),
             RankComplete' => RankComplete \/ underived' \/ r.op = "derive",
             underived => underived' \/ r.op = "derive", earned => earned' \/ underived',
             op \in {"derive", "earn"} => earned' \/ ~RankComplete' \/ r.op = "earn"
      PROVE  Owed'
  <2>1. /\ advReq[p].op = op /\ advReq'[p] = r
        /\ \A q \in AdvSession \ {p} : advReq'[q].op = advReq[q].op
    BY <1>0, <1>o, GoesStep DEF Left
  <2> SUFFICES ASSUME RankComplete', ~underived', ~earned'
               PROVE  \E q \in AdvSession : advReq'[q].op \in {"derive", "earn"}
    BY DEF Owed
  <2>2. CASE r.op \in {"derive", "earn"}
    BY <2>1, <2>2
  <2>3. CASE r.op \notin {"derive", "earn"}
    <3>1. RankComplete /\ ~underived /\ ~earned
      BY <1>o, <2>3
    <3>2. PICK q \in AdvSession : advReq[q].op \in {"derive", "earn"}
      BY <1>0, <3>1 DEF Owed
    <3>3. q # p
      BY <1>o, <2>1, <2>3, <3>2
    <3> QED
      BY <2>1, <3>2, <3>3
  <2> QED
    BY <2>2, <2>3
\* Rows a session inserts or rewrites.
<1>w. ASSUME NEW p \in AdvSession, completion' = Written(p)
      PROVE  /\ completion' \in [Leaf -> Statuses]
             /\ Recorded' = Recorded \cup Puts(p)
  BY <1>0, <1>w, WrittenType DEF Recorded, Puts
<1>1. ASSUME NEW p \in AdvSession, NEW l \in Leaf, NEW st \in AdvStatus,
             CreateCompletion(p, l, st)
      PROVE  AdvInv'
  <2> DEFINE op == IF completion[l] = "none" THEN "record" ELSE "rewrite"
             r == [AdvIdle EXCEPT !.op = op, !.put = [NoRows EXCEPT ![l] = st],
                                  !.to = {l[1]}, !.new = elected = {}]
  <2>1. {l[1]} \in Election /\ op \in {"record", "rewrite"}
    BY AdvancementAssumption, ElectionTypes
  <2>2. /\ [NoRows EXCEPT ![l] = st] \in [Leaf -> Statuses]
        /\ \A k \in Leaf : [NoRows EXCEPT ![l] = st][k] # "none" => k = l
    BY DEF NoRows, Statuses
  <2>3. AdvBegins(p, r)
    BY <1>1 DEF CreateCompletion
  <2>4. r \in AdvReq /\ r.op = op /\ r.to = {l[1]} /\ r.put = [NoRows EXCEPT ![l] = st]
    <3> HIDE DEF op
    <3> QED
      BY <1>i, <2>1, <2>2 DEF AdvReq
  <2>5. r.op = "rewrite" => l \in Recorded
    BY <2>4 DEF Recorded
  <2>6. UNCHANGED <<elected, earned, awarded, completion, revoked, due, underived>>
    BY <1>1 DEF CreateCompletion
  <2> HIDE DEF r, op
  <2> QED
    BY <2>1, <2>2, <2>3, <2>4, <2>5, <2>6, BeginInv
<1>2. ASSUME NEW p \in AdvSession, NEW l \in Leaf, NEW st \in AdvStatus,
             UpdateCompletion(p, l, st)
      PROVE  AdvInv'
  <2> DEFINE r == [AdvIdle EXCEPT !.op = "rewrite", !.put = [NoRows EXCEPT ![l] = st]]
  <2>1. /\ [NoRows EXCEPT ![l] = st] \in [Leaf -> Statuses]
        /\ \A k \in Leaf : [NoRows EXCEPT ![l] = st][k] # "none" => k = l
    BY DEF NoRows, Statuses
  <2>2. r \in AdvReq /\ r.op = "rewrite" /\ r.put = [NoRows EXCEPT ![l] = st]
    BY <1>i, <2>1 DEF AdvReq
  <2>3. /\ AdvBegins(p, r) /\ l \in Recorded
        /\ UNCHANGED <<elected, earned, awarded, completion, revoked, due, underived>>
    BY <1>2 DEF UpdateCompletion, Recorded
  <2> HIDE DEF r
  <2> QED
    BY <2>1, <2>2, <2>3, BeginInv
<1>3. ASSUME NEW p \in AdvSession, NEW l \in Leaf, RevokeCompletion(p, l) PROVE AdvInv'
  <2> DEFINE r == [AdvIdle EXCEPT !.op = "revoke", !.put = [NoRows EXCEPT ![l] = "approved"]]
  <2>1. /\ [NoRows EXCEPT ![l] = "approved"] \in [Leaf -> Statuses]
        /\ \A k \in Leaf : [NoRows EXCEPT ![l] = "approved"][k] # "none" => k = l
    BY DEF NoRows, Statuses, AdvStatus
  <2>2. r \in AdvReq /\ r.op = "revoke" /\ r.put = [NoRows EXCEPT ![l] = "approved"]
    BY <1>i, <2>1 DEF AdvReq
  <2>3. /\ AdvBegins(p, r) /\ l \in Recorded
        /\ UNCHANGED <<elected, earned, awarded, completion, revoked, due, underived>>
    BY <1>3 DEF RevokeCompletion, Recorded
  <2> HIDE DEF r
  <2> QED
    BY <2>1, <2>2, <2>3, BeginInv
\* A row that is created elects its version, and the date is derived next.
<1>4. ASSUME NEW p \in AdvSession, CommitCreate(p) PROVE AdvInv'
  <2>0. /\ advReq[p].op = "record" /\ advReq[p].to # {} /\ advReq[p].to \in Election
        /\ UNCHANGED <<earned, awarded, revoked, due>>
        /\ underived' = (underived /\ ~Inserts(p))
    BY <1>0, <1>4 DEF CommitCreate, AdvGoes, Elects, AdvReq
  <2>1. CASE Inserts(p)
    <3>1. /\ AdvGoes(p, "record", Goes("derive")) /\ Goes("derive") \in AdvReq
          /\ Goes("derive").op = "derive"
          /\ completion' = Written(p)
          /\ elected' = IF elected = {} THEN advReq[p].to ELSE elected
      BY <1>4, <2>1, GoesType DEF CommitCreate
    <3>2. completion' \in [Leaf -> Statuses] /\ Recorded \subseteq Recorded'
      BY <1>w, <3>1
    <3>3. Owed'
      BY <1>o, <2>0, <3>1
    <3> QED
      BY <1>0, <2>0, <3>1, <3>2, <3>3, CommitInv
  <2>2. CASE ~Inserts(p)
    <3>1. /\ AdvGoes(p, "record", AdvIdle) /\ completion' = completion /\ elected' = elected
          /\ underived' = underived
      BY <1>0, <1>4, <2>0, <2>2 DEF CommitCreate
    <3>2. Recorded' = Recorded /\ (RankComplete' <=> RankComplete)
      BY <3>1 DEF Recorded, RankComplete
    <3>3. Owed'
      BY <1>i, <1>o, <2>0, <3>1, <3>2
    <3> QED
      BY <1>0, <1>e, <1>i, <2>0, <3>1, <3>2, <3>3, CommitInv
  <2> QED
    BY <2>1, <2>2
<1>5. ASSUME NEW p \in AdvSession, CommitUpdate(p) PROVE AdvInv'
  <2>1. /\ AdvGoes(p, "rewrite", Goes("derive")) /\ Goes("derive") \in AdvReq
        /\ Goes("derive").op = "derive"
        /\ advReq[p].op = "rewrite" /\ completion' = Written(p) /\ underived' = FALSE
        /\ UNCHANGED <<elected, earned, awarded, revoked, due>>
    BY <1>5, GoesType DEF CommitUpdate, AdvGoes
  <2>2. completion' \in [Leaf -> Statuses] /\ Recorded' = Recorded \cup Puts(p)
    BY <1>w, <2>1
  <2>3. Recorded' = Recorded
    BY <1>0, <2>1, <2>2 DEF Rewrites
  <2>4. Owed'
    BY <1>o, <2>1
  <2> QED
    BY <1>0, <1>e, <2>1, <2>2, <2>3, <2>4, CommitInv
\* A revocation makes credit passes stale unless it revokes nothing any more.
<1>6. ASSUME NEW p \in AdvSession, CommitRevocation(p) PROVE AdvInv'
  <2>1. /\ AdvGoes(p, "revoke", AdvIdle) /\ advReq[p].op = "revoke"
        /\ completion' = [l \in Leaf |-> IF l \in Puts(p) THEN "none" ELSE completion[l]]
        /\ revoked' = revoked \cup Puts(p)
        /\ UNCHANGED <<elected, earned, awarded, due, underived>>
    BY <1>6 DEF CommitRevocation, AdvGoes
  <2>2. /\ advReq' \in [AdvSession -> AdvReq] /\ requests' = requests /\ advReq'[p] = AdvIdle
        /\ \A q \in AdvSession \ {p} :
              /\ Left(q, "revoke")
              /\ advReq[q].op \in {"rewrite", "revoke"} => Puts(q)' = Puts(q) \ Puts(p)
    BY <1>0, <1>i, <2>1, GoesStep
  <2>3. Puts(p) \subseteq Recorded
    BY <1>0, <2>1 DEF Rewrites
  <2>4. /\ completion' \in [Leaf -> Statuses] /\ Recorded' = Recorded \ Puts(p)
        /\ revoked' \subseteq Leaf
    BY <1>0, <2>1 DEF Recorded, Statuses, Puts
  <2>5. Puts(p) # {} => completion' # completion
    BY <2>3, <2>4 DEF Recorded
  <2>6. AdvTypeOK'
    BY <1>0, <1>e, <2>1, <2>2, <2>3, <2>4 DEF AdvTypeOK, AdvReq, Statuses
  <2>7. Elects'
    BY <1>0, <1>i, <2>2 DEF Elects, Left
  <2>8. Rewrites'
    <3> SUFFICES ASSUME NEW q \in AdvSession, advReq'[q].op \in {"rewrite", "revoke"}
                 PROVE  Puts(q)' \subseteq Recorded'
      BY DEF Rewrites
    <3>1. q # p
      BY <1>i, <2>2
    <3>2. advReq[q].op \in {"rewrite", "revoke"} /\ Puts(q)' = Puts(q) \ Puts(p)
      BY <2>2, <3>1 DEF Left
    <3>3. Puts(q) \subseteq Recorded
      BY <1>0, <3>2 DEF Rewrites
    <3> QED
      BY <2>4, <3>2, <3>3
  <2>9. Creditable'
    <3> SUFFICES ASSUME NEW q \in AdvSession, advReq'[q].op = "credit", ~advReq'[q].stale
                 PROVE  Puts(q)' \cap revoked' = {}
      BY DEF Creditable
    <3>1. q # p
      BY <1>i, <2>2
    <3>2. /\ advReq[q].op = "credit" /\ ~advReq[q].stale /\ Puts(q)' \subseteq Puts(q)
          /\ completion' = completion
      BY <2>2, <3>1 DEF Left
    <3>3. revoked' = revoked /\ Puts(q) \cap revoked = {}
      BY <1>0, <2>1, <2>5, <3>2 DEF Creditable
    <3> QED
      BY <3>2, <3>3
  <2>10. RankComplete' => RankComplete
    <3> SUFFICES ASSUME RankComplete' PROVE RankComplete
      OBVIOUS
    <3>1. elected' = elected /\ LeavesOf(elected)' = LeavesOf(elected)
      BY <2>1 DEF LeavesOf
    <3>2. \A l \in LeavesOf(elected) : completion'[l] = "approved"
      BY <3>1 DEF RankComplete
    <3>3. \A l \in LeavesOf(elected) : completion[l] = "approved"
      BY <2>1, <3>2 DEF LeavesOf
    <3> QED
      BY <3>1, <3>3 DEF RankComplete
  <2>11. Owed'
    BY <1>i, <1>o, <2>1, <2>10
  <2> QED
    BY <2>6, <2>7, <2>8, <2>9, <2>11 DEF AdvInv
<1>7. ASSUME NEW p \in AdvSession, DeriveEarnedDate(p) PROVE AdvInv'
  <2>1. PICK r \in {Goes("earn"), AdvIdle} :
          /\ AdvGoes(p, "derive", r)
          /\ RankComplete => r = Goes("earn") \/ earned
    BY <1>7 DEF DeriveEarnedDate
  <2>u. UNCHANGED <<elected, earned, awarded, completion, revoked, due, underived>>
    BY <1>7 DEF DeriveEarnedDate
  <2>2. /\ r \in AdvReq /\ r.op \in {"earn", "idle"}
        /\ RankComplete => r.op = "earn" \/ earned
    BY <1>i, <2>1, GoesType
  <2>3. Recorded' = Recorded /\ (RankComplete' <=> RankComplete)
    BY <2>u DEF Recorded, RankComplete
  <2>4. Owed'
    BY <1>o, <2>1, <2>u, <2>2, <2>3 DEF Owed
  <2> QED
    BY <1>0, <1>e, <2>1, <2>u, <2>2, <2>3, <2>4, CommitInv
<1>8. ASSUME NEW p \in AdvSession, CommitEarned(p) PROVE AdvInv'
  <2>1. /\ AdvGoes(p, "earn", Goes("recompute")) /\ earned' = TRUE
        /\ UNCHANGED <<elected, awarded, completion, revoked, due, underived>>
        /\ Goes("recompute") \in AdvReq /\ Goes("recompute").op = "recompute"
    BY <1>8, GoesType DEF CommitEarned
  <2>2. Recorded' = Recorded
    BY <2>1 DEF Recorded
  <2>3. Owed'
    BY <2>1 DEF Owed
  <2> QED
    BY <1>0, <1>e, <2>1, <2>2, <2>3, CommitInv
<1>9. ASSUME NEW l \in AutoLeaf, ThresholdMoves(l) PROVE AdvInv'
  <2>1. /\ due' \subseteq AutoLeaf
        /\ UNCHANGED <<elected, earned, awarded, completion, revoked, advReq, requests, underived>>
    BY <1>0, <1>9 DEF ThresholdMoves
  <2>2. AdvTypeOK'
    BY <1>0, <2>1 DEF AdvTypeOK, Recorded
  <2> QED
    BY <1>0, <2>1, <2>2 DEF AdvInv, Elects, Rewrites, Creditable, Owed, Puts, Recorded,
                            RankComplete, LeavesOf
<1>10. ASSUME NEW p \in AdvSession, Recompute(p) PROVE AdvInv'
  BY <1>10, GoesType, BeginInv DEF Recompute
\* What a pass grants has no row, revoked ones included.
<1>11. ASSUME NEW p \in AdvSession, ApplyAutoCredits(p) PROVE AdvInv'
  <2> DEFINE gain == Credits(Recorded \cup revoked)
             put == [l \in Leaf |-> IF l \in gain THEN "approved" ELSE "none"]
             r == IF earned \/ gain = {} THEN AdvIdle
                  ELSE [AdvIdle EXCEPT !.op = "credit", !.to = ElectedOrLatest,
                                       !.new = elected = {}, !.put = put]
  <2>1. /\ AdvGoes(p, "recompute", r)
        /\ UNCHANGED <<elected, earned, awarded, completion, revoked, due, underived>>
    BY <1>11 DEF ApplyAutoCredits, CreditsNow
  <2>2. gain \cap revoked = {} /\ put \in [Leaf -> Statuses]
    BY DEF Credits, Statuses, AdvStatus
  <2>3. r \in AdvReq /\ r.op \in {"idle", "credit"}
        /\ (r.op = "credit" => r.to # {} /\ \A l \in revoked : r.put[l] = "none")
    <3>1. CASE r = AdvIdle
      BY <1>i, <3>1
    <3>2. CASE r = [AdvIdle EXCEPT !.op = "credit", !.to = ElectedOrLatest,
                                   !.new = elected = {}, !.put = put]
      <4> HIDE DEF put, r
      <4>1. r \in AdvReq /\ r.op = "credit" /\ r.to = ElectedOrLatest /\ r.put = put
        BY <1>0, <1>i, <2>2, <3>2, ElectionTypes DEF AdvReq
      <4>2. \A l \in revoked : put[l] = "none"
        BY <1>0, <2>2 DEF put
      <4> QED
        BY <1>0, <4>1, <4>2, ElectionTypes
    <3> QED
      BY <3>1, <3>2
  <2>4. Recorded' = Recorded /\ (RankComplete' <=> RankComplete)
    BY <2>1 DEF Recorded, RankComplete
  <2> HIDE DEF r
  <2>5. Owed'
    BY <1>o, <2>1, <2>3, <2>4
  <2> QED
    BY <1>0, <1>e, <2>1, <2>3, <2>4, <2>5, CommitInv
<1>12. ASSUME NEW p \in AdvSession, CommitCredits(p) PROVE AdvInv'
  <2>0. /\ advReq[p].op = "credit" /\ advReq[p].to # {} /\ advReq[p].to \in Election
        /\ UNCHANGED <<earned, awarded, revoked, due>>
        /\ underived' = (underived \/ Inserts(p)) /\ underived' \in BOOLEAN
        /\ AdvGoes(p, "credit", AdvIdle)
    BY <1>0, <1>12 DEF CommitCredits, AdvGoes, Elects, AdvReq
  <2>1. CASE Inserts(p)
    <3>1. completion' = Written(p) /\ elected' = IF elected = {} THEN advReq[p].to ELSE elected
      BY <1>12, <2>1 DEF CommitCredits
    <3>2. completion' \in [Leaf -> Statuses] /\ Recorded \subseteq Recorded'
      BY <1>w, <3>1
    <3>3. Owed'
      BY <2>0, <2>1 DEF Owed
    <3> QED
      BY <1>0, <1>i, <2>0, <3>1, <3>2, <3>3, CommitInv
  <2>2. CASE ~Inserts(p)
    <3>1. completion' = completion /\ elected' = elected
      BY <1>12, <2>2 DEF CommitCredits
    <3>2. Recorded' = Recorded /\ (RankComplete' <=> RankComplete)
      BY <3>1 DEF Recorded, RankComplete
    <3>3. Owed'
      BY <1>i, <1>o, <2>0, <3>2
    <3> QED
      BY <1>0, <1>e, <1>i, <2>0, <3>1, <3>2, <3>3, CommitInv
  <2> QED
    BY <2>1, <2>2
<1>13. ASSUME NEW p \in AdvSession, NEW v \in Version, SetElection(p, v) PROVE AdvInv'
  <2> DEFINE old == LeavesOf(ElectedOrLatest) \cap Recorded
             target == {l \in Leaf : l[1] = v /\ \E o \in old : o[2] = l[2]}
                          \ (Recorded \cup revoked)
             put == IF {v} = ElectedOrLatest THEN NoRows
                    ELSE [l \in Leaf |-> IF l \in target
                            THEN completion[CHOOSE o \in old : o[2] = l[2]] ELSE "none"]
             r == [AdvIdle EXCEPT !.op = "elect", !.to = {v}, !.new = elected = {}, !.put = put]
  <2>1. \A l \in target : completion[CHOOSE o \in old : o[2] = l[2]] \in Statuses
    <3> SUFFICES ASSUME NEW l \in target
                 PROVE  (CHOOSE o \in old : o[2] = l[2]) \in old
      BY <1>0 DEF LeavesOf
    <3> QED
      OBVIOUS
  <2>2. put \in [Leaf -> Statuses]
    BY <2>1 DEF NoRows, Statuses
  <2>3. /\ AdvBegins(p, r)
        /\ UNCHANGED <<elected, earned, awarded, completion, revoked, due, underived>>
    BY <1>13 DEF SetElection
  <2> HIDE DEF put
  <2>4. r \in AdvReq /\ r.op = "elect" /\ r.to = {v}
    BY <1>i, <2>2, ElectionTypes DEF AdvReq
  <2> HIDE DEF r
  <2> QED
    BY <2>3, <2>4, BeginInv
<1>14. ASSUME NEW p \in AdvSession, CommitElection(p) PROVE AdvInv'
  <2>0. /\ advReq[p].op = "elect" /\ advReq[p].to # {} /\ advReq[p].to \in Election
        /\ UNCHANGED <<earned, awarded, revoked, due>>
        /\ underived' = (underived \/ Inserts(p)) /\ underived' \in BOOLEAN
        /\ AdvGoes(p, "elect", AdvIdle)
    BY <1>0, <1>14 DEF CommitElection, AdvGoes, Elects, AdvReq
  <2>1. CASE Inserts(p)
    <3>1. completion' = Written(p) /\ elected' = advReq[p].to
      BY <1>14, <2>1 DEF CommitElection
    <3>2. completion' \in [Leaf -> Statuses] /\ Recorded \subseteq Recorded'
      BY <1>w, <3>1
    <3>3. Owed'
      BY <2>0, <2>1 DEF Owed
    <3> QED
      BY <1>0, <1>i, <2>0, <3>1, <3>2, <3>3, CommitInv
  <2>2. CASE ~Inserts(p)
    <3>1. completion' = completion /\ elected' = elected
      BY <1>14, <2>2 DEF CommitElection
    <3>2. Recorded' = Recorded /\ (RankComplete' <=> RankComplete)
      BY <3>1 DEF Recorded, RankComplete
    <3>3. Owed'
      BY <1>i, <1>o, <2>0, <3>2
    <3> QED
      BY <1>0, <1>e, <1>i, <2>0, <3>1, <3>2, <3>3, CommitInv
  <2> QED
    BY <2>1, <2>2
<1>15. ASSUME NEW p \in AdvSession, NEW x \in BOOLEAN, NEW a \in BOOLEAN,
              UpdateRankProgress(p, x, a)
       PROVE  AdvInv'
  <2>1. PICK r \in AdvReq : AdvBegins(p, r) /\ r.op \in {"recompute", "idle"}
    BY <1>15, <1>i, GoesType DEF UpdateRankProgress
  <2>2. /\ elected' = ElectedOrLatest /\ elected' \in Election /\ elected' # {}
        /\ elected # {} => elected' = elected
        /\ earned' = x /\ awarded' = a
        /\ underived' = (underived \/ (earned /\ ~x)) /\ underived' \in BOOLEAN
        /\ UNCHANGED <<completion, revoked, due>>
    <3>1. elected' = ElectedOrLatest /\ elected' \in Election /\ elected' # {}
      BY <1>0, <1>15, ElectionTypes DEF UpdateRankProgress
    <3>2. elected # {} => elected' = elected
      BY <3>1 DEF ElectedOrLatest
    <3> QED
      BY <1>0, <1>15, <3>1, <3>2 DEF UpdateRankProgress
  <2>3. /\ advReq' \in [AdvSession -> AdvReq] /\ requests' \in 0..MaxRequests
        /\ advReq[p] = AdvIdle /\ advReq'[p] = r
        /\ \A q \in AdvSession \ {p} : advReq'[q] = advReq[q]
    BY <1>0, <2>1, BeginsStep
  <2>4. AdvTypeOK'
    BY <1>0, <2>2, <2>3 DEF AdvTypeOK, AdvReq, Statuses, Recorded
  <2>5. Elects' /\ Rewrites' /\ Creditable'
    BY <1>0, <2>1, <2>2, <2>3 DEF Elects, Rewrites, Creditable, Puts, Recorded
  <2>6. RankComplete' => RankComplete
    <3>1. CASE elected # {}
      BY <2>2, <3>1 DEF RankComplete, LeavesOf
    <3>2. CASE elected = {}
      <4>1. \A l \in Leaf : completion[l] = "none"
        BY <1>e, <3>2 DEF Recorded
      <4> QED
        BY <2>2, <4>1 DEF RankComplete, LeavesOf
    <3> QED
      BY <3>1, <3>2
  <2>7. Owed'
    <3> SUFFICES ASSUME RankComplete', ~underived', ~earned'
                 PROVE  \E q \in AdvSession : advReq'[q].op \in {"derive", "earn"}
      BY DEF Owed
    <3>1. RankComplete /\ ~underived /\ ~earned
      BY <1>0, <2>2, <2>6
    <3>2. PICK q \in AdvSession : advReq[q].op \in {"derive", "earn"}
      BY <1>0, <3>1 DEF Owed
    <3> QED
      BY <1>i, <2>3, <3>2
  <2> QED
    BY <2>4, <2>5, <2>7 DEF AdvInv
\* A request that dies leaves the date to another, or to nobody.
<1>16. ASSUME NEW p \in AdvSession, AdvDies(p) PROVE AdvInv'
  <2>1. /\ UNCHANGED <<elected, earned, awarded, completion, revoked, due, requests>>
        /\ underived' = (underived \/ (/\ Deriving(p) /\ RankComplete /\ ~earned
                                      /\ \A q \in AdvSession \ {p} : ~Deriving(q)))
        /\ advReq' \in [AdvSession -> AdvReq] /\ advReq'[p].op = "idle"
        /\ \A q \in AdvSession \ {p} : advReq'[q] = advReq[q]
    BY <1>0, <1>i, <1>16 DEF AdvDies
  <2>2. underived' \in BOOLEAN
    <3>1. CASE underived
      BY <2>1, <3>1
    <3>2. CASE ~underived
      BY <2>1, <3>2
    <3> QED
      BY <1>0, <3>1, <3>2
  <2>3. AdvTypeOK'
    BY <1>0, <2>1, <2>2 DEF AdvTypeOK, AdvReq, Statuses, Recorded
  <2>4. Elects' /\ Rewrites' /\ Creditable'
    BY <1>0, <2>1 DEF Elects, Rewrites, Creditable, Puts, Recorded
  <2>5. Owed'
    <3> SUFFICES ASSUME RankComplete', ~underived', ~earned'
                 PROVE  \E q \in AdvSession : advReq'[q].op \in {"derive", "earn"}
      BY DEF Owed
    <3>1. RankComplete /\ ~underived /\ ~earned
      BY <2>1 DEF RankComplete, LeavesOf
    <3>2. PICK q \in AdvSession : Deriving(q)
      BY <1>0, <3>1 DEF Owed, Deriving
    <3>3. PICK o \in AdvSession \ {p} : Deriving(o)
      BY <2>1, <3>1, <3>2
    <3> QED
      BY <2>1, <3>3 DEF Deriving
  <2> QED
    BY <2>3, <2>4, <2>5 DEF AdvInv
<1>17. CASE UNCHANGED advVars
  BY <1>0, <1>17 DEF advVars, AdvInv, AdvTypeOK, Elects, Rewrites, Creditable, Owed, Puts,
                     Recorded, RankComplete, LeavesOf
<1> QED
  BY <1>1, <1>2, <1>3, <1>4, <1>5, <1>6, <1>7, <1>8, <1>9, <1>10, <1>11, <1>12, <1>13, <1>14,
     <1>15, <1>16, <1>17 DEF AdvNext

LEMMA AdvAlways == AdvSpec => []AdvInv
<1>1. AdvInit => AdvInv
  BY AdvInvInit
<1>2. AdvInv /\ [AdvNext]_advVars => AdvInv'
  BY AdvInvStep
<1> QED
  BY <1>1, <1>2, PTL DEF AdvSpec
-----------------------------------------------------------------------------
(* Every reachable state is of the declared types, and rows are there only
   once a version is elected. *)
THEOREM AdvTypeCorrect == AdvSpec => []AdvTypeOK
<1>1. AdvInv => AdvTypeOK
  BY DEF AdvInv
<1> QED
  BY <1>1, AdvAlways, PTL

(* When nothing is under way a rank with all its requirements approved is
   earned, unless the last change was one that derives nothing or the only
   request that was to derive the date died after committing a completion. *)
THEOREM CompleteMeansEarned == AdvSpec => []EarnedWhenComplete
<1>1. AdvInv => EarnedWhenComplete
  BY AdvIdleType DEF AdvInv, Owed, EarnedWhenComplete
<1> QED
  BY <1>1, AdvAlways, PTL

\* The step behind RevokedNotCredited: only a pass's own commit ends it.
LEMMA CreditStep ==
    ASSUME AdvInv, [AdvNext]_advVars, NEW p \in AdvSession,
           advReq[p].op = "credit", ~advReq[p].stale, advReq'[p] = AdvIdle
    PROVE  \A l \in revoked : completion'[l] = completion[l]
<1>0. /\ advReq \in [AdvSession -> AdvReq] /\ completion \in [Leaf -> Statuses]
      /\ requests \in 0..MaxRequests /\ revoked \subseteq Leaf /\ AdvTypeOK /\ Creditable
  BY DEF AdvInv, AdvTypeOK, AdvReq, Statuses
<1>1. Puts(p) \cap revoked = {}
  BY <1>0 DEF Creditable
<1>c. (completion' = completion \/ completion' = Written(p))
        => \A l \in revoked : completion'[l] = completion[l]
  BY <1>0, <1>1, WrittenType
\* No other session's commit ends this pass.
<1>o. ASSUME NEW q \in AdvSession, NEW op, NEW r \in AdvReq, AdvGoes(q, op, r), op # "credit"
      PROVE  FALSE
  BY <1>0, <1>o, AdvIdleType, GoesStep DEF Left
<1>i. AdvIdle \in AdvReq /\ Goes("derive") \in AdvReq
  BY AdvIdleType, GoesType
<1>2. ASSUME NEW q \in AdvSession, CommitCreate(q) \/ CommitUpdate(q) \/ CommitRevocation(q)
                                     \/ CommitElection(q)
      PROVE  FALSE
  BY <1>2, <1>i, <1>o DEF CommitCreate, CommitUpdate, CommitRevocation, CommitElection
<1>3. ASSUME NEW q \in AdvSession, CommitCredits(q)
      PROVE  \A l \in revoked : completion'[l] = completion[l]
  <2>1. q = p
    BY <1>0, <1>3, <1>i, AdvIdleType, GoesStep DEF CommitCredits, Left
  <2> QED
    BY <1>3, <1>c, <2>1 DEF CommitCredits
<1>4. CASE \A q \in AdvSession : ~(CommitCreate(q) \/ CommitUpdate(q) \/ CommitRevocation(q)
                                    \/ CommitElection(q) \/ CommitCredits(q))
  <2>1. completion' = completion
    BY <1>4 DEF AdvNext, advVars, CreateCompletion, UpdateCompletion, RevokeCompletion,
       DeriveEarnedDate, CommitEarned, ThresholdMoves, Recompute, ApplyAutoCredits,
       CreditsNow, SetElection, UpdateRankProgress, AdvDies
  <2> QED
    BY <1>c, <2>1
<1> QED
  BY <1>2, <1>3, <1>4

(* No credit lands on a leaf with a revoked row, unless completions were
   written since the pass that grants it read them. *)
THEOREM RevokedStayRevoked == AdvSpec => RevokedNotCredited
<1>1. AdvInv /\ [AdvNext]_advVars
        => [\A p \in AdvSession :
               advReq[p].op = "credit" /\ ~advReq[p].stale /\ advReq'[p] = AdvIdle
               => \A l \in revoked : completion'[l] = completion[l]]_advVars
  BY CreditStep
<1> QED
  BY <1>1, AdvAlways, PTL DEF AdvSpec, RevokedNotCredited
=============================================================================
