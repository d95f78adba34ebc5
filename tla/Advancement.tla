---------------------------- MODULE Advancement -----------------------------
(***************************************************************************)
(* One member's work on one rank (backend/app/routers/advancement.py,      *)
(* core/advancement.py): completions of the leaf requirements, recorded,   *)
(* reported, decided and revoked by people, and credited from attendance;  *)
(* the version of the requirements that was elected; the earned and the    *)
(* awarded date.  A completion write commits, then derives the earned      *)
(* date, then computes the credits, a transaction each; the process or its *)
(* database can be lost between two of them.  Dates are left out: earned   *)
(* and awarded are there or not.                                           *)
(***************************************************************************)
EXTENDS Integers

CONSTANTS
    AdvSession,  \* requests being served at once
    Version,     \* requirement sets of the rank
    Latest,      \* the one in force now
    Leaf,        \* leaf requirements: a version and a stable key
    AutoLeaf,    \* those credited from attendance and badges
    MaxRequests  \* bound on requests

ASSUME AdvancementAssumption ==
    /\ Latest \in Version /\ AutoLeaf \subseteq Leaf /\ MaxRequests \in Nat
    /\ \A l \in Leaf : l[1] \in Version

VARIABLES
    elected,     \* the version elected, once there is a progress row
    earned, awarded,
    completion,  \* the status of each leaf's row that is not deleted
    revoked,     \* leaves with a revoked (deleted) row
    due,         \* leaves whose thresholds are met
    advReq,      \* what each session is doing, and the rows it is to write
    requests,    \* counter
    underived    \* history: nobody derives from what was written last

advVars == <<elected, earned, awarded, completion, revoked, due, advReq, requests, underived>>

AdvStatus == {"reported", "approved", "rejected"}
Election == {{}} \cup {{v} : v \in Version}
NoRows == [l \in Leaf |-> "none"]
AdvIdle == [op |-> "idle", put |-> NoRows, to |-> {}, new |-> FALSE, stale |-> FALSE]
LeavesOf(versions) == {l \in Leaf : l[1] \in versions}
ElectedOrLatest == IF elected = {} THEN {Latest} ELSE elected
Recorded == {l \in Leaf : completion[l] # "none"}
Puts(p) == {l \in Leaf : advReq[p].put[l] # "none"}

\* rank_is_complete: every leaf of the elected version is approved.
RankComplete ==
    LeavesOf(elected) # {} /\ \A l \in LeavesOf(elected) : completion[l] = "approved"

AdvBegins(p, r) ==
    /\ advReq[p] = AdvIdle /\ requests < MaxRequests /\ requests' = requests + 1
    /\ advReq' = [advReq EXCEPT ![p] = r]

\* What session p commits makes a credit pass that read before it stale, and
\* leaves nothing to write where it revoked the row.
AdvGoes(p, op, r) ==
    /\ advReq[p].op = op
    /\ advReq' = [q \in AdvSession |->
          IF q = p THEN r
          ELSE [advReq[q] EXCEPT
                  !.stale = @ \/ (advReq[q].op = "credit" /\ completion' # completion),
                  !.put = IF op = "revoke" /\ advReq[q].op \in {"rewrite", "revoke"}
                          THEN [l \in Leaf |-> IF l \in Puts(p) THEN "none" ELSE @[l]] ELSE @]]
    /\ UNCHANGED requests

Goes(op) == [AdvIdle EXCEPT !.op = op]

\* The unique indexes: no other row of a leaf, no other progress row.
Inserts(p) ==
    Puts(p) \cap Recorded = {} /\ (advReq[p].new => elected = {})

Written(p) == [l \in Leaf |-> IF l \in Puts(p) THEN advReq[p].put[l] ELSE completion[l]]
-----------------------------------------------------------------------------
(* Completions. *)

\* create_completion, by a recorder or by the member: the rank not awarded, the
\* leaf of the version elected, and no row but a rejected one, which is reused.
CreateCompletion(p, l, st) ==
    /\ ~awarded /\ l[1] \in elected \cup (IF elected = {} THEN Version ELSE {})
    /\ completion[l] \in {"none", "rejected"}
    /\ st = "approved" \/ (st = "reported" /\ ~earned)
    /\ AdvBegins(p, [AdvIdle EXCEPT !.op = IF completion[l] = "none" THEN "record" ELSE "rewrite",
                                    !.put = [NoRows EXCEPT ![l] = st],
                                    !.to = {l[1]}, !.new = elected = {}])
    /\ UNCHANGED <<elected, earned, awarded, completion, revoked, due, underived>>

\* Leaving the election to somebody else.
CommitCreateAlone(p) ==
    /\ completion' = IF Inserts(p) THEN Written(p) ELSE completion
    /\ underived' = (underived /\ ~Inserts(p))
    /\ UNCHANGED <<elected, earned, awarded, revoked, due>>
    /\ AdvGoes(p, "record", IF Inserts(p) THEN Goes("derive") ELSE AdvIdle)

CommitCreate(p) ==
    /\ completion' = IF Inserts(p) THEN Written(p) ELSE completion
    /\ elected' = IF Inserts(p) /\ elected = {} THEN advReq[p].to ELSE elected
    /\ underived' = (underived /\ ~Inserts(p))
    /\ UNCHANGED <<earned, awarded, revoked, due>>
    /\ AdvGoes(p, "record", IF Inserts(p) THEN Goes("derive") ELSE AdvIdle)

\* update_completion
UpdateCompletion(p, l, st) ==
    /\ ~awarded /\ completion[l] # "none"
    /\ AdvBegins(p, [AdvIdle EXCEPT !.op = "rewrite", !.put = [NoRows EXCEPT ![l] = st]])
    /\ UNCHANGED <<elected, earned, awarded, completion, revoked, due, underived>>

\* Deriving only from completions that were recorded anew.
CommitUpdateOnly(p) ==
    /\ completion' = Written(p)
    /\ underived' = FALSE
    /\ UNCHANGED <<elected, earned, awarded, revoked, due>>
    /\ AdvGoes(p, "rewrite", AdvIdle)

CommitUpdate(p) ==
    /\ completion' = Written(p)
    /\ underived' = FALSE
    /\ UNCHANGED <<elected, earned, awarded, revoked, due>>
    /\ AdvGoes(p, "rewrite", Goes("derive"))

RevokeCompletion(p, l) ==
    /\ ~awarded /\ completion[l] # "none"
    /\ AdvBegins(p, [AdvIdle EXCEPT !.op = "revoke", !.put = [NoRows EXCEPT ![l] = "approved"]])
    /\ UNCHANGED <<elected, earned, awarded, completion, revoked, due, underived>>

CommitRevocation(p) ==
    /\ completion' = [l \in Leaf |-> IF l \in Puts(p) THEN "none" ELSE completion[l]]
    /\ revoked' = revoked \cup Puts(p)
    /\ UNCHANGED <<elected, earned, awarded, due, underived>>
    /\ AdvGoes(p, "revoke", AdvIdle)

\* derive_earned_date: sets or moves it, never clears it; a date that is the
\* same already is not written, and the credits are left alone.
DeriveEarnedDate(p) ==
    /\ UNCHANGED <<elected, earned, awarded, completion, revoked, due, underived>>
    /\ \/ RankComplete /\ AdvGoes(p, "derive", Goes("earn"))
       \/ (RankComplete => earned) /\ AdvGoes(p, "derive", AdvIdle)

CommitEarned(p) ==
    /\ earned' = TRUE
    /\ UNCHANGED <<elected, awarded, completion, revoked, due, underived>>
    /\ AdvGoes(p, "earn", Goes("recompute"))

\* The process, or its connection, is lost between two commits: the completion
\* is recorded, and the date it would have earned is left to somebody else.
Deriving(p) == advReq[p].op \in {"derive", "earn"}
AdvDies(p) ==
    /\ advReq[p] # AdvIdle
    /\ advReq' = [advReq EXCEPT ![p] = AdvIdle]
    /\ underived' = (underived \/ (/\ Deriving(p) /\ RankComplete /\ ~earned
                                  /\ \A q \in AdvSession \ {p} : ~Deriving(q)))
    /\ UNCHANGED <<elected, earned, awarded, completion, revoked, due, requests>>
-----------------------------------------------------------------------------
(* Credits. *)

\* Thresholds are met, and are no longer, as attendance and badges change.
ThresholdMoves(l) ==
    /\ due' = IF l \in due THEN due \ {l} ELSE due \cup {l}
    /\ UNCHANGED <<elected, earned, awarded, completion, revoked, advReq, requests, underived>>

\* recompute_member_advancement, after attendance or a badge.
Recompute(p) ==
    /\ AdvBegins(p, Goes("recompute"))
    /\ UNCHANGED <<elected, earned, awarded, completion, revoked, due, underived>>

Credits(blocked) == (AutoLeaf \cap due \cap LeavesOf(ElectedOrLatest)) \ blocked
CreditsNow(p, blocked) ==
    /\ UNCHANGED <<elected, earned, awarded, completion, revoked, due, underived>>
    /\ AdvGoes(p, "recompute",
          IF earned \/ Credits(blocked) = {} THEN AdvIdle
          ELSE [AdvIdle EXCEPT !.op = "credit", !.to = ElectedOrLatest,
                               !.new = elected = {},
                               !.put = [l \in Leaf |-> IF l \in Credits(blocked) THEN "approved" ELSE "none"]])

\* Not lifting the soft-delete filter from the search for rows.
CreditUnrecorded(p) == CreditsNow(p, Recorded)

\* apply_auto_credits: any row, revoked ones included, blocks a credit.
ApplyAutoCredits(p) == CreditsNow(p, Recorded \cup revoked)

CommitCredits(p) ==
    /\ completion' = IF Inserts(p) THEN Written(p) ELSE completion
    /\ elected' = IF Inserts(p) /\ elected = {} THEN advReq[p].to ELSE elected
    /\ underived' = (underived \/ Inserts(p))
    /\ UNCHANGED <<earned, awarded, revoked, due>>
    /\ AdvGoes(p, "credit", AdvIdle)
-----------------------------------------------------------------------------
(* The rank's progress. *)

\* set_election: completions are copied by stable key where the new version has
\* no row, a revoked one included.  The awarded date is not looked at.
SetElection(p, v) ==
    LET old == LeavesOf(ElectedOrLatest) \cap Recorded
        target == {l \in Leaf : l[1] = v /\ \E o \in old : o[2] = l[2]} \ (Recorded \cup revoked)
    IN  /\ AdvBegins(p, [AdvIdle EXCEPT !.op = "elect", !.to = {v}, !.new = elected = {},
              !.put = IF {v} = ElectedOrLatest THEN NoRows
                      ELSE [l \in Leaf |-> IF l \in target
                              THEN completion[CHOOSE o \in old : o[2] = l[2]] ELSE "none"]])
        /\ UNCHANGED <<elected, earned, awarded, completion, revoked, due, underived>>

CommitElection(p) ==
    /\ completion' = IF Inserts(p) THEN Written(p) ELSE completion
    /\ elected' = IF Inserts(p) THEN advReq[p].to ELSE elected
    /\ underived' = (underived \/ Inserts(p))
    /\ UNCHANGED <<earned, awarded, revoked, due>>
    /\ AdvGoes(p, "elect", AdvIdle)

\* update_rank_progress sets what it is given, and computes the credits when
\* that includes the earned date.
UpdateRankProgress(p, e, a) ==
    /\ elected' = ElectedOrLatest
    /\ earned' = e /\ awarded' = a
    /\ underived' = (underived \/ (earned /\ ~e))
    /\ \/ AdvBegins(p, Goes("recompute"))
       \/ e = earned /\ AdvBegins(p, AdvIdle)
    /\ UNCHANGED <<completion, revoked, due>>
-----------------------------------------------------------------------------
AdvInit ==
    /\ elected = {} /\ earned = FALSE /\ awarded = FALSE
    /\ completion = [l \in Leaf |-> "none"] /\ revoked = {} /\ due = {}
    /\ advReq = [p \in AdvSession |-> AdvIdle]
    /\ requests = 0 /\ underived = FALSE

AdvNext ==
    \/ \E p \in AdvSession, l \in Leaf, st \in AdvStatus :
           CreateCompletion(p, l, st) \/ UpdateCompletion(p, l, st)
    \/ \E p \in AdvSession, l \in Leaf : RevokeCompletion(p, l)
    \/ \E p \in AdvSession : CommitCreate(p) \/ CommitUpdate(p) \/ CommitRevocation(p)
    \/ \E p \in AdvSession : DeriveEarnedDate(p) \/ CommitEarned(p) \/ AdvDies(p)
    \/ \E l \in AutoLeaf : ThresholdMoves(l)
    \/ \E p \in AdvSession : Recompute(p) \/ ApplyAutoCredits(p) \/ CommitCredits(p)
    \/ \E p \in AdvSession, v \in Version : SetElection(p, v)
    \/ \E p \in AdvSession : CommitElection(p)
    \/ \E p \in AdvSession, e, a \in BOOLEAN : UpdateRankProgress(p, e, a)

AdvSpec == AdvInit /\ [][AdvNext]_advVars
-----------------------------------------------------------------------------
(* Type correctness; rows are there only once a version is elected. *)
AdvTypeOK ==
    /\ elected \in Election
    /\ earned \in BOOLEAN /\ awarded \in BOOLEAN /\ underived \in BOOLEAN
    /\ completion \in [Leaf -> AdvStatus \cup {"none"}]
    /\ (Recorded \cup revoked # {} => elected # {})
    /\ revoked \subseteq Leaf /\ due \subseteq AutoLeaf /\ requests \in 0..MaxRequests
    /\ advReq \in [AdvSession ->
          [op : {"idle", "record", "rewrite", "revoke", "derive", "earn", "recompute",
                 "credit", "elect"},
           put : [Leaf -> AdvStatus \cup {"none"}], to : Election, new : BOOLEAN, stale : BOOLEAN]]

(* "Once every top-level requirement is complete", the rank is earned: when no
   request is under way and all leaves of the elected version are approved,
   through overlapping completions and decisions, the earned date is there.
   Excepted until the next completion write: the last change was one that
   derives nothing (an election, a credit), a chair cleared the date, or the
   only request that was to derive it died after the completion's commit. *)
EarnedWhenComplete ==
    RankComplete /\ (\A p \in AdvSession : advReq[p] = AdvIdle) /\ ~underived => earned

(* "Never re-create": no credit lands on a leaf with a revoked row, unless
   completions were written between the pass that grants it and its commit. *)
RevokedNotCredited ==
    [][\A p \in AdvSession :
          advReq[p].op = "credit" /\ ~advReq[p].stale /\ advReq'[p] = AdvIdle
          => \A l \in revoked : completion'[l] = completion[l]]_advVars
=============================================================================
