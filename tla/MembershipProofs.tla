--------------------------- MODULE MembershipProofs --------------------------
(***************************************************************************)
(* Proofs about Governance, Claims and GroupResolution, for any members,   *)
(* positions, terms, accounts, requests, groups and rules and any number   *)
(* of changes: the types, that no guarded request takes the last           *)
(* administrator, that a member is claimed with the last token minted for  *)
(* them only, that nobody claims a second member of the tenant, and that a *)
(* group resolves to the members its rules describe.                       *)
(*                                                                         *)
(* AdminRemains is about a commit, and the guard was asked before: the     *)
(* invariant carries what it found (Spared) through everybody else's       *)
(* steps, which either leave who administers alone or make it stale.  Both *)
(* promises about claims are made by a commit that trusts what its request *)
(* checked earlier: the invariant keeps what each open request found       *)
(* (Checked) as long as nothing crossed it, and remembers why a claimed    *)
(* member is not invited again (Settled).                                  *)
(*                                                                         *)
(* The walk through groups that name each other is right because of what   *)
(* its open calls hold between them: nobody who is not meant (Sound),      *)
(* everybody a followed reference means, off the second paths (Complete),  *)
(* and every visited group's own members, where groups only add up         *)
(* (Summed).  What is meant is a least fixed point: MeaningIsFixed.        *)
(***************************************************************************)
EXTENDS Governance, Claims, GroupResolution, TLAPS

-----------------------------------------------------------------------------
(* Administrators. *)

\* Requests are about terms of members there are, or were.
OfMembers ==
    \A p \in RoleSession : \A t \in roleReq[p].on : member[t[1]] # "absent"

\* What a guard found still holds until who administers changes.
Spared ==
    \A p \in RoleSession :
        ~roleReq[p].stale =>
            /\ roleReq[p].op \in {"end", "delete"} =>
                   roleReq[p].on \cap AdminTerms = {} \/ AdminTerms \ roleReq[p].on # {}
            /\ roleReq[p].op = "purge" => Admins \ roleReq[p].who # {}

GovInv == GovTypeOK /\ OfMembers /\ Spared

RoleReq == [op : {"idle", "end", "delete", "purge"}, on : SUBSET Term,
            who : SUBSET Adult, stale : BOOLEAN]
-----------------------------------------------------------------------------
LEMMA TermParts ==
    /\ \A t \in Term : t[1] \in Adult /\ t[2] \in Post
    /\ \A m \in Adult : <<m, System>> \in Term /\ <<m, System>>[1] = m
BY GovernanceAssumption

LEMMA RoleIdleType == RoleIdle \in RoleReq
BY DEF RoleIdle, RoleReq

LEMMA WatchedType ==
    ASSUME roleReq \in [RoleSession -> RoleReq], NEW q \in RoleSession
    PROVE  /\ Watched(q) \in RoleReq /\ Watched(q).op = roleReq[q].op
           /\ Watched(q).on = roleReq[q].on /\ Watched(q).who = roleReq[q].who
           /\ ~Watched(q).stale =>
                 /\ ~roleReq[q].stale
                 /\ roleReq[q].op # "idle" => AdminTerms' = AdminTerms
<1>1. roleReq[q] \in RoleReq
  OBVIOUS
<1>2. CASE roleReq[q].op # "idle" /\ AdminTerms' # AdminTerms
  BY <1>1, <1>2 DEF Watched, RoleReq
<1>3. CASE ~(roleReq[q].op # "idle" /\ AdminTerms' # AdminTerms)
  BY <1>1, <1>3 DEF Watched
<1> QED
  BY <1>2, <1>3

\* The request that a session's guard has let through, and a session that ends.
LEMMA RequestTypes ==
    ASSUME GovTypeOK, NEW p \in RoleSession
    PROVE  /\ \A r \in RoleReq : Checks(p, r) => roleReq' \in [RoleSession -> RoleReq]
           /\ Done(p) => roleReq' \in [RoleSession -> RoleReq]
           /\ AtOnce => /\ roleReq' \in [RoleSession -> RoleReq]
                        /\ changes' \in 0..MaxChanges
<1>1. roleReq \in [RoleSession -> RoleReq] /\ changes \in 0..MaxChanges
  BY DEF GovTypeOK, RoleReq
<1>2. \A r \in RoleReq : Checks(p, r) => roleReq' \in [RoleSession -> RoleReq]
  BY <1>1 DEF Checks
<1>3. Done(p) => roleReq' \in [RoleSession -> RoleReq]
  BY <1>1, RoleIdleType, WatchedType DEF Done
<1>4. AtOnce => roleReq' \in [RoleSession -> RoleReq]
  BY <1>1, WatchedType DEF AtOnce
<1>5. AtOnce => changes' \in 0..MaxChanges
  BY <1>1, GovernanceAssumption DEF AtOnce
<1> QED
  BY <1>2, <1>3, <1>4, <1>5

\* The records guarded requests check in with.
LEMMA CheckedTypes ==
    /\ \A on \in SUBSET Term :
          /\ [RoleIdle EXCEPT !.op = "end", !.on = on] \in RoleReq
          /\ [RoleIdle EXCEPT !.op = "delete", !.on = on] \in RoleReq
    /\ \A who \in SUBSET Adult : [RoleIdle EXCEPT !.op = "purge", !.who = who] \in RoleReq
BY DEF RoleIdle, RoleReq

LEMMA AdminTermsAreTerms ==
    /\ AdminTerms \subseteq Term
    /\ \A t \in AdminTerms : member[t[1]] = "here"
BY DEF AdminTerms
-----------------------------------------------------------------------------
(* Types. *)

LEMMA GovTypeInit == GovInit => GovTypeOK /\ OfMembers
<1> SUFFICES ASSUME GovInit PROVE GovTypeOK /\ OfMembers
  OBVIOUS
<1>1. member \in [Adult -> {"absent", "here", "deleted"}]
  BY DEF GovInit
<1>2. term \in [Term -> {"none", "live", "closing", "over", "deleted"}]
  BY DEF GovInit
<1>3. ASSUME NEW t \in Term, term[t] # "none" PROVE member[t[1]] # "absent"
  <2>1. t = <<Founder, System>>
    BY <1>3 DEF GovInit
  <2> QED
    BY <2>1, GovernanceAssumption DEF GovInit
<1>4. link \in [Post -> {"none", "live", "detached"}]
  BY DEF GovInit
<1>5. changes \in 0..MaxChanges
  BY GovernanceAssumption DEF GovInit
<1>6. roleReq \in [RoleSession -> RoleReq]
  BY RoleIdleType DEF GovInit
<1>7. OfMembers
  BY DEF GovInit, OfMembers, RoleIdle
<1> QED
  BY <1>1, <1>2, <1>3, <1>4, <1>5, <1>6, <1>7 DEF GovTypeOK, RoleReq

LEMMA GovTypeStep == GovTypeOK /\ OfMembers /\ [GovNext]_govVars => GovTypeOK' /\ OfMembers'
<1> SUFFICES ASSUME GovTypeOK, OfMembers, [GovNext]_govVars PROVE GovTypeOK' /\ OfMembers'
  OBVIOUS
<1> DEFINE State == {"none", "live", "closing", "over", "deleted"}
           Here == {"absent", "here", "deleted"}
           Map == {"none", "live", "detached"}
<1>0. /\ member \in [Adult -> Here] /\ term \in [Term -> State] /\ link \in [Post -> Map]
      /\ changes \in 0..MaxChanges /\ roleReq \in [RoleSession -> RoleReq]
      /\ \A t \in Term : term[t] # "none" => member[t[1]] # "absent"
  BY DEF GovTypeOK, RoleReq
<1>t. ASSUME member' \in [Adult -> Here], term' \in [Term -> State], link' \in [Post -> Map],
             changes' \in 0..MaxChanges, roleReq' \in [RoleSession -> RoleReq],
             \A t \in Term : term'[t] # "none" => member'[t[1]] # "absent"
      PROVE  GovTypeOK'
  BY <1>t DEF GovTypeOK, RoleReq
<1>c. ASSUME NEW p \in RoleSession, NEW r \in RoleReq, Checks(p, r),
             \A t \in r.on : member[t[1]] # "absent"
      PROVE  GovTypeOK' /\ OfMembers'
  <2>1. GovTypeOK'
    BY <1>0, <1>t, <1>c, RequestTypes DEF Checks
  <2>2. OfMembers'
    BY <1>0, <1>c DEF Checks, OfMembers
  <2> QED
    BY <2>1, <2>2
\* Whoever goes on keeps the terms it is about.
<1>d. ASSUME \A q \in RoleSession : roleReq'[q].on \subseteq roleReq[q].on,
             \A m \in Adult : member[m] # "absent" => member'[m] # "absent"
      PROVE  OfMembers'
  <2> SUFFICES ASSUME NEW q \in RoleSession, NEW t \in roleReq'[q].on
               PROVE  member'[t[1]] # "absent"
    BY DEF OfMembers
  <2>1. t \in roleReq[q].on /\ t \in Term
    BY <1>0, <1>d DEF RoleReq
  <2> QED
    BY <1>d, <2>1, TermParts DEF OfMembers
<1>e. ASSUME NEW p \in RoleSession, Done(p)
      PROVE  \A q \in RoleSession : roleReq'[q].on \subseteq roleReq[q].on
  BY <1>0, <1>e, WatchedType DEF Done, RoleIdle
<1>f. AtOnce => \A q \in RoleSession : roleReq'[q].on \subseteq roleReq[q].on
  BY <1>0, WatchedType DEF AtOnce
<1>1. ASSUME NEW p \in RoleSession, NEW t \in Term, EndTerm(p, t) \/ DeleteTerm(p, t)
      PROVE  GovTypeOK' /\ OfMembers'
  <2>1. member[t[1]] # "absent"
    BY <1>0, <1>1 DEF EndTerm, DeleteTerm, MayChange
  <2>2. PICK op \in {"end", "delete"} : Checks(p, [RoleIdle EXCEPT !.op = op, !.on = {t}])
    BY <1>1 DEF EndTerm, DeleteTerm
  <2>3. [RoleIdle EXCEPT !.op = op, !.on = {t}].on = {t}
    BY DEF RoleIdle
  <2>4. [RoleIdle EXCEPT !.op = op, !.on = {t}] \in RoleReq
    BY CheckedTypes
  <2> QED
    BY <1>c, <2>1, <2>2, <2>3, <2>4
<1>2. ASSUME NEW p \in RoleSession, NEW m \in Adult, RevokeTenantAdmin(p, m)
      PROVE  GovTypeOK' /\ OfMembers'
  <2> DEFINE on == {t \in AdminTerms : t[1] = m}
             r == [RoleIdle EXCEPT !.op = "delete", !.on = on]
  <2>1. r \in RoleReq /\ r.on = on /\ Checks(p, r)
    BY <1>2, CheckedTypes, AdminTermsAreTerms DEF RevokeTenantAdmin, RoleIdle
  <2>2. \A t \in on : member[t[1]] # "absent"
    BY AdminTermsAreTerms
  <2> HIDE DEF r, on
  <2> QED
    BY <1>c, <2>1, <2>2
<1>3. ASSUME NEW p \in RoleSession, NEW m \in Adult, PurgeMember(p, m)
      PROVE  GovTypeOK' /\ OfMembers'
  <2>1. /\ [RoleIdle EXCEPT !.op = "purge", !.who = {m}] \in RoleReq
        /\ [RoleIdle EXCEPT !.op = "purge", !.who = {m}].on = {}
    BY CheckedTypes DEF RoleIdle
  <2> QED
    BY <1>c, <1>3, <2>1 DEF PurgeMember
<1>4. ASSUME NEW p \in RoleSession, CommitEndTerm(p) \/ CommitDeleteTerms(p)
      PROVE  GovTypeOK' /\ OfMembers'
  <2>1. /\ Done(p) /\ UNCHANGED <<member, link, changes>> /\ term' \in [Term -> State]
        /\ \A t \in Term : term'[t] = term[t] \/ t \in roleReq[p].on
    BY <1>0, <1>4 DEF CommitEndTerm, CommitDeleteTerms
  <2>2. \A t \in Term : term'[t] # "none" => member'[t[1]] # "absent"
    BY <1>0, <2>1 DEF OfMembers
  <2> QED
    BY <1>0, <1>t, <1>d, <1>e, <2>1, <2>2, RequestTypes
<1>5. ASSUME NEW p \in RoleSession, CommitPurgeMember(p)
      PROVE  GovTypeOK' /\ OfMembers'
  <2>1. /\ Done(p) /\ UNCHANGED <<term, link, changes>> /\ member' \in [Adult -> Here]
        /\ \A m \in Adult : member[m] # "absent" => member'[m] # "absent"
    BY <1>0, <1>5 DEF CommitPurgeMember
  <2>2. \A t \in Term : term'[t] # "none" => member'[t[1]] # "absent"
    BY <1>0, <2>1, TermParts
  <2> QED
    BY <1>0, <1>t, <1>d, <1>e, <2>1, <2>2, RequestTypes
<1>6. ASSUME NEW t \in Term, NEW to \in {"live", "closing", "over"},
             term' = [term EXCEPT ![t] = to], UNCHANGED <<member, link>>, AtOnce,
             member[t[1]] # "absent"
      PROVE  GovTypeOK' /\ OfMembers'
  <2>1. /\ term' \in [Term -> State]
        /\ \A u \in Term : term'[u] # "none" => member'[u[1]] # "absent"
    BY <1>0, <1>6
  <2>2. changes' \in 0..MaxChanges /\ roleReq' \in [RoleSession -> RoleReq]
    BY <1>0, <1>6, WatchedType, GovernanceAssumption DEF AtOnce
  <2> QED
    BY <1>0, <1>t, <1>d, <1>f, <1>6, <2>1, <2>2
<1>7. ASSUME NEW t \in Term, AssignPosition(t) \/ EndDatePasses(t)
      PROVE  GovTypeOK' /\ OfMembers'
  BY <1>0, <1>6, <1>7 DEF AssignPosition, EndDatePasses, MayChange
<1>8. ASSUME NEW t \in Term, NEW to \in {"live", "closing"}, RescheduleTerm(t, to)
      PROVE  GovTypeOK' /\ OfMembers'
  BY <1>0, <1>6, <1>8 DEF RescheduleTerm, MayChange
<1>9. ASSUME NEW m \in Adult, DeleteMember(m) \/ InviteTenantAdmin(m)
      PROVE  GovTypeOK' /\ OfMembers'
  <2>1. /\ AtOnce /\ link' = link /\ member' \in [Adult -> Here] /\ term' \in [Term -> State]
        /\ \A k \in Adult : member[k] # "absent" => member'[k] # "absent"
        /\ \A t \in Term : term'[t] # "none" => member'[t[1]] # "absent"
    <3>1. CASE DeleteMember(m)
      BY <1>0, <3>1, TermParts DEF DeleteMember
    <3>2. CASE InviteTenantAdmin(m)
      <4>1. /\ AtOnce /\ link' = link /\ member' = [member EXCEPT ![m] = "here"]
            /\ term' = [term EXCEPT ![<<m, System>>] = "live"]
        BY <3>2 DEF InviteTenantAdmin
      <4>2. member' \in [Adult -> Here] /\ term' \in [Term -> State]
        BY <1>0, <4>1
      <4>3. \A k \in Adult : member[k] # "absent" => member'[k] # "absent"
        BY <1>0, <4>1
      <4>4. member'[m] = "here"
        BY <1>0, <4>1
      <4>5. ASSUME NEW t \in Term, term'[t] # "none" PROVE member'[t[1]] # "absent"
        <5>1. CASE t = <<m, System>>
          BY <4>4, <5>1
        <5>2. CASE t # <<m, System>>
          BY <1>0, <4>1, <4>3, <4>5, <5>2, TermParts
        <5> QED
          BY <5>1, <5>2
      <4> QED
        BY <4>1, <4>2, <4>3, <4>5
    <3> QED
      BY <1>9, <3>1, <3>2
  <2>2. changes' \in 0..MaxChanges /\ roleReq' \in [RoleSession -> RoleReq]
    BY <1>0, <2>1, WatchedType, GovernanceAssumption DEF AtOnce
  <2> QED
    BY <1>0, <1>t, <1>d, <1>f, <2>1, <2>2
<1>10. ASSUME NEW c \in Post, AttachFunctionalRole(c) \/ DetachFunctionalRole(c)
       PROVE  GovTypeOK' /\ OfMembers'
  <2>1. AtOnce /\ UNCHANGED <<member, term>> /\ link' \in [Post -> Map]
    BY <1>0, <1>10 DEF AttachFunctionalRole, DetachFunctionalRole
  <2>2. changes' \in 0..MaxChanges /\ roleReq' \in [RoleSession -> RoleReq]
    BY <1>0, <2>1, WatchedType, GovernanceAssumption DEF AtOnce
  <2> QED
    BY <1>0, <1>t, <1>d, <1>f, <2>1, <2>2
<1>11. CASE UNCHANGED govVars
  BY <1>11 DEF govVars, GovTypeOK, OfMembers
<1> QED
  BY <1>1, <1>2, <1>3, <1>4, <1>5, <1>7, <1>8, <1>9, <1>10, <1>11
     DEF GovNext, GuardedNext, UnguardedNext

(* The types hold throughout, and only members have terms. *)
THEOREM GovTypeCorrect == GovSpec => []GovTypeOK
<1>1. GovTypeOK /\ OfMembers /\ [GovNext]_govVars => (GovTypeOK /\ OfMembers)'
  BY GovTypeStep
<1> QED
  BY <1>1, GovTypeInit, PTL DEF GovSpec
-----------------------------------------------------------------------------
(* The last administrator. *)

SparedBy(r, terms) ==
    ~r.stale =>
        /\ r.op \in {"end", "delete"} => r.on \cap terms = {} \/ terms \ r.on # {}
        /\ r.op = "purge" => {t[1] : t \in terms} \ r.who # {}

LEMMA SparedOfEach ==
    /\ Spared <=> \A p \in RoleSession : SparedBy(roleReq[p], AdminTerms)
    /\ Spared' <=> \A p \in RoleSession : SparedBy(roleReq'[p], AdminTerms')
BY DEF Spared, SparedBy, Admins

\* Steps that let a guarded request in.
LEMMA SparedCheck ==
    ASSUME GovTypeOK, Spared, NEW p \in RoleSession, NEW r, Checks(p, r),
           SparedBy(r, AdminTerms)
    PROVE  Spared'
<1>1. AdminTerms' = AdminTerms
  BY DEF Checks, AdminTerms, Current
<1>2. \A q \in RoleSession : roleReq'[q] = IF q = p THEN r ELSE roleReq[q]
  BY DEF Checks, GovTypeOK
<1> QED
  BY <1>1, <1>2, SparedOfEach

\* Steps that make stale what they touch.
LEMMA SparedWatched ==
    ASSUME GovTypeOK, Spared,
           \A q \in RoleSession : roleReq'[q] = Watched(q) \/ roleReq'[q] = RoleIdle
    PROVE  Spared'
<1> SUFFICES ASSUME NEW q \in RoleSession PROVE SparedBy(roleReq'[q], AdminTerms')
  BY SparedOfEach
<1>1. CASE roleReq'[q] = RoleIdle
  BY <1>1 DEF SparedBy, RoleIdle
<1>2. CASE roleReq'[q] = Watched(q)
  <2>1. roleReq \in [RoleSession -> RoleReq]
    BY DEF GovTypeOK, RoleReq
  <2>2. CASE roleReq[q].op = "idle"
    BY <1>2, <2>1, <2>2, WatchedType DEF SparedBy
  <2>3. CASE roleReq[q].op # "idle"
    BY <1>2, <2>1, <2>3, WatchedType, SparedOfEach DEF SparedBy
  <2> QED
    BY <2>2, <2>3
<1> QED
  BY <1>1, <1>2

LEMMA SparedStep == GovTypeOK /\ Spared /\ [GovNext]_govVars => Spared'
<1> SUFFICES ASSUME GovTypeOK, Spared, [GovNext]_govVars PROVE Spared'
  OBVIOUS
<1>1. ASSUME NEW p \in RoleSession, NEW t \in Term, EndTerm(p, t) \/ DeleteTerm(p, t)
      PROVE  Spared'
  <2>1. PICK op \in {"end", "delete"} : Checks(p, [RoleIdle EXCEPT !.op = op, !.on = {t}])
    BY <1>1 DEF EndTerm, DeleteTerm
  <2>2. t \in AdminTerms => AdminTerms \ {t} # {}
    BY <1>1 DEF EndTerm, DeleteTerm, SparesLastAdmin
  <2>3. SparedBy([RoleIdle EXCEPT !.op = op, !.on = {t}], AdminTerms)
    BY <2>2 DEF SparedBy, RoleIdle
  <2> QED
    BY <2>1, <2>3, SparedCheck
<1>2. ASSUME NEW p \in RoleSession, NEW m \in Adult, RevokeTenantAdmin(p, m)
      PROVE  Spared'
  <2> DEFINE on == {t \in AdminTerms : t[1] = m}
             r == [RoleIdle EXCEPT !.op = "delete", !.on = on]
  <2>1. Checks(p, r)
    BY <1>2 DEF RevokeTenantAdmin
  <2>2. PICK u \in AdminTerms : u[1] # m
    BY <1>2 DEF RevokeTenantAdmin, Admins
  <2>3. AdminTerms \ on # {}
    BY <2>2
  <2>4. r.op = "delete" /\ r.on = on
    BY DEF RoleIdle
  <2>5. SparedBy(r, AdminTerms)
    BY <2>3, <2>4 DEF SparedBy
  <2> HIDE DEF r
  <2> QED
    BY <2>1, <2>5, SparedCheck
<1>3. ASSUME NEW p \in RoleSession, NEW m \in Adult, PurgeMember(p, m)
      PROVE  Spared'
  <2> DEFINE r == [RoleIdle EXCEPT !.op = "purge", !.who = {m}]
  <2>1. Checks(p, r) /\ r.op = "purge" /\ r.who = {m} /\ Admins \ {m} # {}
    BY <1>3 DEF PurgeMember, RoleIdle
  <2>2. SparedBy(r, AdminTerms)
    BY <2>1 DEF SparedBy, Admins
  <2> HIDE DEF r
  <2> QED
    BY <2>1, <2>2, SparedCheck
<1>4. ASSUME NEW p \in RoleSession, Done(p) PROVE Spared'
  BY <1>4, SparedWatched DEF Done
<1>5. ASSUME AtOnce PROVE Spared'
  BY <1>5, SparedWatched DEF AtOnce
<1>6. CASE UNCHANGED govVars
  BY <1>6 DEF govVars, Spared, Admins, AdminTerms, Current
<1> QED
  BY <1>1, <1>2, <1>3, <1>4, <1>5, <1>6
     DEF GovNext, GuardedNext, UnguardedNext, CommitEndTerm, CommitDeleteTerms,
         CommitPurgeMember, AssignPosition, RescheduleTerm, EndDatePasses, DeleteMember,
         InviteTenantAdmin, AttachFunctionalRole, DetachFunctionalRole

LEMMA GovInvInit == GovInit => GovInv
<1>1. GovInit => Spared
  BY DEF GovInit, Spared, RoleIdle
<1> QED
  BY <1>1, GovTypeInit DEF GovInv

LEMMA GovInvStep == GovInv /\ [GovNext]_govVars => GovInv'
BY GovTypeStep, SparedStep DEF GovInv

\* Terms that a guarded commit is not about stay as they are.
LEMMA CommitSpares ==
    ASSUME GovInv, NEW p \in RoleSession, ~roleReq[p].stale, Admins # {},
           CommitEndTerm(p) \/ CommitDeleteTerms(p) \/ CommitPurgeMember(p)
    PROVE  Admins' # {}
<1>1. SparedBy(roleReq[p], AdminTerms)
  BY SparedOfEach DEF GovInv
<1>2. CASE CommitEndTerm(p) \/ CommitDeleteTerms(p)
  <2>1. PICK t \in AdminTerms : t \notin roleReq[p].on
    <3>1. AdminTerms # {}
      BY DEF Admins
    <3> QED
      BY <1>1, <1>2, <3>1 DEF SparedBy, CommitEndTerm, CommitDeleteTerms
  <2>2. t \in AdminTerms'
    BY <1>2, <2>1 DEF CommitEndTerm, CommitDeleteTerms, AdminTerms, Current
  <2> QED
    BY <2>2 DEF Admins
<1>3. CASE CommitPurgeMember(p)
  <2>1. PICK t \in AdminTerms : t[1] \notin roleReq[p].who
    BY <1>1, <1>3 DEF SparedBy, CommitPurgeMember
  <2>2. t \in AdminTerms'
    BY <1>3, <2>1, TermParts DEF CommitPurgeMember, AdminTerms, Current
  <2> QED
    BY <2>2 DEF Admins
<1> QED
  BY <1>2, <1>3

LEMMA OnlyCommitsEnd ==
    ASSUME GovInv, [GovNext]_govVars, NEW p \in RoleSession,
           roleReq[p].op # "idle", roleReq'[p].op = "idle"
    PROVE  CommitEndTerm(p) \/ CommitDeleteTerms(p) \/ CommitPurgeMember(p)
<1>0. roleReq \in [RoleSession -> RoleReq]
  BY DEF GovInv, GovTypeOK, RoleReq
<1>1. ASSUME NEW q \in RoleSession, NEW r, Checks(q, r) PROVE FALSE
  BY <1>0, <1>1 DEF Checks, RoleIdle
<1>2. ASSUME NEW q \in RoleSession, Done(q) PROVE q = p
  BY <1>0, <1>2, WatchedType DEF Done
<1>3. ASSUME AtOnce PROVE FALSE
  BY <1>0, <1>3, WatchedType DEF AtOnce
<1>4. CASE UNCHANGED govVars
  BY <1>4 DEF govVars
<1>5. CASE UnguardedNext
  BY <1>3, <1>5 DEF UnguardedNext, AssignPosition, RescheduleTerm, EndDatePasses,
     DeleteMember, InviteTenantAdmin, AttachFunctionalRole, DetachFunctionalRole
<1>6. CASE GuardedNext
  <2>1. PICK q \in RoleSession :
           \/ \E t \in Term : EndTerm(q, t) \/ DeleteTerm(q, t)
           \/ \E m \in Adult : RevokeTenantAdmin(q, m) \/ PurgeMember(q, m)
           \/ CommitEndTerm(q) \/ CommitDeleteTerms(q) \/ CommitPurgeMember(q)
    BY <1>6 DEF GuardedNext
  <2>2. CommitEndTerm(q) \/ CommitDeleteTerms(q) \/ CommitPurgeMember(q)
    BY <1>1, <2>1 DEF EndTerm, DeleteTerm, RevokeTenantAdmin, PurgeMember
  <2>3. q = p
    BY <1>2, <2>2 DEF CommitEndTerm, CommitDeleteTerms, CommitPurgeMember
  <2> QED
    BY <2>2, <2>3
<1> QED
  BY <1>4, <1>5, <1>6 DEF GovNext

(* No guarded request takes the last administrator, unless who administers
   changed between its count and its commit, for any members, positions, terms,
   requests and changes. *)
THEOREM AnAdminRemains == GovSpec => AdminRemains
<1>1. GovInv /\ [GovNext]_govVars
         => [\A p \in RoleSession :
                /\ roleReq[p].op # "idle" /\ ~roleReq[p].stale
                /\ roleReq'[p].op = "idle" /\ Admins # {}
                => Admins' # {}]_govVars
  BY CommitSpares, OnlyCommitsEnd
<1> QED
  BY <1>1, GovInvInit, GovInvStep, PTL DEF GovSpec, AdminRemains
-----------------------------------------------------------------------------
(* Invitations and claims. *)

ClaimReq == [op : {"idle", "invite", "claim"}, on : SUBSET Seat, user : AtMostOne, token : Nat]

\* What an open request found still holds.
Checked ==
    \A p \in ClaimSession :
        /\ claimReq[p].op # "idle" =>
              \E m \in Seat : /\ claimReq[p].on = {m}
                              /\ roster[m] = "here" /\ account[m] = {}
        /\ claimReq[p].op = "claim" =>
              /\ claimReq[p].user # {}
              /\ \A m \in claimReq[p].on : jti[m] = claimReq[p].token
              /\ \A u \in claimReq[p].user : SeatsOf(u) = {}

\* The token a member honours is the last one; a claimed member has an
\* account or is gone; one who never came was never claimed.
Settled ==
    \A m \in Seat :
        /\ jti[m] \in {0, minted[m]}
        /\ via[m] \in {0, minted[m]}
        /\ via[m] # 0 => account[m] # {} \/ roster[m] = "gone"
        /\ roster[m] = "absent" => via[m] = 0

ClaimsInv == ClaimsTypeOK /\ (~crossed => Checked /\ Settled)
-----------------------------------------------------------------------------
LEMMA ClaimIdleType == ClaimIdle \in ClaimReq /\ ClaimIdle.op = "idle"
BY DEF ClaimIdle, ClaimReq, AtMostOne

\* The records requests check in with.
LEMMA CheckInTypes ==
    /\ \A m \in Seat :
          LET r == [ClaimIdle EXCEPT !.op = "invite", !.on = {m}]
          IN  r \in ClaimReq /\ r.op = "invite" /\ r.on = {m}
    /\ \A u \in Account, m \in Seat, t \in Nat :
          [op |-> "claim", on |-> {m}, user |-> {u}, token |-> t] \in ClaimReq
BY DEF ClaimIdle, ClaimReq, AtMostOne

LEMMA ClaimsTypeInit == ClaimsInit => ClaimsTypeOK
<1> SUFFICES ASSUME ClaimsInit PROVE ClaimsTypeOK
  OBVIOUS
<1>1. {} \in AtMostOne
  BY DEF AtMostOne
<1>2. claimReq \in [ClaimSession -> ClaimReq]
  BY ClaimIdleType DEF ClaimsInit
<1>3. /\ roster \in [Seat -> {"absent", "here", "gone"}] /\ account \in [Seat -> AtMostOne]
      /\ jti \in [Seat -> Nat] /\ via \in [Seat -> Nat] /\ minted \in [Seat -> Nat]
      /\ crossed \in BOOLEAN
  BY <1>1 DEF ClaimsInit
<1> QED
  BY <1>2, <1>3 DEF ClaimsTypeOK, ClaimReq

LEMMA ClaimsTypeStep == ClaimsTypeOK /\ [ClaimsNext]_claimsVars => ClaimsTypeOK'
<1> SUFFICES ASSUME ClaimsTypeOK, [ClaimsNext]_claimsVars PROVE ClaimsTypeOK'
  OBVIOUS
<1> DEFINE Here == {"absent", "here", "gone"}
<1>0. /\ roster \in [Seat -> Here] /\ account \in [Seat -> AtMostOne]
      /\ jti \in [Seat -> Nat] /\ via \in [Seat -> Nat] /\ minted \in [Seat -> Nat]
      /\ claimReq \in [ClaimSession -> ClaimReq] /\ crossed \in BOOLEAN
  BY DEF ClaimsTypeOK, ClaimReq
<1>t. ASSUME roster' \in [Seat -> Here], account' \in [Seat -> AtMostOne],
             jti' \in [Seat -> Nat], via' \in [Seat -> Nat], minted' \in [Seat -> Nat],
             claimReq' \in [ClaimSession -> ClaimReq], crossed' \in BOOLEAN
      PROVE  ClaimsTypeOK'
  BY <1>t DEF ClaimsTypeOK, ClaimReq
<1>b. ASSUME NEW p \in ClaimSession, NEW r \in ClaimReq, ClaimBegins(p, r) PROVE ClaimsTypeOK'
  BY <1>0, <1>b, <1>t DEF ClaimBegins
<1>e. ASSUME NEW p \in ClaimSession, NEW op, ClaimEnds(p, op)
      PROVE  claimReq' \in [ClaimSession -> ClaimReq] /\ crossed' \in BOOLEAN
  BY <1>0, <1>e, ClaimIdleType DEF ClaimEnds, Crosses
<1>n. {} \in AtMostOne
  BY DEF AtMostOne
<1>1. ASSUME NEW p \in ClaimSession, NEW m \in Seat, InviteMember(p, m) PROVE ClaimsTypeOK'
  BY <1>1, <1>b, CheckInTypes DEF InviteMember
<1>2. ASSUME NEW p \in ClaimSession, CommitInvite(p) PROVE ClaimsTypeOK'
  BY <1>0, <1>2, <1>t, <1>e DEF CommitInvite
<1>3. ASSUME NEW p \in ClaimSession, NEW u \in Account, NEW m \in Seat, NEW t \in 1..minted[m],
             ClaimMember(p, u, m, t)
      PROVE  ClaimsTypeOK'
  <2>1. t \in Nat
    BY <1>0
  <2> QED
    BY <1>3, <1>b, <2>1, CheckInTypes DEF ClaimMember, ClaimWith
<1>4. ASSUME NEW p \in ClaimSession, CommitClaim(p) PROVE ClaimsTypeOK'
  <2>1. claimReq[p].user \in AtMostOne /\ claimReq[p].token \in Nat
    BY <1>0 DEF ClaimReq
  <2> QED
    BY <1>0, <1>4, <2>1, <1>t, <1>e DEF CommitClaim
<1>5. ASSUME NEW u \in Account, AutolinkUnclaimed(u) PROVE ClaimsTypeOK'
  <2>1. {u} \in AtMostOne
    BY DEF AtMostOne
  <2> QED
    BY <1>0, <1>5, <2>1, <1>t DEF AutolinkUnclaimed, MembersChange, Crosses
<1>6. ASSUME NEW m \in Seat, AddToRoster(m) PROVE ClaimsTypeOK'
  BY <1>0, <1>6, <1>t DEF AddToRoster, MembersChange, Crosses
<1>7. ASSUME NEW m \in Seat, AddAdmin(m) PROVE ClaimsTypeOK'
  BY <1>0, <1>7, <1>t, ClaimsAssumption DEF AddAdmin, Crosses
<1>8. ASSUME NEW m \in Seat, DropFromRoster(m) PROVE ClaimsTypeOK'
  BY <1>0, <1>8, <1>t DEF DropFromRoster, MembersChange, Crosses
<1>9. ASSUME NEW m \in Seat, PurgeSeat(m) PROVE ClaimsTypeOK'
  BY <1>0, <1>9, <1>n, <1>t DEF PurgeSeat, MembersChange, Crosses
<1>10. CASE UNCHANGED claimsVars
  BY <1>10 DEF claimsVars, ClaimsTypeOK
<1> QED
  BY <1>1, <1>2, <1>3, <1>4, <1>5, <1>6, <1>7, <1>8, <1>9, <1>10 DEF ClaimsNext
-----------------------------------------------------------------------------
LEMMA ClaimsInvInit == ClaimsInit => ClaimsInv
<1> SUFFICES ASSUME ClaimsInit PROVE ClaimsInv
  OBVIOUS
<1>1. Checked
  BY ClaimIdleType DEF ClaimsInit, Checked
<1>2. Settled
  BY DEF ClaimsInit, Settled
<1> QED
  BY <1>1, <1>2, ClaimsTypeInit DEF ClaimsInv

\* A commit that crosses nobody leaves no other request open, and what its
\* own request found was true until now.
LEMMA Alone ==
    ASSUME ClaimsInv, NEW p \in ClaimSession, NEW op, op # "idle", ClaimEnds(p, op), ~crossed'
    PROVE  /\ ~crossed /\ Checked /\ Settled /\ claimReq[p].op = op
           /\ \A q \in ClaimSession : claimReq'[q].op = "idle"
<1>0. claimReq \in [ClaimSession -> ClaimReq] /\ crossed \in BOOLEAN
  BY DEF ClaimsInv, ClaimsTypeOK, ClaimReq
<1>1. ~crossed /\ claimReq[p].op = op /\ claimReq' = [claimReq EXCEPT ![p] = ClaimIdle]
      /\ \A q \in ClaimSession \ {p} : claimReq[q] = ClaimIdle
  BY <1>0 DEF ClaimEnds, Crosses
<1>2. Checked /\ Settled
  BY <1>1 DEF ClaimsInv
<1>3. \A q \in ClaimSession : claimReq'[q] = ClaimIdle
  BY <1>0, <1>1
<1> QED
  BY <1>1, <1>2, <1>3, ClaimIdleType

\* When members change by themselves and cross nobody, no request is open.
LEMMA NobodyAsks ==
    ASSUME ClaimsInv, Crosses(ClaimSession), UNCHANGED claimReq, ~crossed'
    PROVE  /\ ~crossed /\ Checked /\ Settled
           /\ \A q \in ClaimSession : claimReq'[q].op = "idle"
<1>1. ~crossed /\ \A q \in ClaimSession : claimReq[q] = ClaimIdle
  BY DEF Crosses
<1> QED
  BY <1>1, ClaimIdleType DEF ClaimsInv
-----------------------------------------------------------------------------
LEMMA ClaimsInvStep == ClaimsInv /\ [ClaimsNext]_claimsVars => ClaimsInv'
<1> SUFFICES ASSUME ClaimsInv, [ClaimsNext]_claimsVars PROVE ClaimsInv'
  OBVIOUS
<1>0. /\ roster \in [Seat -> {"absent", "here", "gone"}] /\ account \in [Seat -> AtMostOne]
      /\ jti \in [Seat -> Nat] /\ via \in [Seat -> Nat] /\ minted \in [Seat -> Nat]
      /\ claimReq \in [ClaimSession -> ClaimReq] /\ crossed \in BOOLEAN
  BY DEF ClaimsInv, ClaimsTypeOK, ClaimReq
<1>t. ClaimsTypeOK'
  BY ClaimsTypeStep DEF ClaimsInv
<1> SUFFICES ASSUME ~crossed' PROVE Checked' /\ Settled'
  BY <1>t DEF ClaimsInv
<1>i. (\A q \in ClaimSession : claimReq'[q].op = "idle") => Checked'
  BY DEF Checked
<1>b. ASSUME NEW p \in ClaimSession, NEW r \in ClaimReq, ClaimBegins(p, r),
             NEW m \in Seat, r.on = {m}, roster[m] = "here", account[m] = {},
             r.op = "claim" => r.user # {} /\ jti[m] = r.token /\ \A u \in r.user : SeatsOf(u) = {}
      PROVE  Checked' /\ Settled'
  <2>1. Checked /\ Settled
    BY <1>b DEF ClaimBegins, ClaimsInv
  <2>2. Settled'
    BY <1>b, <2>1 DEF ClaimBegins, Settled
  <2>3. \A q \in ClaimSession : claimReq'[q] = IF q = p THEN r ELSE claimReq[q]
    BY <1>0, <1>b DEF ClaimBegins
  <2>4. \A u : SeatsOf(u)' = SeatsOf(u)
    BY <1>b DEF ClaimBegins, SeatsOf
  <2>5. roster' = roster /\ account' = account /\ jti' = jti
    BY <1>b DEF ClaimBegins
  <2>6. Checked'
    <3> SUFFICES ASSUME NEW q \in ClaimSession
                 PROVE  /\ claimReq'[q].op # "idle" =>
                             \E n \in Seat : /\ claimReq'[q].on = {n}
                                             /\ roster'[n] = "here" /\ account'[n] = {}
                        /\ claimReq'[q].op = "claim" =>
                             /\ claimReq'[q].user # {}
                             /\ \A n \in claimReq'[q].on : jti'[n] = claimReq'[q].token
                             /\ \A u \in claimReq'[q].user : SeatsOf(u)' = {}
      BY DEF Checked
    <3>1. CASE q = p
      BY <1>b, <2>3, <2>4, <2>5, <3>1
    <3>2. CASE q # p
      BY <2>1, <2>3, <2>4, <2>5, <3>2 DEF Checked
    <3> QED
      BY <3>1, <3>2
  <2> QED
    BY <2>2, <2>6
<1>1. ASSUME NEW p \in ClaimSession, NEW m \in Seat, InviteMember(p, m) PROVE Checked' /\ Settled'
  BY <1>1, <1>b, CheckInTypes DEF InviteMember
<1>2. ASSUME NEW p \in ClaimSession, CommitInvite(p) PROVE Checked' /\ Settled'
  <2>1. /\ Checked /\ Settled /\ claimReq[p].op = "invite"
        /\ \A q \in ClaimSession : claimReq'[q].op = "idle"
    BY <1>2, Alone DEF CommitInvite
  <2>2. PICK m \in Seat : claimReq[p].on = {m} /\ roster[m] = "here" /\ account[m] = {}
    BY <2>1 DEF Checked
  <2>3. /\ \A n \in Seat : /\ minted'[n] = IF n = m THEN minted[n] + 1 ELSE minted[n]
                           /\ jti'[n] = IF n = m THEN minted[n] + 1 ELSE jti[n]
        /\ roster' = roster /\ account' = account /\ via' = via
    BY <1>0, <1>2, <2>2 DEF CommitInvite
  <2>4. via[m] = 0
    BY <2>1, <2>2 DEF Settled
  <2>5. Settled'
    BY <1>0, <2>1, <2>3, <2>4 DEF Settled
  <2> QED
    BY <1>i, <2>1, <2>5
<1>3. ASSUME NEW p \in ClaimSession, NEW u \in Account, NEW m \in Seat, NEW t \in 1..minted[m],
             ClaimMember(p, u, m, t)
      PROVE  Checked' /\ Settled'
  <2> DEFINE r == [op |-> "claim", on |-> {m}, user |-> {u}, token |-> t]
  <2>1. t \in Nat
    BY <1>0
  <2>2. r \in ClaimReq /\ r.on = {m} /\ r.user = {u} /\ r.token = t
    BY <2>1, CheckInTypes
  <2>3. ClaimBegins(p, r)
    BY <1>3 DEF ClaimMember, ClaimWith
  <2>4. roster[m] = "here" /\ account[m] = {} /\ jti[m] = t /\ SeatsOf(u) = {}
    BY <1>3 DEF ClaimMember
  <2> HIDE DEF r
  <2> QED
    BY <1>b, <2>2, <2>3, <2>4
<1>4. ASSUME NEW p \in ClaimSession, CommitClaim(p) PROVE Checked' /\ Settled'
  <2>1. /\ Checked /\ Settled /\ claimReq[p].op = "claim"
        /\ \A q \in ClaimSession : claimReq'[q].op = "idle"
    BY <1>4, Alone DEF CommitClaim
  <2>2. PICK m \in Seat : claimReq[p].on = {m} /\ roster[m] = "here" /\ account[m] = {}
    BY <2>1 DEF Checked
  <2>3. jti[m] = claimReq[p].token
    BY <2>1, <2>2 DEF Checked
  <2>4. /\ \A n \in Seat : /\ account'[n] = IF n = m THEN claimReq[p].user ELSE account[n]
                           /\ jti'[n] = IF n = m THEN 0 ELSE jti[n]
                           /\ via'[n] = IF n = m THEN jti[m] ELSE via[n]
        /\ roster' = roster /\ minted' = minted
    BY <1>0, <1>4, <2>2, <2>3 DEF CommitClaim
  <2>5. claimReq[p].user # {}
    BY <2>1 DEF Checked
  <2>6. Settled'
    BY <2>1, <2>2, <2>4, <2>5 DEF Settled
  <2> QED
    BY <1>i, <2>1, <2>6
<1>5. ASSUME NEW u \in Account, AutolinkUnclaimed(u) PROVE Checked' /\ Settled'
  <2>1. Settled /\ \A q \in ClaimSession : claimReq'[q].op = "idle"
    BY <1>5, NobodyAsks DEF AutolinkUnclaimed, MembersChange
  <2>2. /\ \A n \in Seat : account'[n] = account[n] \/ account'[n] = {u}
        /\ roster' = roster /\ minted' = minted /\ jti' = jti /\ via' = via
    BY <1>0, <1>5 DEF AutolinkUnclaimed, MembersChange
  <2>3. Settled'
    BY <2>1, <2>2 DEF Settled
  <2> QED
    BY <1>i, <2>1, <2>3
<1>6. ASSUME NEW m \in Seat, AddToRoster(m) PROVE Checked' /\ Settled'
  <2>1. Settled /\ \A q \in ClaimSession : claimReq'[q].op = "idle"
    BY <1>6, NobodyAsks DEF AddToRoster, MembersChange
  <2>2. Settled'
    BY <1>0, <1>6, <2>1 DEF AddToRoster, MembersChange, Settled
  <2> QED
    BY <1>i, <2>1, <2>2
<1>7. ASSUME NEW m \in Seat, AddAdmin(m) PROVE Checked' /\ Settled'
  <2>1. Settled /\ \A q \in ClaimSession : claimReq'[q].op = "idle"
    BY <1>7, NobodyAsks DEF AddAdmin
  <2>2. Settled'
    BY <1>0, <1>7, <2>1 DEF AddAdmin, Settled
  <2> QED
    BY <1>i, <2>1, <2>2
<1>8. ASSUME NEW m \in Seat, DropFromRoster(m) PROVE Checked' /\ Settled'
  <2>1. Settled /\ \A q \in ClaimSession : claimReq'[q].op = "idle"
    BY <1>8, NobodyAsks DEF DropFromRoster, MembersChange
  <2>2. Settled'
    BY <1>0, <1>8, <2>1 DEF DropFromRoster, MembersChange, Settled
  <2> QED
    BY <1>i, <2>1, <2>2
<1>9. ASSUME NEW m \in Seat, PurgeSeat(m) PROVE Checked' /\ Settled'
  <2>1. Settled /\ \A q \in ClaimSession : claimReq'[q].op = "idle"
    BY <1>9, NobodyAsks DEF PurgeSeat, MembersChange
  <2>2. Settled'
    BY <1>0, <1>9, <2>1 DEF PurgeSeat, MembersChange, Settled
  <2> QED
    BY <1>i, <2>1, <2>2
<1>10. CASE UNCHANGED claimsVars
  <2>1. Checked /\ Settled
    BY <1>10 DEF ClaimsInv, claimsVars
  <2> QED
    BY <1>10, <2>1 DEF claimsVars, Checked, Settled, SeatsOf
<1> QED
  BY <1>1, <1>2, <1>3, <1>4, <1>5, <1>6, <1>7, <1>8, <1>9, <1>10 DEF ClaimsNext

LEMMA ClaimsAlways == ClaimsSpec => []ClaimsInv
<1>1. ClaimsInit => ClaimsInv
  BY ClaimsInvInit
<1>2. ClaimsInv /\ [ClaimsNext]_claimsVars => ClaimsInv'
  BY ClaimsInvStep
<1> QED
  BY <1>1, <1>2, PTL DEF ClaimsSpec
-----------------------------------------------------------------------------
(* Every reachable state is of the declared types, whatever the order of
   invitations, claims, sign-ins and changes of the roster. *)
THEOREM ClaimsTypeCorrect == ClaimsSpec => []ClaimsTypeOK
<1>1. ClaimsInv => ClaimsTypeOK
  BY DEF ClaimsInv
<1> QED
  BY <1>1, ClaimsAlways, PTL

(* Members are claimed with the last token minted for them only, as long as
   no change crossed a request. *)
THEOREM ClaimedOnLastToken == ClaimsSpec => []SeatOnLastToken
<1>1. ClaimsInv => SeatOnLastToken
  BY DEF ClaimsInv, Settled, SeatOnLastToken
<1> QED
  BY <1>1, ClaimsAlways, PTL

\* The step behind OneSeatClaimed: only a claim writes via, and the account
\* had no member when the claim was checked.
LEMMA OneSeatStep ==
    ASSUME ClaimsInv, [ClaimsNext]_claimsVars, ~crossed', NEW m \in Seat, via'[m] # via[m]
    PROVE  \A u \in account'[m] : SeatsOf(u)' = {m}
<1>0. /\ account \in [Seat -> AtMostOne] /\ via \in [Seat -> Nat]
      /\ claimReq \in [ClaimSession -> ClaimReq]
  BY DEF ClaimsInv, ClaimsTypeOK, ClaimReq
<1>1. PICK p \in ClaimSession : CommitClaim(p)
  <2>1. CASE UNCHANGED claimsVars
    BY <2>1 DEF claimsVars
  <2>2. CASE ClaimsNext
    BY <2>2 DEF ClaimsNext, InviteMember, ClaimBegins, CommitInvite, ClaimMember, ClaimWith,
                AutolinkUnclaimed, AddToRoster, AddAdmin, DropFromRoster, PurgeSeat
  <2> QED
    BY <2>1, <2>2
<1>2. Checked /\ claimReq[p].op = "claim"
  BY <1>1, Alone DEF CommitClaim
<1>3. PICK n \in Seat : claimReq[p].on = {n} /\ roster[n] = "here"
  BY <1>2 DEF Checked
<1>4. /\ \A k \in Seat : account'[k] = IF k = n THEN claimReq[p].user ELSE account[k]
      /\ \A k \in Seat : k # n => via'[k] = via[k]
      /\ roster' = roster
  BY <1>0, <1>1, <1>3 DEF CommitClaim
<1>5. m = n
  BY <1>4
<1>6. ASSUME NEW u \in account'[m] PROVE SeatsOf(u)' = {m}
  <2>1. u \in claimReq[p].user
    BY <1>4, <1>5, <1>6
  <2>2. SeatsOf(u) = {}
    BY <1>2, <2>1 DEF Checked
  <2>3. \A k \in Seat \ {m} : ~(roster'[k] = "here" /\ u \in account'[k])
    BY <1>4, <1>5, <2>2 DEF SeatsOf
  <2> QED
    BY <1>3, <1>4, <1>5, <1>6, <2>3 DEF SeatsOf
<1> QED
  BY <1>6

(* No account claims a second member of the tenant, whatever linked the
   first, as long as no change crossed a request. *)
THEOREM OneSeatIsClaimed == ClaimsSpec => OneSeatClaimed
<1>1. ClaimsInv /\ [ClaimsNext]_claimsVars
        => [\A m \in Seat : ~crossed' /\ via'[m] # via[m]
              => \A u \in account'[m] : SeatsOf(u)' = {m}]_claimsVars
  BY OneSeatStep
<1> QED
  BY <1>1, ClaimsAlways, PTL DEF ClaimsSpec, OneSeatClaimed
-----------------------------------------------------------------------------
(* Groups. *)

Walk == [phase : {"going", "done"}, root : Group, stack : Seq(Group), seen : SUBSET Group,
         left : [Group -> SUBSET Group], found : [Group -> SUBSET Person]]

GroupsTypes ==
    /\ groupRow \in [Group -> [gone : BOOLEAN, all : BOOLEAN, parents : BOOLEAN]]
    /\ membership \in [Group \X Person -> {"none", "here", "removed"}]
    /\ traitRule \in [Group -> SUBSET DOMAIN Trait]
    /\ refRule \in [Group -> SUBSET Group]
    /\ people \subseteq Person
    /\ groupEdits \in Nat
    /\ walk = NoWalk \/ walk \in Walk

\* The groups visited that are not deleted, and the references of one that
\* were followed.
Visited == {h \in walk.seen : ~groupRow[h].gone}
Followed(k) == Named(k) \ walk.left[k]
OnStack(k) == \E i \in 1..Len(walk.stack) : walk.stack[i] = k

\* The stack is a path of references from the group asked for, without
\* repetitions, and only what is on it has references left.
Calls ==
    /\ Len(walk.stack) > 0 /\ walk.stack[1] = walk.root
    /\ \A i \in 1..Len(walk.stack) : walk.stack[i] \in Visited
    /\ \A i, j \in 1..Len(walk.stack) : walk.stack[i] = walk.stack[j] => i = j
    /\ \A i \in 1..Len(walk.stack) - 1 : walk.stack[i + 1] \in Followed(walk.stack[i])
    /\ \A k \in Group : walk.left[k] \subseteq refRule[k] /\ (walk.left[k] # {} => OnStack(k))

\* What was visited is reached, along references that were followed.
Explored ==
    /\ Visited \subseteq Reached(walk.root)
    /\ \A k \in Visited : Followed(k) \subseteq Visited
    /\ \A h \in Visited \ {walk.root} : \E k \in Visited : h \in Followed(k)

Sound == \A k \in Group : walk.found[k] \subseteq Referred(k, Meaning) \cap people

\* Off the second paths, what a followed reference means has arrived, or its
\* call is the next on the stack.
Complete ==
    OnePath(walk.root) =>
        \A i \in 1..Len(walk.stack) : \A h \in Followed(walk.stack[i]) :
            \/ i < Len(walk.stack) /\ h = walk.stack[i + 1]
            \/ Meaning[h] \subseteq walk.found[walk.stack[i]]

\* Where groups only add up, everybody who is in a visited group of its own
\* has arrived somewhere on the stack.
Own(g) == Combined(g, {})
Summed ==
    Additive(walk.root) =>
        \A h \in Visited :
            OnStack(h) \/ \E i \in 1..Len(walk.stack) : Own(h) \subseteq walk.found[walk.stack[i]]

WalkInv == walk.phase = "going" => Calls /\ Explored /\ Sound /\ Complete /\ Summed
GroupsInv == GroupsTypes /\ WalkInv /\ GroupsMeanWhatTheySay
-----------------------------------------------------------------------------
LEMMA Tables ==
  ASSUME GroupsTypes, NEW g \in Group
  PROVE  /\ groupRow[g].gone \in BOOLEAN /\ groupRow[g].all \in BOOLEAN
         /\ groupRow[g].parents \in BOOLEAN
         /\ refRule[g] \subseteq Group /\ Named(g) \subseteq refRule[g]
BY DEF GroupsTypes, Named

\* One group's members: never deleted people, more from more, ...
LEMMA CombinedIsLiving ==
  ASSUME NEW g \in Group, NEW R
  PROVE  Combined(g, R) \subseteq people
BY DEF Combined

LEMMA CombinedGrows ==
  ASSUME NEW g \in Group, NEW R, NEW Q, R \subseteq Q
  PROVE  Combined(g, R) \subseteq Combined(g, Q)
<1>1. Dynamic(g, R) \subseteq Dynamic(g, Q)
  BY DEF Dynamic
<1>2. \A A, B : A \subseteq B => Parents(A) \subseteq Parents(B)
  BY DEF Parents
<1> QED
  BY <1>1, <1>2 DEF Combined

\* ... and no more than what it has itself and is given, where it only adds up.
LEMMA CombinedAdds ==
  ASSUME NEW g \in Group, NEW R, ~groupRow[g].parents,
         groupRow[g].all => refRule[g] = {} \/ traitRule[g] = {}
  PROVE  /\ Combined(g, R) \subseteq Own(g) \cup R
         /\ Own(g) \subseteq Combined(g, R)
         /\ refRule[g] # {} => R \cap people \subseteq Combined(g, R)
<1>1. CASE refRule[g] = {}
  BY <1>1 DEF Combined, Dynamic, Own
<1>2. CASE refRule[g] # {} /\ traitRule[g] = {}
  BY <1>2 DEF Combined, Dynamic, Own
<1>3. CASE refRule[g] # {} /\ traitRule[g] # {} /\ ~groupRow[g].all
  BY <1>3 DEF Combined, Dynamic, Own
<1> QED
  BY <1>1, <1>2, <1>3
-----------------------------------------------------------------------------
(* Meaning is a fixed point, and the least. *)

LEMMA RoundType ==
  ASSUME GroupsTypes, NEW sets
  PROVE  Round(sets) \in [Group -> SUBSET Person]
BY CombinedIsLiving DEF Round, GroupsTypes

LEMMA RoundGrows ==
  ASSUME NEW a, NEW b, \A g \in Group : a[g] \subseteq b[g], GroupsTypes
  PROVE  \A g \in Group : Round(a)[g] \subseteq Round(b)[g]
<1> SUFFICES ASSUME NEW g \in Group
             PROVE  Round(a)[g] \subseteq Round(b)[g]
  OBVIOUS
<1>1. Referred(g, a) \subseteq Referred(g, b)
  BY Tables DEF Referred
<1> QED
  BY <1>1, CombinedGrows DEF Round

LEMMA MeaningIsLeast ==
  ASSUME NEW sets \in Satisfying, NEW g \in Group
  PROVE  Meaning[g] \subseteq sets[g]
BY DEF Meaning

LEMMA MeaningType == Meaning \in [Group -> SUBSET Person]
BY DEF Meaning

LEMMA MeaningSatisfies ==
  ASSUME GroupsTypes, NEW g \in Group
  PROVE  Round(Meaning)[g] \subseteq Meaning[g]
<1>1. \A sets \in Satisfying : Round(Meaning)[g] \subseteq sets[g]
  <2> SUFFICES ASSUME NEW sets \in Satisfying
               PROVE  Round(Meaning)[g] \subseteq sets[g]
    OBVIOUS
  <2>1. Round(Meaning)[g] \subseteq Round(sets)[g]
    BY MeaningIsLeast, RoundGrows
  <2> QED
    BY <2>1 DEF Satisfying
<1>2. Round(Meaning)[g] \subseteq Person
  BY RoundType
<1> QED
  BY <1>1, <1>2 DEF Meaning

LEMMA MeaningIsFixed ==
  ASSUME GroupsTypes, NEW g \in Group
  PROVE  Meaning[g] = IF groupRow[g].gone THEN {} ELSE Combined(g, Referred(g, Meaning))
<1>1. Round(Meaning) \in Satisfying
  BY RoundType, RoundGrows, MeaningSatisfies DEF Satisfying
<1>2. Meaning[g] = Round(Meaning)[g]
  BY <1>1, MeaningIsLeast, MeaningSatisfies
<1> QED
  BY <1>2 DEF Round
-----------------------------------------------------------------------------
LEMMA RootIsReached ==
  ASSUME NEW g \in Group
  PROVE  g \in Reached(g)
BY DEF Reached

LEMMA ReachedIsClosed ==
  ASSUME GroupsTypes, NEW g \in Group, NEW k \in Reached(g)
  PROVE  Named(k) \subseteq Reached(g)
<1>1. Named(k) \subseteq Group
  BY Tables DEF Reached
<1> QED
  BY <1>1 DEF Reached

\* Where groups only add up, a group means nobody but who is in a group it
\* reaches of its own.
LEMMA MeaningOfAdditive ==
  ASSUME GroupsTypes, NEW g \in Group, Additive(g), ~groupRow[g].gone
  PROVE  Meaning[g] \subseteq UNION {Own(h) : h \in Reached(g)}
<1> DEFINE U == UNION {Own(h) : h \in Reached(g)}
           sets == [k \in Group |-> IF groupRow[k].gone THEN {}
                                    ELSE IF k \in Reached(g) THEN U ELSE Person]
<1>1. U \subseteq Person
  BY CombinedIsLiving DEF GroupsTypes, Own, Reached
<1>2. sets \in [Group -> SUBSET Person]
  BY <1>1
<1>3. ASSUME NEW k \in Group
      PROVE  Round(sets)[k] \subseteq sets[k]
  <2>1. CASE groupRow[k].gone
    BY <2>1 DEF Round
  <2>2. CASE ~groupRow[k].gone /\ k \notin Reached(g)
    BY <2>2, <1>2, RoundType
  <2>3. CASE ~groupRow[k].gone /\ k \in Reached(g)
    <3>1. Referred(k, sets) \subseteq U
      <4> SUFFICES ASSUME NEW h \in refRule[k]
                   PROVE  sets[h] \subseteq U
        BY DEF Referred
      <4>1. h \in Group
        BY Tables
      <4>2. ~groupRow[h].gone => h \in Reached(g)
        BY <2>3, <4>1, ReachedIsClosed DEF Named
      <4> QED
        BY <4>1, <4>2
    <3>2. Combined(k, Referred(k, sets)) \subseteq Own(k) \cup Referred(k, sets)
      BY <2>3, CombinedAdds DEF Additive
    <3>3. Own(k) \subseteq U
      BY <2>3
    <3>4. Round(sets)[k] = Combined(k, Referred(k, sets)) /\ sets[k] = U
      BY <2>3 DEF Round
    <3> QED
      BY <3>1, <3>2, <3>3, <3>4
  <2> QED
    BY <2>1, <2>2, <2>3
<1>4. sets \in Satisfying
  BY <1>2, <1>3 DEF Satisfying
<1>5. sets[g] = U
  BY RootIsReached
<1> HIDE DEF sets, U
<1>6. Meaning[g] \subseteq U
  BY <1>4, <1>5, MeaningIsLeast
<1> QED
  BY <1>6 DEF U
-----------------------------------------------------------------------------
(* The steps of a walk leave the tables alone. *)

LEMMA TablesStay ==
  ASSUME UNCHANGED groupTables
  PROVE  /\ Meaning' = Meaning
         /\ \A g : /\ Reached(g)' = Reached(g) /\ Named(g)' = Named(g)
                   /\ OnePath(g)' = OnePath(g) /\ Additive(g)' = Additive(g)
                   /\ Own(g)' = Own(g) /\ groupRow'[g] = groupRow[g]
                   /\ refRule'[g] = refRule[g] /\ people' = people
                   /\ Referred(g, Meaning)' = Referred(g, Meaning)
BY DEF groupTables, Meaning, Satisfying, Round, Referred, Combined, Dynamic, Manual, Matching,
       Parents, Reached, Named, OnePath, Additive, Own

LEMMA WalkFields ==
  ASSUME GroupsTypes, walk.phase # "idle"
  PROVE  /\ walk \in Walk /\ walk.root \in Group /\ walk.stack \in Seq(Group)
         /\ walk.seen \subseteq Group
         /\ walk.left \in [Group -> SUBSET Group] /\ walk.found \in [Group -> SUBSET Person]
BY DEF GroupsTypes, NoWalk, Walk

LEMMA OnTheStack ==
  ASSUME GroupsTypes, walk.phase = "going", Calls
  PROVE  /\ Len(walk.stack) \in Nat \ {0} /\ Running \in Group
         /\ \A i \in 1..Len(walk.stack) : walk.stack[i] \in Group
         /\ Running = walk.stack[Len(walk.stack)] /\ Running \in Visited
         /\ walk.root \in Visited
BY WalkFields DEF Calls, Running

LEMMA EnterIs ==
  ASSUME GroupsTypes, Calls, NEW h \in Group, Enter(h)
  PROVE  /\ walk.phase = "going" /\ h \in walk.left[Running] /\ h \notin walk.seen
         /\ ~groupRow[h].gone
         /\ walk' \in Walk /\ walk'.phase = "going" /\ walk'.root = walk.root
         /\ walk'.stack = Append(walk.stack, h) /\ walk'.seen = walk.seen \cup {h}
         /\ walk'.left = [walk.left EXCEPT ![Running] = @ \ {h}, ![h] = refRule[h]]
         /\ walk'.found = walk.found
         /\ UNCHANGED groupTables /\ UNCHANGED groupEdits
<1>1. walk.phase = "going"
  BY DEF Enter
<1> DEFINE left == [walk.left EXCEPT ![Running] = @ \ {h}, ![h] = refRule[h]]
<1>2. left \in [Group -> SUBSET Group]
  BY <1>1, WalkFields, OnTheStack, Tables
<1>3. Append(walk.stack, h) \in Seq(Group)
  BY <1>1, WalkFields
<1>4. walk' = [walk EXCEPT !.stack = Append(walk.stack, h), !.seen = @ \cup {h}, !.left = left]
  BY DEF Enter
<1> HIDE DEF left
<1>5. /\ walk' \in Walk /\ walk'.phase = "going" /\ walk'.root = walk.root
      /\ walk'.stack = Append(walk.stack, h) /\ walk'.seen = walk.seen \cup {h}
      /\ walk'.left = left /\ walk'.found = walk.found
  BY <1>1, <1>2, <1>3, <1>4, WalkFields DEF Walk
<1> QED
  BY <1>1, <1>5 DEF Enter, left

LEMMA PassIs ==
  ASSUME GroupsTypes, Calls, NEW h \in Group, Pass(h)
  PROVE  /\ walk.phase = "going" /\ h \in walk.left[Running]
         /\ h \in walk.seen \/ groupRow[h].gone
         /\ walk' \in Walk /\ walk'.phase = "going" /\ walk'.root = walk.root
         /\ walk'.stack = walk.stack /\ walk'.seen = walk.seen \cup {h}
         /\ walk'.left = [walk.left EXCEPT ![Running] = @ \ {h}]
         /\ walk'.found = walk.found
         /\ UNCHANGED groupTables /\ UNCHANGED groupEdits
<1>1. walk.phase = "going"
  BY DEF Pass
<1> QED
  BY <1>1, WalkFields, OnTheStack DEF Pass, Walk

LEMMA PopIs ==
  ASSUME NEW s \in Seq(Group), Len(s) > 1
  PROVE  /\ SubSeq(s, 1, Len(s) - 1) \in Seq(Group)
         /\ Len(SubSeq(s, 1, Len(s) - 1)) = Len(s) - 1
         /\ \A i \in 1..Len(s) - 1 : SubSeq(s, 1, Len(s) - 1)[i] = s[i]
OBVIOUS

LEMMA LeaveIs ==
  ASSUME GroupsTypes, Calls, Leave
  PROVE  /\ walk.phase = "going" /\ walk.left[Running] = {}
         /\ walk' \in Walk /\ walk'.root = walk.root
         /\ walk'.seen = walk.seen /\ walk'.left = walk.left
         /\ Len(walk.stack) = 1 =>
               /\ walk'.phase = "done"
               /\ walk'.found = [walk.found EXCEPT ![Running] = Combined(Running, walk.found[Running])]
         /\ Len(walk.stack) # 1 =>
               /\ Len(walk.stack) > 1 /\ walk'.phase = "going"
               /\ Caller \in Group
               /\ walk'.stack = SubSeq(walk.stack, 1, Len(walk.stack) - 1)
               /\ walk'.found = [walk.found EXCEPT ![Caller] =
                                    @ \cup Combined(Running, walk.found[Running])]
         /\ UNCHANGED groupTables /\ UNCHANGED groupEdits
<1>1. walk.phase = "going" /\ walk.left[Running] = {}
  BY DEF Leave
<1>2. Combined(Running, walk.found[Running]) \subseteq Person
  BY <1>1, OnTheStack, CombinedIsLiving DEF GroupsTypes
<1>3. Len(walk.stack) > 1 => Caller \in Group
  BY <1>1, OnTheStack DEF Caller
<1>4. CASE Len(walk.stack) = 1
  BY <1>1, <1>2, <1>4, WalkFields, OnTheStack DEF Leave, Walk
<1>5. CASE Len(walk.stack) # 1
  <2>1. Len(walk.stack) \in Nat \ {0}
    BY <1>1, OnTheStack
  <2>2. \A n \in Nat \ {0} : n # 1 => n > 1
    OBVIOUS
  <2>3. Len(walk.stack) > 1
    BY <1>5, <2>1, <2>2
  <2> QED
    BY <1>1, <1>2, <1>3, <1>5, <2>3, WalkFields, OnTheStack, PopIs DEF Leave, Walk
<1> QED
  BY <1>4, <1>5
-----------------------------------------------------------------------------
(* The call that is about to return. *)

\* It has nobody too many, ...
LEMMA NobodyTooMany ==
  ASSUME GroupsTypes, walk.phase = "going", Calls, Sound
  PROVE  Combined(Running, walk.found[Running]) \subseteq Meaning[Running]
<1>1. Running \in Group /\ ~groupRow[Running].gone
  BY OnTheStack DEF Visited
<1>2. walk.found[Running] \subseteq Referred(Running, Meaning)
  BY <1>1 DEF Sound
<1>3. Combined(Running, walk.found[Running]) \subseteq Combined(Running, Referred(Running, Meaning))
  BY <1>1, <1>2, CombinedGrows
<1> QED
  BY <1>1, <1>3, MeaningIsFixed

\* ... nobody too few off the second paths, ...
LEMMA NobodyTooFew ==
  ASSUME GroupsTypes, walk.phase = "going", Calls, Complete, OnePath(walk.root),
         walk.left[Running] = {}
  PROVE  Meaning[Running] \subseteq Combined(Running, walk.found[Running])
<1>1. Running \in Group /\ ~groupRow[Running].gone
  BY OnTheStack DEF Visited
<1>2. ASSUME NEW h \in refRule[Running]
      PROVE  Meaning[h] \subseteq walk.found[Running]
  <2>1. h \in Group
    BY <1>1, Tables
  <2>2. CASE groupRow[h].gone
    BY <2>1, <2>2, MeaningIsFixed
  <2>3. CASE ~groupRow[h].gone
    <3>1. h \in Followed(Running)
      BY <2>3 DEF Followed, Named
    <3> DEFINE n == Len(walk.stack)
    <3>2. n \in Nat \ {0} /\ Running = walk.stack[n]
      BY OnTheStack
    <3>3. \A i \in 1..n : \A j \in Followed(walk.stack[i]) :
             (i < n /\ j = walk.stack[i + 1]) \/ Meaning[j] \subseteq walk.found[walk.stack[i]]
      BY DEF Complete
    <3> HIDE DEF n
    <3>4. n \in 1..n /\ ~(n < n)
      BY <3>2
    <3> QED
      BY <3>1, <3>2, <3>3, <3>4
  <2> QED
    BY <2>2, <2>3
<1>3. Referred(Running, Meaning) \subseteq walk.found[Running]
  BY <1>2 DEF Referred
<1>4. Combined(Running, Referred(Running, Meaning)) \subseteq Combined(Running, walk.found[Running])
  BY <1>1, <1>3, CombinedGrows
<1> QED
  BY <1>1, <1>4, MeaningIsFixed

\* ... and passes on all it was given, where groups only add up.
LEMMA AllPassedOn ==
  ASSUME GroupsTypes, walk.phase = "going", Calls, Explored, Sound, Additive(walk.root)
  PROVE  /\ Own(Running) \subseteq Combined(Running, walk.found[Running])
         /\ walk.found[Running] \subseteq Combined(Running, walk.found[Running])
<1>1. Running \in Group /\ Running \in Reached(walk.root)
  BY OnTheStack DEF Explored
<1>2. walk.found[Running] \subseteq Referred(Running, Meaning) /\ walk.found[Running] \subseteq people
  BY <1>1 DEF Sound
<1>3. refRule[Running] = {} => walk.found[Running] = {}
  BY <1>2 DEF Referred
<1> QED
  BY <1>1, <1>2, <1>3, CombinedAdds DEF Additive
-----------------------------------------------------------------------------
(* The walk. *)

LEMMA EnterKeeps ==
  ASSUME GroupsTypes, NEW h \in Group, Enter(h),
         Calls, Explored, Sound, Complete, Summed
  PROVE  Calls' /\ Explored' /\ Sound' /\ Complete' /\ Summed'
<1> DEFINE n == Len(walk.stack)
           s == walk.stack
           t == walk'.stack
           F(k) == Named(k) \ walk'.left[k]
<1>1. /\ walk.phase = "going" /\ h \in walk.left[Running] /\ h \notin walk.seen /\ ~groupRow[h].gone
      /\ walk'.root = walk.root /\ walk'.seen = walk.seen \cup {h} /\ walk'.found = walk.found
      /\ walk'.left = [walk.left EXCEPT ![Running] = @ \ {h}, ![h] = refRule[h]]
      /\ UNCHANGED groupTables
  BY EnterIs
<1>2. /\ n \in Nat \ {0} /\ Running = s[n] /\ Running \in Group /\ Running \in Visited
      /\ walk.root \in Visited
  BY <1>1, OnTheStack
<1>3. Len(t) = n + 1 /\ t[n + 1] = h /\ \A i \in 1..n : t[i] = s[i]
  BY <1>1, WalkFields, EnterIs
<1>4. /\ s[1] = walk.root
      /\ \A i \in 1..n : s[i] \in Visited
      /\ \A i, j \in 1..n : s[i] = s[j] => i = j
      /\ \A i \in 1..n - 1 : s[i + 1] \in Followed(s[i])
      /\ \A k \in Group : walk.left[k] \subseteq refRule[k] /\ (walk.left[k] # {} => OnStack(k))
  BY DEF Calls
<1>5. Visited' = Visited \cup {h} /\ h \notin Visited /\ Visited \subseteq Group
  BY <1>1, WalkFields, TablesStay DEF Visited
<1>6. h \in Named(Running) /\ Running # h
  BY <1>1, <1>2, <1>4, <1>5 DEF Named
<1>7. /\ F(Running) = Followed(Running) \cup {h}
      /\ F(h) = {}
      /\ \A k \in Group \ {Running, h} : F(k) = Followed(k)
  <2>1. \A k \in Group : walk'.left[k] = IF k = h THEN refRule[h]
                                        ELSE IF k = Running THEN walk.left[k] \ {h} ELSE walk.left[k]
    BY <1>1, <1>2, <1>6, WalkFields
  <2>2. Named(h) \subseteq refRule[h]
    BY Tables
  <2> QED
    BY <1>2, <1>6, <2>1, <2>2 DEF Followed
<1>8. \A k : OnStack(k)' <=> OnStack(k) \/ k = h
  <2>1. \A k : OnStack(k) <=> \E i \in 1..n : s[i] = k
    BY DEF OnStack
  <2>2. \A k : OnStack(k)' <=> \E i \in 1..Len(t) : t[i] = k
    BY DEF OnStack
  <2> HIDE DEF n, s, t, F
  <2> QED
    BY <1>2, <1>3, <2>1, <2>2
<1>9. /\ Meaning' = Meaning
      /\ \A k : /\ Reached(k)' = Reached(k) /\ OnePath(k)' = OnePath(k)
                /\ Additive(k)' = Additive(k) /\ Own(k)' = Own(k) /\ refRule'[k] = refRule[k]
                /\ Followed(k)' = F(k)
                /\ Referred(k, Meaning)' = Referred(k, Meaning)
      /\ people' = people
  BY <1>1, TablesStay DEF Followed
<1>10. Calls'
  <2>1. /\ Len(t) > 0 /\ t[1] = walk'.root
        /\ \A i \in 1..Len(t) : t[i] \in Visited'
        /\ \A i, j \in 1..Len(t) : t[i] = t[j] => i = j
    <3> HIDE DEF n, s, t, F
    <3>1. Len(t) > 0 /\ t[1] = walk'.root
      BY <1>1, <1>2, <1>3, <1>4
    <3>2. \A i \in 1..Len(t) : t[i] \in Visited'
      BY <1>2, <1>3, <1>4, <1>5
    <3>3. \A i, j \in 1..Len(t) : t[i] = t[j] => i = j
      BY <1>1, <1>2, <1>3, <1>4, <1>5
    <3> QED
      BY <3>1, <3>2, <3>3
  <2>2. \A i \in 1..Len(t) - 1 : t[i + 1] \in F(t[i])
    <3> SUFFICES ASSUME NEW i \in 1..Len(t) - 1
                 PROVE  t[i + 1] \in F(t[i])
      OBVIOUS
    <3> HIDE DEF n, s, t, F
    <3>1. i \in 1..n /\ t[i] = s[i] /\ s[i] \in Group \ {h}
      BY <1>2, <1>3, <1>4, <1>5
    <3>2. CASE i = n
      BY <1>2, <1>3, <1>7, <3>1, <3>2
    <3>3. CASE i # n
      <4>1. i \in 1..n - 1 /\ i + 1 \in 1..n
        BY <1>2, <3>1, <3>3
      <4>2. s[i + 1] \in Followed(s[i]) /\ t[i + 1] = s[i + 1]
        BY <1>3, <1>4, <4>1
      <4> QED
        BY <1>7, <3>1, <4>2
    <3> QED
      BY <3>2, <3>3
  <2>3. \A k \in Group : walk'.left[k] \subseteq refRule'[k] /\ (walk'.left[k] # {} => OnStack(k)')
    BY <1>1, <1>2, <1>4, <1>8, <1>9, WalkFields
  <2> QED
    BY <1>9, <2>1, <2>2, <2>3 DEF Calls
<1>11. Explored'
  <2>1. h \in Reached(walk.root)
    BY <1>2, <1>6, ReachedIsClosed, WalkFields, <1>1 DEF Explored
  <2>2. Visited' \subseteq Reached(walk.root)
    BY <1>5, <2>1 DEF Explored
  <2>3. \A k \in Visited' : F(k) \subseteq Visited'
    BY <1>2, <1>5, <1>7 DEF Explored
  <2>4. ASSUME NEW j \in Visited' \ {walk.root}
        PROVE  \E k \in Visited' : j \in F(k)
    <3>1. CASE j = h
      BY <1>2, <1>5, <1>7, <3>1
    <3>2. CASE j # h
      <4>1. PICK k \in Visited : j \in Followed(k)
        BY <1>5, <2>4, <3>2 DEF Explored
      <4> QED
        BY <1>5, <1>7, <4>1
    <3> QED
      BY <3>1, <3>2
  <2> QED
    BY <1>1, <1>9, <2>2, <2>3, <2>4 DEF Explored
<1>12. Sound'
  BY <1>1, <1>9 DEF Sound
<1>13. Complete'
  <2> SUFFICES ASSUME OnePath(walk.root), NEW i \in 1..Len(t), NEW j \in F(t[i])
               PROVE  \/ i < Len(t) /\ j = t[i + 1]
                      \/ Meaning[j] \subseteq walk.found[t[i]]
    BY <1>1, <1>9 DEF Complete
  <2>1. \A m \in 1..n : \A k \in Followed(s[m]) :
           (m < n /\ k = s[m + 1]) \/ Meaning[k] \subseteq walk.found[s[m]]
    BY DEF Complete
  <2> HIDE DEF n, s, t, F
  <2>2. CASE i = n + 1
    BY <1>3, <1>7, <2>2
  <2>3. CASE i = n
    BY <1>2, <1>3, <1>7, <2>1, <2>3
  <2>4. CASE i # n /\ i # n + 1
    <3>1. i \in 1..n /\ i + 1 \in 1..n /\ i < Len(t) /\ t[i] = s[i] /\ t[i + 1] = s[i + 1]
      BY <1>2, <1>3, <2>4
    <3>2. s[i] \in Group \ {Running, h}
      BY <1>2, <1>4, <1>5, <2>4, <3>1
    <3> QED
      BY <1>7, <2>1, <3>1, <3>2
  <2> QED
    BY <2>2, <2>3, <2>4
<1>14. Summed'
  <2> SUFFICES ASSUME Additive(walk.root), NEW j \in Visited', ~OnStack(j)'
               PROVE  \E i \in 1..Len(t) : Own(j) \subseteq walk.found[t[i]]
    BY <1>1, <1>9 DEF Summed
  <2>1. \E i \in 1..n : Own(j) \subseteq walk.found[s[i]]
    BY <1>5, <1>8 DEF Summed
  <2> HIDE DEF n, s, t, F
  <2> QED
    BY <1>2, <1>3, <2>1
<1> QED
  BY <1>10, <1>11, <1>12, <1>13, <1>14

LEMMA PassKeeps ==
  ASSUME GroupsTypes, NEW h \in Group, Pass(h),
         Calls, Explored, Sound, Complete, Summed
  PROVE  Calls' /\ Explored' /\ Sound' /\ Complete' /\ Summed'
<1> DEFINE n == Len(walk.stack)
           s == walk.stack
           F(k) == Named(k) \ walk'.left[k]
<1>1. /\ walk.phase = "going" /\ h \in walk.left[Running]
      /\ h \in walk.seen \/ groupRow[h].gone
      /\ walk'.root = walk.root /\ walk'.seen = walk.seen \cup {h} /\ walk'.found = walk.found
      /\ walk'.stack = walk.stack /\ walk'.left = [walk.left EXCEPT ![Running] = @ \ {h}]
      /\ UNCHANGED groupTables
  BY PassIs
<1>2. /\ n \in Nat \ {0} /\ Running = s[n] /\ Running \in Group /\ Running \in Visited
      /\ walk.root \in Visited
  BY <1>1, OnTheStack
<1>3. /\ Meaning' = Meaning
      /\ \A k : /\ Reached(k)' = Reached(k) /\ OnePath(k)' = OnePath(k)
                /\ Additive(k)' = Additive(k) /\ Own(k)' = Own(k) /\ refRule'[k] = refRule[k]
                /\ Followed(k)' = F(k)
                /\ Referred(k, Meaning)' = Referred(k, Meaning)
      /\ people' = people /\ \A k : OnStack(k)' = OnStack(k)
  BY <1>1, TablesStay DEF Followed, OnStack
<1>4. Visited' = Visited /\ Visited \subseteq Group
  BY <1>1, WalkFields, TablesStay DEF Visited
<1>5. /\ \A i \in 1..n : s[i] \in Visited
      /\ \A i \in 1..n - 1 : s[i + 1] \in Followed(s[i])
      /\ \A k \in Group : walk.left[k] \subseteq refRule[k] /\ (walk.left[k] # {} => OnStack(k))
  BY DEF Calls
<1>6. \A k \in Group : /\ walk'.left[k] \subseteq walk.left[k]
                       /\ Followed(k) \subseteq F(k)
                       /\ k # Running => F(k) = Followed(k)
  BY <1>1, <1>2, WalkFields DEF Followed
<1>7. F(Running) \ Followed(Running) \subseteq {h} \cap Visited
  BY <1>1, <1>2, WalkFields DEF Followed, Named, Visited
\* A second path.
<1>8. OnePath(walk.root) => F(Running) = Followed(Running)
  <2> SUFFICES ASSUME OnePath(walk.root), h \in F(Running), h \notin Followed(Running), h \in Visited
               PROVE  FALSE
    BY <1>2, <1>6, <1>7
  <2>1. /\ h \in Named(Running) /\ h \in Reached(walk.root) /\ Running \in Reached(walk.root)
    BY <1>2 DEF Explored
  <2>2. h # walk.root
    BY <2>1 DEF OnePath
  <2>3. PICK k \in Visited : h \in Followed(k)
    BY <2>2 DEF Explored
  <2>4. k \in Reached(walk.root) /\ h \in Named(k)
    BY <2>3 DEF Explored, Followed
  <2>5. k = Running
    BY <2>1, <2>4 DEF OnePath
  <2> QED
    BY <2>3, <2>5
<1> HIDE DEF F
<1>9. Calls'
  <2>1. \A i \in 1..n - 1 : s[i + 1] \in F(s[i])
    <3> SUFFICES ASSUME NEW i \in 1..n - 1
                 PROVE  s[i + 1] \in F(s[i])
      OBVIOUS
    <3>1. i \in 1..n
      <4> HIDE DEF n
      <4> QED
        BY <1>2
    <3> QED
      BY <1>4, <1>5, <1>6, <3>1
  <2>2. \A k \in Group : walk'.left[k] \subseteq refRule[k] /\ (walk'.left[k] # {} => OnStack(k))
    BY <1>5, <1>6
  <2> QED
    BY <1>1, <1>3, <1>4, <2>1, <2>2 DEF Calls
<1>10. Explored'
  <2>1. \A k \in Visited : F(k) \subseteq Visited
    BY <1>4, <1>6, <1>7 DEF Explored
  <2>2. \A j \in Visited \ {walk.root} : \E k \in Visited : j \in F(k)
    BY <1>4, <1>6 DEF Explored
  <2> QED
    BY <1>1, <1>3, <1>4, <2>1, <2>2 DEF Explored
<1>11. Sound'
  BY <1>1, <1>3 DEF Sound
<1>12. Complete'
  <2> SUFFICES ASSUME OnePath(walk.root), NEW i \in 1..n, NEW j \in F(s[i])
               PROVE  \/ i < n /\ j = s[i + 1]
                      \/ Meaning[j] \subseteq walk.found[s[i]]
    BY <1>1, <1>3 DEF Complete
  <2>1. F(s[i]) = Followed(s[i])
    BY <1>4, <1>5, <1>6, <1>8
  <2> QED
    BY <2>1 DEF Complete
<1>13. Summed'
  BY <1>1, <1>3, <1>4 DEF Summed
<1> QED
  BY <1>9, <1>10, <1>11, <1>12, <1>13

LEMMA ReturnKeeps ==
  ASSUME GroupsTypes, Leave, Len(walk.stack) # 1,
         Calls, Explored, Sound, Complete, Summed
  PROVE  Calls' /\ Explored' /\ Sound' /\ Complete' /\ Summed'
<1> DEFINE n == Len(walk.stack)
           s == walk.stack
           t == walk'.stack
           C == s[n - 1]
           R == s[n]
           A == Combined(R, walk.found[R])
<1>1. /\ walk.phase = "going" /\ walk.left[Running] = {}
      /\ walk'.root = walk.root /\ walk'.seen = walk.seen /\ walk'.left = walk.left
      /\ t = SubSeq(s, 1, n - 1)
      /\ walk'.found = [walk.found EXCEPT ![Caller] = @ \cup Combined(Running, walk.found[Running])]
      /\ UNCHANGED groupTables
      /\ Len(walk.stack) > 1
  BY LeaveIs
<1>2. /\ n \in Nat /\ n > 1 /\ Running = R /\ R \in Group /\ R \in Visited /\ Caller = C
  <2>1. Len(walk.stack) \in Nat /\ Running = walk.stack[Len(walk.stack)] /\ Running \in Group /\ Running \in Visited
    BY <1>1, OnTheStack
  <2>2. Caller = walk.stack[Len(walk.stack) - 1]
    BY DEF Caller
  <2> QED
    BY <1>1, <2>1, <2>2
<1>3. Len(t) = n - 1 /\ \A i \in 1..n - 1 : t[i] = s[i]
  <2>1. walk.stack \in Seq(Group)
    BY <1>1, WalkFields
  <2>2. /\ Len(SubSeq(walk.stack, 1, Len(walk.stack) - 1)) = Len(walk.stack) - 1
        /\ \A i \in 1..Len(walk.stack) - 1 :
              SubSeq(walk.stack, 1, Len(walk.stack) - 1)[i] = walk.stack[i]
    BY <1>1, <2>1, PopIs
  <2> QED
    BY <1>1, <2>2
<1>4. /\ s[1] = walk.root
      /\ \A i \in 1..n : s[i] \in Visited
      /\ \A i, j \in 1..n : s[i] = s[j] => i = j
      /\ \A i \in 1..n - 1 : s[i + 1] \in Followed(s[i])
      /\ \A k \in Group : walk.left[k] \subseteq refRule[k] /\ (walk.left[k] # {} => OnStack(k))
  BY DEF Calls
<1>5. /\ Meaning' = Meaning
      /\ \A k : /\ Reached(k)' = Reached(k) /\ OnePath(k)' = OnePath(k)
                /\ Additive(k)' = Additive(k) /\ Own(k)' = Own(k) /\ refRule'[k] = refRule[k]
                /\ Followed(k)' = Followed(k)
                /\ Referred(k, Meaning)' = Referred(k, Meaning)
      /\ people' = people
  BY <1>1, TablesStay DEF Followed
<1>6. Visited' = Visited /\ Visited \subseteq Group
  BY <1>1, WalkFields, TablesStay DEF Visited
<1>7. /\ n - 1 \in 1..n - 1 /\ n - 1 \in 1..n /\ n \in 1..n /\ \A i \in 1..n - 1 : i \in 1..n /\ i # n
      /\ \A i \in 1..n : i = n \/ i \in 1..n - 1
  <2> HIDE DEF n
  <2> QED
    BY <1>2
<1>8. C \in Group /\ C # R /\ R \in Followed(C) /\ t[n - 1] = C
  <2>1. n - 1 + 1 = n
    <3> HIDE DEF n
    <3> QED
      BY <1>2
  <2> HIDE DEF n
  <2> QED
    BY <1>3, <1>4, <1>6, <1>7, <2>1
<1>9. /\ walk'.found[C] = walk.found[C] \cup A
      /\ \A k \in Group \ {C} : walk'.found[k] = walk.found[k]
  BY <1>1, <1>2, <1>8, WalkFields
<1>10. \A k : OnStack(k)' <=> OnStack(k) /\ k # R
  <2>1. \A k : OnStack(k) <=> \E i \in 1..n : s[i] = k
    BY DEF OnStack
  <2>2. \A k : OnStack(k)' <=> \E i \in 1..Len(t) : t[i] = k
    BY DEF OnStack
  <2> HIDE DEF n, s, t
  <2> QED
    BY <1>3, <1>4, <1>7, <2>1, <2>2
<1>11. A \subseteq Meaning[R] /\ A \subseteq people
  BY <1>1, <1>2, NobodyTooMany, CombinedIsLiving
<1>12. OnePath(walk.root) => Meaning[R] \subseteq A
  BY <1>1, <1>2, NobodyTooFew
<1>13. Additive(walk.root) => Own(R) \subseteq A /\ walk.found[R] \subseteq A
  BY <1>1, <1>2, AllPassedOn
<1> HIDE DEF A
<1>14. Calls'
  <2>1. /\ Len(t) > 0 /\ t[1] = walk.root
        /\ \A i \in 1..Len(t) : t[i] \in Visited
        /\ \A i, j \in 1..Len(t) : t[i] = t[j] => i = j
    <3> HIDE DEF n, s, t
    <3>1. Len(t) > 0 /\ t[1] = walk.root
      BY <1>2, <1>3, <1>4, <1>7
    <3>2. \A i \in 1..Len(t) : t[i] \in Visited
      BY <1>2, <1>3, <1>4, <1>7
    <3>3. \A i, j \in 1..Len(t) : t[i] = t[j] => i = j
      BY <1>2, <1>3, <1>4, <1>7
    <3> QED
      BY <3>1, <3>2, <3>3
  <2>2. \A i \in 1..Len(t) - 1 : t[i + 1] \in Followed(t[i])
    <3> SUFFICES ASSUME NEW i \in 1..Len(t) - 1
                 PROVE  t[i + 1] \in Followed(t[i])
      OBVIOUS
    <3> HIDE DEF n, s, t
    <3>1. i \in 1..n - 1 /\ i + 1 \in 1..n - 1
      BY <1>2, <1>3
    <3> QED
      BY <1>3, <1>4, <3>1
  <2>3. \A k \in Group : walk'.left[k] \subseteq refRule[k] /\ (walk'.left[k] # {} => OnStack(k)')
    BY <1>1, <1>2, <1>4, <1>10
  <2> QED
    BY <1>1, <1>5, <1>6, <2>1, <2>2, <2>3 DEF Calls
<1>15. Explored'
  BY <1>1, <1>5, <1>6 DEF Explored
<1>16. Sound'
  <2>1. A \subseteq Referred(C, Meaning)
    BY <1>8, <1>11 DEF Referred, Followed, Named
  <2>2. \A k \in Group : walk'.found[k] \subseteq Referred(k, Meaning) \cap people
    BY <1>9, <1>11, <2>1 DEF Sound
  <2> QED
    BY <1>5, <2>2 DEF Sound
<1>17. Complete'
  <2> SUFFICES ASSUME OnePath(walk.root), NEW i \in 1..Len(t), NEW j \in Followed(t[i])
               PROVE  \/ i < Len(t) /\ j = t[i + 1]
                      \/ Meaning[j] \subseteq walk'.found[t[i]]
    BY <1>1, <1>5 DEF Complete
  <2>1. \A m \in 1..n : \A k \in Followed(s[m]) :
           (m < n /\ k = s[m + 1]) \/ Meaning[k] \subseteq walk.found[s[m]]
    BY DEF Complete
  <2> HIDE DEF n, s, t
  <2>2. i \in 1..n - 1 /\ i \in 1..n /\ t[i] = s[i] /\ s[i] \in Group
    BY <1>3, <1>4, <1>6, <1>7
  <2>3. walk.found[s[i]] \subseteq walk'.found[s[i]]
    BY <1>9, <2>2
  <2>4. CASE Meaning[j] \subseteq walk.found[s[i]]
    BY <2>2, <2>3, <2>4
  <2>5. CASE j = s[i + 1] /\ i = n - 1
    <3>1. j = R /\ s[i] = C
      BY <1>2, <2>5
    <3> QED
      BY <1>9, <1>12, <2>2, <3>1
  <2>6. CASE j = s[i + 1] /\ i # n - 1
    <3>1. i + 1 \in 1..n - 1 /\ i < n - 1
      BY <1>2, <2>2, <2>6
    <3> QED
      BY <1>3, <2>6, <3>1
  <2> QED
    BY <2>1, <2>2, <2>4, <2>5, <2>6
<1>18. Summed'
  <2> SUFFICES ASSUME Additive(walk.root), NEW j \in Visited, ~OnStack(j)'
               PROVE  \E i \in 1..Len(t) : Own(j) \subseteq walk'.found[t[i]]
    BY <1>1, <1>5, <1>6 DEF Summed
  <2>1. OnStack(j) \/ \E i \in 1..n : Own(j) \subseteq walk.found[s[i]]
    BY DEF Summed
  <2> HIDE DEF n, s, t
  <2>2. CASE j = R
    BY <1>3, <1>7, <1>8, <1>9, <1>13, <2>2
  <2>3. CASE j # R
    <3>1. PICK i \in 1..n : Own(j) \subseteq walk.found[s[i]]
      BY <1>10, <2>1, <2>3
    <3>2. CASE i = n
      BY <1>3, <1>7, <1>8, <1>9, <1>13, <3>1, <3>2
    <3>3. CASE i # n
      BY <1>3, <1>4, <1>6, <1>7, <1>9, <3>1, <3>3
    <3> QED
      BY <3>2, <3>3
  <2> QED
    BY <2>2, <2>3
<1> QED
  BY <1>14, <1>15, <1>16, <1>17, <1>18

LEMMA AnswerIsRight ==
  ASSUME GroupsTypes, Leave, Len(walk.stack) = 1,
         Calls, Explored, Sound, Complete, Summed
  PROVE  GroupsMeanWhatTheySay'
<1> DEFINE R == walk.root
           A == Combined(R, walk.found[R])
<1>1. /\ walk.phase = "going" /\ walk.left[Running] = {} /\ walk'.root = walk.root
      /\ walk'.found = [walk.found EXCEPT ![Running] = Combined(Running, walk.found[Running])]
      /\ UNCHANGED groupTables
  BY LeaveIs
<1>2. Running = R /\ R \in Group /\ R \in Visited /\ \A k : OnStack(k) <=> k = R
  BY <1>1, OnTheStack DEF Calls, OnStack
<1>3. walk'.found[R] = A
  BY <1>1, <1>2, WalkFields
<1>4. A \subseteq Meaning[R]
  BY <1>1, <1>2, NobodyTooMany
<1>5. OnePath(R) => Meaning[R] \subseteq A
  BY <1>1, <1>2, NobodyTooFew
<1>6. ASSUME Additive(R)
      PROVE  Meaning[R] \subseteq A
  <2>1. Reached(R) \subseteq Visited
    <3>1. Visited \subseteq Group
      BY <1>1, WalkFields DEF Visited
    <3>2. \A k \in Visited : Named(k) \subseteq Visited
      BY <1>1, <1>2, <3>1 DEF Calls, Explored, Followed
    <3> QED
      BY <1>2, <3>1, <3>2 DEF Reached
  <2>2. \A h \in Visited : Own(h) \subseteq A
    <3>1. Own(R) \subseteq A /\ walk.found[R] \subseteq A
      BY <1>1, <1>2, <1>6, AllPassedOn
    <3>2. \A i \in 1..Len(walk.stack) : walk.stack[i] = R
      BY <1>2 DEF OnStack
    <3>3. \A h \in Visited : h = R \/ Own(h) \subseteq walk.found[R]
      BY <1>2, <1>6, <3>2 DEF Summed
    <3> QED
      BY <3>1, <3>3
  <2>3. Meaning[R] \subseteq UNION {Own(h) : h \in Reached(R)}
    BY <1>2, <1>6, MeaningOfAdditive DEF Visited
  <2> HIDE DEF A, R
  <2> QED
    BY <2>1, <2>2, <2>3
<1>7. /\ Meaning' = Meaning
      /\ \A k : OnePath(k)' = OnePath(k) /\ Additive(k)' = Additive(k)
  BY <1>1, TablesStay
<1> QED
  BY <1>1, <1>3, <1>4, <1>5, <1>6, <1>7 DEF GroupsMeanWhatTheySay

LEMMA AskStarts ==
  ASSUME GroupsTypes, NEW g \in Group, Ask(g)
  PROVE  WalkInv' /\ GroupsMeanWhatTheySay' /\ walk' \in Walk
<1>1. UNCHANGED groupTables
  BY DEF Ask
<1>2. /\ Meaning' = Meaning /\ people' = people
      /\ \A k : /\ Reached(k)' = Reached(k) /\ OnePath(k)' = OnePath(k) /\ Named(k)' = Named(k)
                /\ Additive(k)' = Additive(k) /\ refRule'[k] = refRule[k] /\ groupRow'[k] = groupRow[k]
  BY <1>1, TablesStay
<1>3. /\ walk'.root = g /\ walk'.stack = <<g>> /\ walk'.seen = {g}
      /\ walk'.left = [h \in Group |-> IF h = g THEN refRule[g] ELSE {}]
      /\ walk'.found = [h \in Group |-> {}]
      /\ walk'.phase = IF groupRow[g].gone THEN "done" ELSE "going"
  BY DEF Ask, WalkOf
<1>4. walk' \in Walk
  <2>1. refRule[g] \subseteq Group
    BY Tables
  <2>2. WalkOf(g) \in Walk
    BY <2>1 DEF WalkOf, Walk
  <2> QED
    BY <2>2 DEF Ask, Walk
<1>5. CASE groupRow[g].gone
  <2>1. Meaning[g] = {} /\ walk'.found[g] = {} /\ walk'.phase = "done"
    BY <1>3, <1>5, MeaningIsFixed
  <2> QED
    BY <1>2, <1>3, <1>4, <2>1 DEF WalkInv, GroupsMeanWhatTheySay
<1>6. CASE ~groupRow[g].gone
  <2>1. walk'.phase = "going" /\ Len(walk'.stack) = 1 /\ walk'.stack[1] = g
    BY <1>3, <1>6
  <2>2. Visited' = {g}
    BY <1>2, <1>3, <1>6 DEF Visited
  <2>3. \A k : OnStack(k)' <=> k = g
    BY <2>1 DEF OnStack
  <2>4. Followed(g)' = {}
    BY <1>2, <1>3 DEF Followed, Named
  <2>5. Calls'
    BY <1>2, <1>3, <2>1, <2>2, <2>3 DEF Calls
  <2>6. Explored'
    BY <1>2, <1>3, <2>2, <2>4, RootIsReached DEF Explored
  <2>7. Sound'
    BY <1>3 DEF Sound
  <2>8. Complete'
    BY <2>1, <2>4 DEF Complete
  <2>9. Summed'
    BY <2>2, <2>3 DEF Summed
  <2> QED
    BY <1>4, <2>1, <2>5, <2>6, <2>7, <2>8, <2>9 DEF WalkInv, GroupsMeanWhatTheySay
<1> QED
  BY <1>4, <1>5, <1>6
-----------------------------------------------------------------------------
Edits ==
    \/ \E g \in Group, m \in Person : AddGroupMember(g, m) \/ RemoveGroupMember(g, m)
    \/ \E g \in Group, values \in SUBSET DOMAIN Trait : UpsertTraitRule(g, values)
    \/ \E g \in Group, set \in RefSets : UpsertRefRule(g, set)
    \/ \E g \in Group : RemoveGroupRule(g) \/ DeleteGroup(g)
    \/ \E g \in Group, all \in BOOLEAN, parents \in BOOLEAN : UpdateGroup(g, all, parents)
    \/ \E m \in Person : DeletePerson(m)

GroupRows == [Group -> [gone : BOOLEAN, all : BOOLEAN, parents : BOOLEAN]]

LEMMA GoneRows ==
  ASSUME NEW rows \in GroupRows, NEW g \in Group
  PROVE  [rows EXCEPT ![g].gone = TRUE] \in GroupRows
BY DEF GroupRows

LEMMA EditedRows ==
  ASSUME NEW rows \in GroupRows, NEW g \in Group, NEW all \in BOOLEAN, NEW parents \in BOOLEAN
  PROVE  [rows EXCEPT ![g].all = all, ![g].parents = parents] \in GroupRows
BY DEF GroupRows

LEMMA EditsAreTyped ==
  ASSUME GroupsTypes, Edits
  PROVE  GroupsTypes' /\ walk' = NoWalk
<1> USE GroupsAssumption DEF GroupsTypes
<1>a. EditsGroup => groupEdits' \in Nat /\ walk' = NoWalk
  BY DEF EditsGroup
<1>b. groupRow \in GroupRows
  BY DEF GroupRows
<1>1. ASSUME NEW g \in Group, NEW m \in Person, AddGroupMember(g, m)
      PROVE  GroupsTypes' /\ walk' = NoWalk
  <2>1. membership' \in [Group \X Person -> {"none", "here", "removed"}]
    BY <1>1 DEF AddGroupMember
  <2>2. EditsGroup /\ UNCHANGED <<groupRow, traitRule, refRule, people>>
    BY Zenon, <1>1 DEF AddGroupMember
  <2> QED
    BY <1>a, <2>1, <2>2
<1>2. ASSUME NEW g \in Group, NEW m \in Person, RemoveGroupMember(g, m)
      PROVE  GroupsTypes' /\ walk' = NoWalk
  <2>1. membership' \in [Group \X Person -> {"none", "here", "removed"}]
    BY <1>2 DEF RemoveGroupMember
  <2>2. EditsGroup /\ UNCHANGED <<groupRow, traitRule, refRule, people>>
    BY Zenon, <1>2 DEF RemoveGroupMember
  <2> QED
    BY <1>a, <2>1, <2>2
<1>3. ASSUME NEW g \in Group, NEW values \in SUBSET DOMAIN Trait, UpsertTraitRule(g, values)
      PROVE  GroupsTypes' /\ walk' = NoWalk
  BY <1>a, <1>3 DEF UpsertTraitRule
<1>4. ASSUME NEW g \in Group, NEW set \in RefSets, UpsertRefRule(g, set)
      PROVE  GroupsTypes' /\ walk' = NoWalk
  BY <1>a, <1>4 DEF UpsertRefRule
<1>5. ASSUME NEW g \in Group, RemoveGroupRule(g)
      PROVE  GroupsTypes' /\ walk' = NoWalk
  BY <1>a, <1>5 DEF RemoveGroupRule
<1>6. ASSUME NEW g \in Group, DeleteGroup(g)
      PROVE  GroupsTypes' /\ walk' = NoWalk
  <2>1. groupRow' \in GroupRows
    <3>1. groupRow' = [groupRow EXCEPT ![g].gone = TRUE]
      BY Zenon, <1>6 DEF DeleteGroup
    <3> QED
      BY Zenon, <1>b, <3>1, GoneRows
  <2>2. EditsGroup /\ UNCHANGED <<membership, traitRule, refRule, people>>
    BY Zenon, <1>6 DEF DeleteGroup
  <2> QED
    BY <1>a, <2>1, <2>2 DEF GroupRows
<1>7. ASSUME NEW g \in Group, NEW all \in BOOLEAN, NEW parents \in BOOLEAN, UpdateGroup(g, all, parents)
      PROVE  GroupsTypes' /\ walk' = NoWalk
  <2>1. groupRow' \in GroupRows
    <3>1. groupRow' = [groupRow EXCEPT ![g].all = all, ![g].parents = parents]
      BY Zenon, <1>7 DEF UpdateGroup
    <3> QED
      BY Zenon, <1>b, <3>1, EditedRows
  <2>2. EditsGroup /\ UNCHANGED <<membership, traitRule, refRule, people>>
    BY Zenon, <1>7 DEF UpdateGroup
  <2> QED
    BY <1>a, <2>1, <2>2 DEF GroupRows
<1>8. ASSUME NEW m \in Person, DeletePerson(m)
      PROVE  GroupsTypes' /\ walk' = NoWalk
  BY <1>a, <1>8 DEF DeletePerson
<1> QED
  BY <1>1, <1>2, <1>3, <1>4, <1>5, <1>6, <1>7, <1>8 DEF Edits

LEMMA WalkingIsTyped ==
  ASSUME GroupsTypes, UNCHANGED groupTables, UNCHANGED groupEdits, walk' = walk \/ walk' \in Walk
  PROVE  GroupsTypes'
BY DEF GroupsTypes, groupTables, Walk

LEMMA GroupsStep == GroupsInv /\ [GroupsNext]_groupsVars => GroupsInv'
<1> SUFFICES ASSUME GroupsInv, [GroupsNext]_groupsVars
             PROVE  GroupsInv'
  OBVIOUS
<1> USE DEF GroupsInv
<1>1. CASE UNCHANGED groupsVars
  <2>1. /\ UNCHANGED groupTables /\ walk' = walk
        /\ \A k : Followed(k)' = Followed(k) /\ OnStack(k)' = OnStack(k)
        /\ Visited' = Visited
    BY <1>1, TablesStay DEF groupsVars, groupTables, Followed, OnStack, Visited
  <2>2. GroupsTypes'
    BY <1>1, <2>1, WalkingIsTyped DEF groupsVars
  <2>3. WalkInv'
    BY <2>1, TablesStay DEF WalkInv, Calls, Explored, Sound, Complete, Summed
  <2>4. GroupsMeanWhatTheySay'
    BY <2>1, TablesStay DEF GroupsMeanWhatTheySay
  <2> QED
    BY <2>2, <2>3, <2>4
<1>2. CASE Edits
  BY <1>2, EditsAreTyped DEF WalkInv, GroupsMeanWhatTheySay, NoWalk
<1>3. ASSUME NEW g \in Group, Ask(g)
      PROVE  GroupsInv'
  BY <1>3, AskStarts, WalkingIsTyped DEF Ask
<1>4. ASSUME NEW h \in Group, Enter(h)
      PROVE  GroupsInv'
  <2>1. Calls /\ Explored /\ Sound /\ Complete /\ Summed
    BY <1>4 DEF WalkInv, Enter
  <2>2. /\ walk' \in Walk /\ walk'.phase = "going"
        /\ UNCHANGED groupTables /\ UNCHANGED groupEdits
    BY <1>4, <2>1, EnterIs
  <2>3. GroupsTypes'
    BY <2>2, WalkingIsTyped
  <2>4. WalkInv'
    BY <1>4, <2>1, EnterKeeps DEF WalkInv
  <2> QED
    BY <2>2, <2>3, <2>4 DEF GroupsMeanWhatTheySay
<1>5. ASSUME NEW h \in Group, Pass(h)
      PROVE  GroupsInv'
  <2>1. Calls /\ Explored /\ Sound /\ Complete /\ Summed
    BY <1>5 DEF WalkInv, Pass
  <2>2. /\ walk' \in Walk /\ walk'.phase = "going"
        /\ UNCHANGED groupTables /\ UNCHANGED groupEdits
    BY <1>5, <2>1, PassIs
  <2>3. GroupsTypes'
    BY <2>2, WalkingIsTyped
  <2>4. WalkInv'
    BY <1>5, <2>1, PassKeeps DEF WalkInv
  <2> QED
    BY <2>2, <2>3, <2>4 DEF GroupsMeanWhatTheySay
<1>6. CASE Leave
  <2>1. Calls /\ Explored /\ Sound /\ Complete /\ Summed
    BY <1>6 DEF WalkInv, Leave
  <2>2. walk' \in Walk /\ UNCHANGED groupTables /\ UNCHANGED groupEdits
    BY <1>6, <2>1, LeaveIs
  <2>3. GroupsTypes'
    BY <2>2, WalkingIsTyped
  <2>4. CASE Len(walk.stack) = 1
    <3>1. walk'.phase = "done"
      BY <1>6, <2>1, <2>4, LeaveIs
    <3> QED
      BY <1>6, <2>1, <2>3, <2>4, <3>1, AnswerIsRight DEF WalkInv
  <2>5. CASE Len(walk.stack) # 1
    <3>1. walk'.phase = "going"
      BY <1>6, <2>1, <2>5, LeaveIs
    <3> QED
      BY <1>6, <2>1, <2>3, <2>5, <3>1, ReturnKeeps DEF WalkInv, GroupsMeanWhatTheySay
  <2> QED
    BY <2>4, <2>5
<1> QED
  BY <1>1, <1>2, <1>3, <1>4, <1>5, <1>6 DEF GroupsNext, Edits

LEMMA GroupsStart == GroupsInit => GroupsInv
<1> SUFFICES ASSUME GroupsInit
             PROVE  GroupsInv
  OBVIOUS
<1>1. GroupsTypes
  BY GroupsAssumption DEF GroupsInit, GroupsTypes
<1> QED
  BY <1>1 DEF GroupsInit, GroupsInv, WalkInv, GroupsMeanWhatTheySay, NoWalk

(* resolve_group_members never puts anybody in a group whom its rules do not,
   and leaves nobody out who is in it by them when no group is reached on two
   paths, or those reached only add up: for any groups, rules, cycles and
   members, and any number of edits. *)
THEOREM GroupsResolveAsTheySay == GroupsSpec => []GroupsMeanWhatTheySay
<1>1. GroupsInv => GroupsMeanWhatTheySay
  BY DEF GroupsInv
<1> QED
  BY <1>1, GroupsStart, GroupsStep, PTL DEF GroupsSpec
=============================================================================
