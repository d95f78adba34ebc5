----------------------------- MODULE Governance -----------------------------
(***************************************************************************)
(* Who administers a tenant: terms of positions that are mapped to the     *)
(* administrators' role (backend/app/core/permissions.py), the requests    *)
(* that give, end and delete terms (routers/member_positions.py), map      *)
(* positions (routers/positions.py), remove members (routers/members.py)   *)
(* and the platform's own (routers/platform.py).                           *)
(*                                                                         *)
(* A request that guards the last administrator counts first and commits   *)
(* later, without a lock.  The others check nothing that another session   *)
(* could change, and are one action.                                       *)
(***************************************************************************)
EXTENDS Integers, FiniteSets

CONSTANTS
    RoleSession, \* guarded requests being served at once
    Adult,       \* the members who may administer
    Post,        \* positions that are or may be mapped to the role
    System,      \* the seeded Administrator position, which cannot be deleted
    Founder,     \* the tenant's first administrator
    Term,        \* bound: which member may hold a term of which position
    MaxChanges   \* bound on changes by requests without the guard

ASSUME GovernanceAssumption ==
    /\ System \in Post /\ Founder \in Adult
    /\ MaxChanges \in Nat /\ Term \subseteq Adult \X Post /\ Adult \X {System} \subseteq Term

VARIABLES
    member,  \* each of them: "absent", "here" or "deleted"
    term,    \* the term of each member and position
    link,    \* the mapping of each position to the administrators' role
    changes, \* counter
    roleReq  \* what each session has checked and not committed: the terms or
             \* members it is about, and whether who administers changed since

govVars == <<member, term, link, changes, roleReq>>

RoleIdle == [op |-> "idle", on |-> {}, who |-> {}, stale |-> FALSE]

\* is_assignment_current: a term with a future end date is a current one.
Current(t) == term[t] \in {"live", "closing"}

\* admin_assignments
AdminTerms == {t \in Term : Current(t) /\ link[t[2]] = "live" /\ member[t[1]] = "here"}

\* admin_member_ids
Admins == {t[1] : t \in AdminTerms}

\* Without looking the member up.
MayChangeAnyone(t) == link[t[2]] = "live" => Admins # {}

\* Terms of an administrators' position are for administrators to change.
MayChange(t) == member[t[1]] = "here" /\ (link[t[2]] = "live" => Admins # {})

\* What others do makes a check stale when it changes who administers.
Watched(q) ==
    IF roleReq[q].op # "idle" /\ AdminTerms' # AdminTerms
    THEN [roleReq[q] EXCEPT !.stale = TRUE]
    ELSE roleReq[q]

Checks(p, r) ==
    /\ roleReq[p] = RoleIdle /\ roleReq' = [roleReq EXCEPT ![p] = r]
    /\ UNCHANGED <<member, term, link, changes>>

Done(p) == roleReq' = [q \in RoleSession |-> IF q = p THEN RoleIdle ELSE Watched(q)]
AtOnce ==
    /\ changes < MaxChanges /\ changes' = changes + 1
    /\ roleReq' = [q \in RoleSession |-> Watched(q)]
-----------------------------------------------------------------------------
(* Requests with the guard. *)

\* _guard_last_admin: other members remain.
SparesLastAdmin(t) == t \in AdminTerms => {u[1] : u \in AdminTerms \ {t}} # {}

\* PATCH with an end date in the past.
EndTerm(p, t) ==
    /\ Current(t) /\ MayChange(t) /\ SparesLastAdmin(t)
    /\ Checks(p, [RoleIdle EXCEPT !.op = "end", !.on = {t}])

CommitEndTerm(p) ==
    /\ roleReq[p].op = "end"
    /\ term' = [t \in Term |-> IF t \in roleReq[p].on THEN "over" ELSE term[t]]
    /\ UNCHANGED <<member, link, changes>> /\ Done(p)

DeleteTerm(p, t) ==
    /\ term[t] \notin {"none", "deleted"} /\ MayChange(t) /\ SparesLastAdmin(t)
    /\ Checks(p, [RoleIdle EXCEPT !.op = "delete", !.on = {t}])

\* Counting terms instead of members.
RevokeCountsTerms(p, m) ==
    /\ m \in Admins /\ Cardinality(AdminTerms) > 1
    /\ Checks(p, [RoleIdle EXCEPT !.op = "delete", !.on = {t \in AdminTerms : t[1] = m}])

\* revoke_tenant_admin, from the platform: all the member's terms that confer it.
RevokeTenantAdmin(p, m) ==
    /\ m \in Admins /\ Admins \ {m} # {}
    /\ Checks(p, [RoleIdle EXCEPT !.op = "delete", !.on = {t \in AdminTerms : t[1] = m}])

CommitDeleteTerms(p) ==
    /\ roleReq[p].op = "delete"
    /\ term' = [t \in Term |-> IF t \in roleReq[p].on THEN "deleted" ELSE term[t]]
    /\ UNCHANGED <<member, link, changes>> /\ Done(p)

\* purge_member_endpoint: by another administrator; of a deleted member as well.
PurgeMember(p, m) ==
    /\ member[m] # "absent" /\ Admins \ {m} # {}
    /\ Checks(p, [RoleIdle EXCEPT !.op = "purge", !.who = {m}])

CommitPurgeMember(p) ==
    /\ roleReq[p].op = "purge"
    /\ member' = [m \in Adult |-> IF m \in roleReq[p].who THEN "deleted" ELSE member[m]]
    /\ UNCHANGED <<term, link, changes>> /\ Done(p)
-----------------------------------------------------------------------------
(* Everything else that changes who administers. *)

\* assign_position: not while a current term is there.
AssignPosition(t) ==
    /\ ~Current(t) /\ MayChange(t)
    /\ term' = [term EXCEPT ![t] = "live"]
    /\ UNCHANGED <<member, link>> /\ AtOnce

\* PATCH with no end date, or with one to come: no guard is asked.
RescheduleTerm(t, to) ==
    /\ term[t] \notin {"none", "deleted"} /\ MayChange(t)
    /\ term' = [term EXCEPT ![t] = to]
    /\ UNCHANGED <<member, link>> /\ AtOnce

EndDatePasses(t) ==
    /\ term[t] = "closing"
    /\ term' = [term EXCEPT ![t] = "over"]
    /\ UNCHANGED <<member, link>> /\ AtOnce

DeleteMember(m) ==
    /\ member[m] = "here"
    /\ member' = [member EXCEPT ![m] = "deleted"]
    /\ UNCHANGED <<term, link>> /\ AtOnce

\* invite_tenant_admin: a new member with a term of the Administrator position.
InviteTenantAdmin(m) ==
    /\ member[m] = "absent"
    /\ member' = [member EXCEPT ![m] = "here"]
    /\ term' = [term EXCEPT ![<<m, System>>] = "live"]
    /\ UNCHANGED link /\ AtOnce

\* attach_functional_role: a detached mapping still holds its unique key, so
\* it is never attached again.
AttachFunctionalRole(c) ==
    /\ link[c] = "none"
    /\ link' = [link EXCEPT ![c] = "live"]
    /\ UNCHANGED <<member, term>> /\ AtOnce

\* detach_functional_role, or delete_position of one that is not a system's.
DetachFunctionalRole(c) ==
    /\ link[c] = "live"
    /\ link' = [link EXCEPT ![c] = "detached"]
    /\ UNCHANGED <<member, term>> /\ AtOnce
-----------------------------------------------------------------------------
GovInit ==
    /\ member = [m \in Adult |-> IF m = Founder THEN "here" ELSE "absent"]
    /\ term = [t \in Term |-> IF t = <<Founder, System>> THEN "live" ELSE "none"]
    /\ link = [c \in Post |-> IF c = System THEN "live" ELSE "none"]
    /\ roleReq = [p \in RoleSession |-> RoleIdle] /\ changes = 0

GuardedNext ==
    \E p \in RoleSession :
        \/ \E t \in Term : EndTerm(p, t) \/ DeleteTerm(p, t)
        \/ \E m \in Adult : RevokeTenantAdmin(p, m) \/ PurgeMember(p, m)
        \/ CommitEndTerm(p) \/ CommitDeleteTerms(p) \/ CommitPurgeMember(p)

UnguardedNext ==
    \/ \E t \in Term : AssignPosition(t) \/ EndDatePasses(t)
    \/ \E t \in Term, to \in {"live", "closing"} : RescheduleTerm(t, to)
    \/ \E m \in Adult : DeleteMember(m) \/ InviteTenantAdmin(m)
    \/ \E c \in Post : AttachFunctionalRole(c) \/ DetachFunctionalRole(c)

GovNext == GuardedNext \/ UnguardedNext

GovSpec == GovInit /\ [][GovNext]_govVars
-----------------------------------------------------------------------------
(* Type correctness; only members have terms. *)
GovTypeOK ==
    /\ member \in [Adult -> {"absent", "here", "deleted"}]
    /\ term \in [Term -> {"none", "live", "closing", "over", "deleted"}]
    /\ \A t \in Term : term[t] # "none" => member[t[1]] # "absent"
    /\ link \in [Post -> {"none", "live", "detached"}]
    /\ changes \in 0..MaxChanges
    /\ roleReq \in [RoleSession -> [op : {"idle", "end", "delete", "purge"},
                                    on : SUBSET Term, who : SUBSET Adult,
                                    stale : BOOLEAN]]

(* "A troop must keep at least one" administrator: no guarded request takes
   the last one away, through second terms, second positions, scheduled ends
   and the terms of members who are gone, unless who administers changed
   between its count and its commit. *)
AdminRemains ==
    [][\A p \in RoleSession :
          /\ roleReq[p].op # "idle" /\ ~roleReq[p].stale
          /\ roleReq'[p].op = "idle" /\ Admins # {}
          => Admins' # {}]_govVars
=============================================================================
