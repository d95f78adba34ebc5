------------------------------- MODULE Claims -------------------------------
(***************************************************************************)
(* How accounts come to a tenant's members: invitations                    *)
(* (backend/app/routers/members.py, core/invite.py), claims                *)
(* (routers/auth.py), the links a verified email address makes by itself   *)
(* (core/auth.py, core/provisioning.py), and what takes members away       *)
(* (core/deletion.py).  Requests check first and commit later, by primary  *)
(* key: no constraint of the database stands behind their checks.          *)
(***************************************************************************)
EXTENDS Integers

CONSTANTS
    ClaimSession, \* requests being served at once
    Account,      \* users
    Seat,         \* the members to be linked
    Mailbox,      \* the account that verified the address on each member, if any
    MaxTokens     \* bound on the tokens minted for each member

AtMostOne == {{}} \cup {{u} : u \in Account}

ASSUME ClaimsAssumption == Mailbox \in [Seat -> AtMostOne] /\ MaxTokens \in Nat

VARIABLES
    roster,    \* each member: "absent", "here" or "gone"
    account,   \* user_id of each, as a set
    jti,       \* the token each one honours, 0 for none
    minted,    \* the last token minted for each
    claimReq,  \* what each session has checked
    via,       \* history: the token each one was claimed with
    crossed    \* history: members changed between a check and its commit

claimsVars == <<roster, account, jti, minted, claimReq, via, crossed>>

ClaimIdle == [op |-> "idle", on |-> {}, user |-> {}, token |-> 0]
SeatsOf(u) == {m \in Seat : roster[m] = "here" /\ u \in account[m]}

ClaimBegins(p, r) ==
    /\ claimReq[p] = ClaimIdle /\ claimReq' = [claimReq EXCEPT ![p] = r]
    /\ UNCHANGED <<roster, account, jti, minted, via, crossed>>

Crosses(others) == crossed' = (crossed \/ \E q \in others : claimReq[q] # ClaimIdle)

ClaimEnds(p, op) ==
    /\ claimReq[p].op = op /\ claimReq' = [claimReq EXCEPT ![p] = ClaimIdle]
    /\ Crosses(ClaimSession \ {p})

MembersChange == Crosses(ClaimSession) /\ UNCHANGED <<claimReq, minted>>
-----------------------------------------------------------------------------
(* Inviting and claiming. *)

\* POST /members/{id}/invite: not a member who has an account.
InviteMember(p, m) ==
    /\ roster[m] = "here" /\ account[m] = {} /\ minted[m] < MaxTokens
    /\ ClaimBegins(p, [ClaimIdle EXCEPT !.op = "invite", !.on = {m}])

\* create_invite_token overwrites the token honoured before.
CommitInvite(p) ==
    /\ ClaimEnds(p, "invite")
    /\ LET next(n, m) == IF m \in claimReq[p].on THEN minted[m] + 1 ELSE n
       IN  /\ minted' = [m \in Seat |-> next(minted[m], m)]
           /\ jti' = [m \in Seat |-> next(jti[m], m)]
    /\ UNCHANGED <<roster, account, via>>

ClaimWith(p, u, m, t) ==
    ClaimBegins(p, [op |-> "claim", on |-> {m}, user |-> {u}, token |-> t])

\* Leaving out a check of the claim.
ClaimOldToken(p, u, m, t) ==
    /\ roster[m] = "here" /\ account[m] = {} /\ SeatsOf(u) = {}
    /\ ClaimWith(p, u, m, t)
\* claim_member, with one of the tokens there are.
ClaimMember(p, u, m, t) ==
    /\ roster[m] = "here" /\ account[m] = {} /\ jti[m] = t /\ SeatsOf(u) = {}
    /\ ClaimWith(p, u, m, t)

\* Adding the account to those linked before, and setting it.
CommitClaimBeside(p) ==
    /\ ClaimEnds(p, "claim")
    /\ LET put(new, old) == [m \in Seat |-> IF m \in claimReq[p].on THEN new ELSE old[m]]
       IN  /\ account' = [m \in Seat |-> account[m] \cup
                                          IF m \in claimReq[p].on THEN claimReq[p].user ELSE {}]
           /\ jti' = put(0, jti)
           /\ via' = put(claimReq[p].token, via)
    /\ UNCHANGED <<roster, minted>>

CommitClaim(p) ==
    /\ ClaimEnds(p, "claim")
    /\ LET put(new, old) == [m \in Seat |-> IF m \in claimReq[p].on THEN new ELSE old[m]]
       IN  /\ account' = put(claimReq[p].user, account)
           /\ jti' = put(0, jti)
           /\ via' = put(claimReq[p].token, via)
    /\ UNCHANGED <<roster, minted>>
-----------------------------------------------------------------------------
(* Links by email, and members who come and go. *)

\* create_member
AddToRoster(m) ==
    /\ roster[m] = "absent"
    /\ roster' = [roster EXCEPT ![m] = "here"]
    /\ UNCHANGED <<account, jti, via>> /\ MembersChange

\* invite_admin_member: linked at once to the account with that address, which
\* may have another member here; it has a token all the same.
AddAdmin(m) ==
    /\ roster[m] = "absent" /\ MaxTokens > 0
    /\ roster' = [roster EXCEPT ![m] = "here"]
    /\ account' = [account EXCEPT ![m] = Mailbox[m]]
    /\ jti' = [jti EXCEPT ![m] = 1] /\ minted' = [minted EXCEPT ![m] = 1]
    /\ UNCHANGED <<claimReq, via>> /\ Crosses(ClaimSession)

\* _autolink_unclaimed_members when the user signs in: all that have the
\* address, whatever tokens they honour.
AutolinkUnclaimed(u) ==
    LET found == {m \in Seat : roster[m] = "here" /\ account[m] = {} /\ u \in Mailbox[m]}
    IN  /\ found # {}
        /\ account' = [m \in Seat |-> IF m \in found THEN {u} ELSE account[m]]
        /\ UNCHANGED <<roster, jti, via>> /\ MembersChange

\* delete_member, and purge_member, which also clears the link and the token.
DropFromRoster(m) ==
    /\ roster[m] = "here"
    /\ roster' = [roster EXCEPT ![m] = "gone"]
    /\ UNCHANGED <<account, jti, via>> /\ MembersChange

PurgeSeat(m) ==
    /\ roster[m] # "absent"
    /\ roster' = [roster EXCEPT ![m] = "gone"]
    /\ account' = [account EXCEPT ![m] = {}]
    /\ jti' = [jti EXCEPT ![m] = 0]
    /\ UNCHANGED via /\ MembersChange
-----------------------------------------------------------------------------
ClaimsInit ==
    /\ roster = [m \in Seat |-> "absent"]
    /\ account = [m \in Seat |-> {}]
    /\ jti = [m \in Seat |-> 0] /\ minted = [m \in Seat |-> 0]
    /\ claimReq = [p \in ClaimSession |-> ClaimIdle]
    /\ via = [m \in Seat |-> 0] /\ crossed = FALSE

ClaimsNext ==
    \/ \E p \in ClaimSession, m \in Seat : InviteMember(p, m)
    \/ \E p \in ClaimSession : CommitInvite(p)
    \/ \E p \in ClaimSession, u \in Account, m \in Seat :
           \E t \in 1..minted[m] : ClaimMember(p, u, m, t)
    \/ \E p \in ClaimSession : CommitClaim(p)
    \/ \E u \in Account : AutolinkUnclaimed(u)
    \/ \E m \in Seat : AddToRoster(m) \/ AddAdmin(m) \/ DropFromRoster(m) \/ PurgeSeat(m)

ClaimsSpec == ClaimsInit /\ [][ClaimsNext]_claimsVars
-----------------------------------------------------------------------------
(* Type correctness; a member has one account at most. *)
ClaimsTypeOK ==
    /\ roster \in [Seat -> {"absent", "here", "gone"}]
    /\ account \in [Seat -> AtMostOne]
    /\ jti \in [Seat -> Nat] /\ via \in [Seat -> Nat] /\ minted \in [Seat -> Nat]
    /\ claimReq \in [ClaimSession -> [op : {"idle", "invite", "claim"}, on : SUBSET Seat,
                                      user : AtMostOne, token : Nat]]
    /\ crossed \in BOOLEAN

(* Whoever claimed a member did it with the last token ever minted for them:
   one that a new invitation replaced lets nobody in, and none is minted for
   a member who was claimed, unless members changed between the check of an
   invitation or a claim and its commit. *)
SeatOnLastToken == ~crossed => \A m \in Seat : via[m] \in {0, minted[m]}

(* Nobody claims a second member of the tenant, whether the first was claimed
   or linked by its email address, under the same condition.  (A link by
   email gives an account all the members with its address.) *)
OneSeatClaimed ==
    [][\A m \in Seat : ~crossed' /\ via'[m] # via[m]
                         => \A u \in account'[m] : SeatsOf(u)' = {m}]_claimsVars
=============================================================================
