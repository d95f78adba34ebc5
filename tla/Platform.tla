------------------------------ MODULE Platform ------------------------------
(***************************************************************************)
(* The control plane (backend/app/routers/platform.py): one tenant's       *)
(* suspension, export and deletion (core/deletion.py) beside the requests  *)
(* of its members (core/tenant.py), and the platform's superadmins.        *)
(* Handlers read, and commit later.  Times are ticks of one clock.         *)
(***************************************************************************)
EXTENDS Integers, FiniteSets

CONSTANTS
    Operator,     \* requests of superadmins being served at once
    Client,       \* requests of the tenant's members being served at once
    Row,          \* rows members may add
    Officer,      \* users who may be superadmins
    FirstOfficer, \* the one the deployment names
    MaxTicks      \* bound on the times stamped

ASSUME PlatformAssumption == FirstOfficer \in Officer /\ MaxTicks \in Nat

VARIABLES
    tenant,    \* [there, suspended, exportedAt]; 0 for null
    stored,    \* its rows
    late,      \* history: rows committed once a suspension had begun
    bundled,   \* history: rows in some export that was answered
    ticks,     \* the clock
    officers,  \* the superadmins
    desk,      \* what each operator's request has read
    client     \* what each member's request is about to add

platformVars == <<tenant, stored, late, bundled, ticks, officers, desk, client>>

DeskIdle == [op |-> "idle", at |-> 0, took |-> {}, who |-> {}, stale |-> FALSE]

\* A check is stale once its tenant or the superadmins changed.
Stale(q) ==
    [desk[q] EXCEPT !.stale = @ \/ /\ desk[q].op # "idle"
                                   /\ \/ officers' # officers
                                      \/ tenant'.suspended # tenant.suspended]
DeskReads(p, r) ==
    officers # {} /\ desk[p] = DeskIdle /\ desk' = [desk EXCEPT ![p] = r]
DeskEnds(p, op) ==
    /\ desk[p].op = op
    /\ desk' = [q \in Operator |-> IF q = p THEN DeskIdle ELSE Stale(q)]
\* From the time a suspension takes to its end, and after the tenant's end.
Suspending ==
    ~tenant.there \/ tenant.suspended # 0 \/ \E p \in Operator : desk[p].op = "suspend"
TenantOnly == UNCHANGED <<officers, client>>
-----------------------------------------------------------------------------
(* The tenant's life. *)

\* suspend_tenant reads the clock; a tenant that is suspended stays as it is.
SuspendTenant(p) ==
    /\ tenant.there /\ tenant.suspended = 0 /\ ticks < MaxTicks
    /\ DeskReads(p, [DeskIdle EXCEPT !.op = "suspend", !.at = ticks + 1])
    /\ ticks' = ticks + 1
    /\ UNCHANGED <<tenant, stored, late, bundled>> /\ TenantOnly

CommitSuspend(p) ==
    /\ tenant' = IF tenant.there THEN [tenant EXCEPT !.suspended = desk[p].at] ELSE tenant
    /\ UNCHANGED <<stored, late, bundled, ticks>> /\ TenantOnly /\ DeskEnds(p, "suspend")

UnsuspendTenant(p) ==
    /\ tenant.there /\ tenant.suspended # 0
    /\ DeskReads(p, [DeskIdle EXCEPT !.op = "unsuspend"])
    /\ UNCHANGED <<tenant, stored, late, bundled, ticks>> /\ TenantOnly

CommitUnsuspend(p) ==
    /\ tenant' = IF tenant.there THEN [tenant EXCEPT !.suspended = 0] ELSE tenant
    /\ UNCHANGED <<stored, late, bundled, ticks>> /\ TenantOnly /\ DeskEnds(p, "unsuspend")

\* export_tenant takes its time before it reads any table ...
ExportTenant(p) ==
    /\ tenant.there /\ ticks < MaxTicks
    /\ DeskReads(p, [DeskIdle EXCEPT !.op = "export", !.at = ticks + 1])
    /\ ticks' = ticks + 1
    /\ UNCHANGED <<tenant, stored, late, bundled>> /\ TenantOnly

ReadTables(p) ==
    /\ desk[p].op = "export"
    /\ desk' = [desk EXCEPT ![p].op = "bundle", ![p].took = stored]
    /\ UNCHANGED <<tenant, stored, late, bundled, ticks>> /\ TenantOnly

\* ... and commits last_export_at before the bundle is answered.
CommitExport(p) ==
    /\ tenant' = IF tenant.there THEN [tenant EXCEPT !.exportedAt = desk[p].at] ELSE tenant
    /\ bundled' = IF tenant.there THEN bundled \cup desk[p].took ELSE bundled
    /\ UNCHANGED <<stored, late, ticks>> /\ TenantOnly /\ DeskEnds(p, "bundle")

\* Asking for an export, whenever it was taken.
DeleteExported(p) ==
    /\ tenant.there /\ tenant.suspended # 0 /\ tenant.exportedAt # 0
    /\ DeskReads(p, [DeskIdle EXCEPT !.op = "delete", !.took = stored])
    /\ UNCHANGED <<tenant, stored, late, bundled, ticks>> /\ TenantOnly

\* Asking for an export, of a tenant that may be in use.
DeleteAnyTime(p) ==
    /\ tenant.there /\ tenant.exportedAt # 0 /\ tenant.exportedAt >= tenant.suspended
    /\ DeskReads(p, [DeskIdle EXCEPT !.op = "delete", !.took = stored])
    /\ UNCHANGED <<tenant, stored, late, bundled, ticks>> /\ TenantOnly

\* delete_tenant: suspended, and exported since.  What is stored now will be
\* met by the purge.
DeleteTenant(p) ==
    /\ tenant.there /\ tenant.suspended # 0 /\ tenant.exportedAt >= tenant.suspended
    /\ DeskReads(p, [DeskIdle EXCEPT !.op = "delete", !.took = stored])
    /\ UNCHANGED <<tenant, stored, late, bundled, ticks>> /\ TenantOnly

\* purge_tenant deletes table by table, then the tenant: a row committed
\* meanwhile is met or left, as its table's turn was still to come or over.
CommitDeleteTenant(p) ==
    /\ tenant' = [there |-> FALSE, suspended |-> 0, exportedAt |-> 0]
    /\ \E left \in SUBSET (stored \ desk[p].took) : stored' = left
    /\ UNCHANGED <<late, bundled, ticks>> /\ TenantOnly /\ DeskEnds(p, "delete")

\* A request that never commits: it died, or a row that came to a table whose
\* turn was over refers to one the purge wants to delete.
DeskFails(p) ==
    /\ desk[p].op # "idle" /\ UNCHANGED <<tenant, stored, late, bundled, ticks>>
    /\ TenantOnly /\ DeskEnds(p, desk[p].op)

\* _reject_if_suspended when a member's request begins ...
ClientBegins(c, x) ==
    /\ tenant.there /\ tenant.suspended = 0 /\ client[c] = {} /\ x \notin stored \cup late
    /\ client' = [client EXCEPT ![c] = {x}]
    /\ UNCHANGED <<tenant, stored, late, bundled, ticks, officers, desk>>

\* ... and not again when it commits.  tenant_id refers to no table: the row is
\* stored even when its tenant is gone.
ClientCommits(c) ==
    /\ client[c] # {}
    /\ client' = [client EXCEPT ![c] = {}]
    /\ stored' = stored \cup client[c]
    /\ late' = IF Suspending THEN late \cup client[c] ELSE late
    /\ UNCHANGED <<tenant, bundled, ticks, officers, desk>>

\* A member's request that ends without a row: it died, or a row it refers to
\* is gone.
ClientFails(c) ==
    /\ client[c] # {}
    /\ client' = [client EXCEPT ![c] = {}]
    /\ UNCHANGED <<tenant, stored, late, bundled, ticks, officers, desk>>
-----------------------------------------------------------------------------
(* Superadmins. *)

OfficersOnly == UNCHANGED <<tenant, stored, late, bundled, ticks, client>>

\* revoke_platform_admin: not the last superadmin.
RevokePlatformAdmin(p, u) ==
    /\ u \in officers /\ officers \ {u} # {}
    /\ DeskReads(p, [DeskIdle EXCEPT !.op = "revoke", !.who = {u}])
    /\ OfficersOnly /\ UNCHANGED officers

CommitRevoke(p) ==
    /\ officers' = officers \ desk[p].who
    /\ OfficersOnly /\ DeskEnds(p, "revoke")

\* grant_platform_admin sets the role it is given, whatever the user's was: a
\* lesser one takes a superadmin's, the last one's too.
GrantPlatformAdmin(u, superadmin) ==
    /\ officers # {}
    /\ officers' = IF superadmin THEN officers \cup {u} ELSE officers \ {u}
    /\ OfficersOnly /\ desk' = [q \in Operator |-> Stale(q)]

\* _bootstrap_superadmin, when the user the deployment names signs in without
\* a platform role.
BootstrapSuperadmin ==
    /\ officers' = officers \cup {FirstOfficer}
    /\ OfficersOnly /\ desk' = [q \in Operator |-> Stale(q)]
-----------------------------------------------------------------------------
PlatformInit ==
    /\ tenant = [there |-> TRUE, suspended |-> 0, exportedAt |-> 0]
    /\ stored = {} /\ late = {} /\ bundled = {} /\ ticks = 0
    /\ officers = {FirstOfficer}
    /\ desk = [p \in Operator |-> DeskIdle]
    /\ client = [c \in Client |-> {}]

TenantNext ==
    \/ \E p \in Operator : SuspendTenant(p) \/ CommitSuspend(p)
    \/ \E p \in Operator : UnsuspendTenant(p) \/ CommitUnsuspend(p)
    \/ \E p \in Operator : ExportTenant(p) \/ ReadTables(p) \/ CommitExport(p)
    \/ \E p \in Operator : DeleteTenant(p) \/ CommitDeleteTenant(p) \/ DeskFails(p)
    \/ \E c \in Client : (\E x \in Row : ClientBegins(c, x)) \/ ClientCommits(c) \/ ClientFails(c)

OfficersNext ==
    \/ \E p \in Operator : (\E u \in Officer : RevokePlatformAdmin(p, u)) \/ CommitRevoke(p) \/ DeskFails(p)
    \/ \E u \in Officer, superadmin \in BOOLEAN : GrantPlatformAdmin(u, superadmin)
    \/ BootstrapSuperadmin

PlatformNext == TenantNext \/ OfficersNext

PlatformSpec == PlatformInit /\ [][PlatformNext]_platformVars
-----------------------------------------------------------------------------
(* Type correctness: a deletion under way, unless its check is stale, is of a
   suspended tenant, and a tenant that is gone has no times. *)
PlatformTypeOK ==
    /\ tenant \in [there : BOOLEAN, suspended : 0..MaxTicks, exportedAt : 0..MaxTicks]
    /\ (~tenant.there => tenant.suspended = 0 /\ tenant.exportedAt = 0)
    /\ stored \subseteq Row /\ late \subseteq Row /\ bundled \subseteq Row
    /\ ticks \in 0..MaxTicks /\ officers \subseteq Officer
    /\ desk \in [Operator -> [op : {"idle", "suspend", "unsuspend", "export", "bundle",
                                    "delete", "revoke"},
                              at : 0..MaxTicks, took : SUBSET Row, who : SUBSET Officer,
                              stale : BOOLEAN]]
    /\ \A p \in Operator : desk[p].op = "delete" /\ ~desk[p].stale => tenant.suspended # 0
    /\ client \in [Client -> SUBSET Row]

(* "The export is the recovery path": whatever suspensions, exports and writes
   preceded it, a deletion takes no row that no export has, unless the row was
   committed after a suspension took its time or the suspension changed
   between the deletion's check and its commit. *)
DeletedIsExported ==
    [][tenant.there /\ ~tenant'.there
         => \/ stored \ stored' \subseteq bundled \cup late
            \/ \E p \in Operator : desk[p].op = "delete" /\ desk[p].stale]_platformVars

(* "Permanently delete a tenant and every row it owns": whatever operators and
   members do while it is purged table by table, what a deletion leaves behind
   was committed after a suspension took its time, by a request let in before,
   unless the suspension changed between the deletion's check and its commit. *)
OnlyLateRowsOutlive ==
    [][tenant.there /\ ~tenant'.there
         => \/ stored' \subseteq late'
            \/ \E p \in Operator : desk[p].op = "delete" /\ desk[p].stale]_platformVars

(* "The platform must keep at least one" superadmin: no revocation takes the
   last one, unless superadmins changed since its check.  (A grant may.) *)
SuperadminRemains ==
    [][\A p \in Operator :
          desk[p].op = "revoke" /\ desk'[p].op = "idle" /\ ~desk[p].stale
          => officers' # {}]_platformVars
=============================================================================
