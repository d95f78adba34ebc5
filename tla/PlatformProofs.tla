--------------------------- MODULE PlatformProofs ---------------------------
(***************************************************************************)
(* Proofs about Platform, for any operators, clients, rows and officers:   *)
(* the types, that a deletion takes no row that no export has and leaves   *)
(* late ones only, and that no revocation takes the last superadmin.       *)
(*                                                                         *)
(* A deletion only compares two times.  What they stand for is in the      *)
(* invariant: since a suspension took its time every row committed is      *)
(* known as late, so an export that took its time after it reads every     *)
(* other row there will be (Exported).                                     *)
(***************************************************************************)
EXTENDS Platform, TLAPS

DeskReq == [op : {"idle", "suspend", "unsuspend", "export", "bundle", "delete", "revoke"},
            at : 0..MaxTicks, took : SUBSET Row, who : SUBSET Officer, stale : BOOLEAN]

Life == [there : BOOLEAN, suspended : 0..MaxTicks, exportedAt : 0..MaxTicks]

\* The time of a suspension that is in force or about to be.
Mark(s) ==
    \/ s # 0 /\ tenant.suspended = s
    \/ \E p \in Operator : desk[p].op = "suspend" /\ desk[p].at = s

Covered == stored \subseteq bundled \cup late

\* No time is ahead of the clock.
Timely == tenant.exportedAt <= ticks /\ \A p \in Operator : desk[p].at <= ticks

\* Exports later than a suspension have all that is not late.
Exported ==
    \A s \in 0..MaxTicks : Mark(s) =>
        /\ tenant.exportedAt >= s => Covered
        /\ \A p \in Operator : desk[p].op = "bundle" /\ desk[p].at >= s
                                 => stored \subseteq desk[p].took \cup late

\* What the checks of deletions and revocations found.
Vetted ==
    \A p \in Operator : ~desk[p].stale =>
        /\ desk[p].op = "delete" => tenant.suspended # 0 /\ Covered
        /\ desk[p].op = "revoke" => officers \ desk[p].who # {}

\* The types alone.
PlatformShape ==
    /\ tenant \in Life /\ (~tenant.there => tenant.suspended = 0 /\ tenant.exportedAt = 0)
    /\ stored \subseteq Row /\ late \subseteq Row /\ bundled \subseteq Row
    /\ ticks \in 0..MaxTicks /\ officers \subseteq Officer
    /\ desk \in [Operator -> DeskReq] /\ client \in [Client -> SUBSET Row]

PlatformInv == PlatformShape /\ Timely /\ Exported /\ Vetted

\* The request of an operator who does nothing in this step.
Kept(q) ==
    /\ desk'[q].op = desk[q].op /\ desk'[q].at = desk[q].at
    /\ desk'[q].took = desk[q].took /\ desk'[q].who = desk[q].who
    /\ ~desk'[q].stale => /\ ~desk[q].stale
                          /\ desk[q].op # "idle" => /\ officers' = officers
                                                    /\ tenant'.suspended = tenant.suspended
-----------------------------------------------------------------------------
LEMMA DeskIdleType ==
    /\ DeskIdle \in DeskReq /\ DeskIdle.op = "idle" /\ DeskIdle.at = 0
BY PlatformAssumption DEF DeskIdle, DeskReq

LEMMA StaleType ==
    ASSUME desk \in [Operator -> DeskReq], NEW q \in Operator
    PROVE  /\ Stale(q) \in DeskReq
           /\ Stale(q).op = desk[q].op /\ Stale(q).at = desk[q].at
           /\ Stale(q).took = desk[q].took /\ Stale(q).who = desk[q].who
           /\ ~Stale(q).stale => /\ ~desk[q].stale
                                 /\ desk[q].op # "idle" => /\ officers' = officers
                                                           /\ tenant'.suspended = tenant.suspended
<1>1. desk[q] \in DeskReq
  OBVIOUS
<1>2. CASE desk[q].op # "idle" /\ (officers' # officers \/ tenant'.suspended # tenant.suspended)
  <2>1. Stale(q) = [desk[q] EXCEPT !.stale = TRUE]
    BY <1>1, <1>2 DEF Stale, DeskReq
  <2> QED
    BY <1>1, <2>1 DEF DeskReq
<1>3. CASE ~(desk[q].op # "idle"
             /\ (officers' # officers \/ tenant'.suspended # tenant.suspended))
  <2>1. Stale(q) = [desk[q] EXCEPT !.stale = desk[q].stale]
    BY <1>1, <1>3 DEF Stale, DeskReq
  <2> QED
    BY <1>1, <1>3, <2>1 DEF DeskReq
<1> QED
  BY <1>2, <1>3

\* A request that begins, one that ends, and steps that are nobody's.
LEMMA DeskSteps ==
    ASSUME desk \in [Operator -> DeskReq]
    PROVE  /\ \A p \in Operator : \A r \in DeskReq :
                 DeskReads(p, r) => /\ desk' \in [Operator -> DeskReq] /\ desk'[p] = r
                                    /\ \A q \in Operator \ {p} : desk'[q] = desk[q]
           /\ \A p \in Operator : \A op :
                 DeskEnds(p, op) => /\ desk' \in [Operator -> DeskReq]
                                    /\ desk[p].op = op /\ desk'[p] = DeskIdle
                                    /\ \A q \in Operator \ {p} : Kept(q)
           /\ desk' = [q \in Operator |-> Stale(q)]
                => desk' \in [Operator -> DeskReq] /\ \A q \in Operator : Kept(q)
<1>1. ASSUME NEW p \in Operator, NEW r \in DeskReq, DeskReads(p, r)
      PROVE  /\ desk' \in [Operator -> DeskReq] /\ desk'[p] = r
             /\ \A q \in Operator \ {p} : desk'[q] = desk[q]
  BY <1>1 DEF DeskReads
<1>2. ASSUME NEW p \in Operator, NEW op, DeskEnds(p, op)
      PROVE  /\ desk' \in [Operator -> DeskReq]
             /\ desk[p].op = op /\ desk'[p] = DeskIdle
             /\ \A q \in Operator \ {p} : Kept(q)
  <2>1. desk[p].op = op /\ desk' = [q \in Operator |-> IF q = p THEN DeskIdle ELSE Stale(q)]
    BY <1>2 DEF DeskEnds
  <2>2. desk' \in [Operator -> DeskReq] /\ desk'[p] = DeskIdle
    BY <2>1, DeskIdleType, StaleType
  <2>3. ASSUME NEW q \in Operator \ {p} PROVE Kept(q)
    <3>1. desk'[q] = Stale(q)
      BY <2>1, <2>3
    <3> QED
      BY <2>3, <3>1, StaleType DEF Kept
  <2> QED
    BY <2>1, <2>2, <2>3
<1>3. ASSUME desk' = [q \in Operator |-> Stale(q)]
      PROVE  desk' \in [Operator -> DeskReq] /\ \A q \in Operator : Kept(q)
  <2>1. desk' \in [Operator -> DeskReq]
    BY <1>3, StaleType
  <2>2. ASSUME NEW q \in Operator PROVE Kept(q)
    <3>1. desk'[q] = Stale(q)
      BY <1>3, <2>2
    <3> QED
      BY <2>2, <3>1, StaleType DEF Kept
  <2> QED
    BY <2>1, <2>2
<1> QED
  BY <1>1, <1>2, <1>3

\* The records requests check in with.
LEMMA ReadTypes ==
    /\ \A at \in 0..MaxTicks, op \in {"suspend", "export"} :
          LET r == [DeskIdle EXCEPT !.op = op, !.at = at]
          IN  r \in DeskReq /\ r.op = op /\ r.at = at
    /\ LET r == [DeskIdle EXCEPT !.op = "unsuspend"]
       IN  r \in DeskReq /\ r.op = "unsuspend" /\ r.at = 0
    /\ \A took \in SUBSET Row :
          LET r == [DeskIdle EXCEPT !.op = "delete", !.took = took]
          IN  r \in DeskReq /\ r.op = "delete" /\ r.at = 0
    /\ \A u \in Officer :
          LET r == [DeskIdle EXCEPT !.op = "revoke", !.who = {u}]
          IN  r \in DeskReq /\ r.op = "revoke" /\ r.at = 0 /\ r.who = {u}
<1>0. 0 \in 0..MaxTicks
  BY PlatformAssumption
<1>1. \A at \in 0..MaxTicks, op \in {"suspend", "export"} :
         LET r == [DeskIdle EXCEPT !.op = op, !.at = at]
         IN  r \in DeskReq /\ r.op = op /\ r.at = at
  BY DEF DeskIdle, DeskReq
<1>2. LET r == [DeskIdle EXCEPT !.op = "unsuspend"]
      IN  r \in DeskReq /\ r.op = "unsuspend" /\ r.at = 0
  BY <1>0 DEF DeskIdle, DeskReq
<1>4. \A took \in SUBSET Row :
         LET r == [DeskIdle EXCEPT !.op = "delete", !.took = took]
         IN  r \in DeskReq /\ r.op = "delete" /\ r.at = 0
  BY <1>0 DEF DeskIdle, DeskReq
<1>3. \A u \in Officer :
         LET r == [DeskIdle EXCEPT !.op = "revoke", !.who = {u}]
         IN  r \in DeskReq /\ r.op = "revoke" /\ r.at = 0 /\ r.who = {u}
  BY <1>0 DEF DeskIdle, DeskReq
<1> QED
  BY <1>1, <1>2, <1>3, <1>4

-----------------------------------------------------------------------------
(* Types. *)

LEMMA PlatformShapeInit == PlatformInit => PlatformShape
<1> SUFFICES ASSUME PlatformInit PROVE PlatformShape
  OBVIOUS
<1>1. desk \in [Operator -> DeskReq]
  BY DeskIdleType DEF PlatformInit
<1>2. tenant \in Life
  BY PlatformAssumption DEF PlatformInit, Life
<1>3. /\ stored = {} /\ late \subseteq Row /\ bundled \subseteq Row
      /\ ticks \in 0..MaxTicks /\ officers \subseteq Officer
      /\ client \in [Client -> SUBSET Row]
  BY PlatformAssumption DEF PlatformInit
<1> QED
  BY <1>1, <1>2, <1>3 DEF PlatformShape, PlatformInit

LEMMA PlatformShapeStep == PlatformShape /\ [PlatformNext]_platformVars => PlatformShape'
<1> SUFFICES ASSUME PlatformShape, [PlatformNext]_platformVars PROVE PlatformShape'
  OBVIOUS
<1>0. /\ tenant \in Life /\ desk \in [Operator -> DeskReq]
      /\ (~tenant.there => tenant.suspended = 0 /\ tenant.exportedAt = 0)
      /\ stored \subseteq Row
      /\ late \subseteq Row /\ bundled \subseteq Row
      /\ ticks \in 0..MaxTicks /\ officers \subseteq Officer
      /\ client \in [Client -> SUBSET Row]
  BY DEF PlatformShape
<1>t. ASSUME tenant' \in Life, desk' \in [Operator -> DeskReq],
             ~tenant'.there => tenant'.suspended = 0 /\ tenant'.exportedAt = 0,
             stored' \subseteq Row,
             late' \subseteq Row, bundled' \subseteq Row,
             ticks' \in 0..MaxTicks, officers' \subseteq Officer,
             client' \in [Client -> SUBSET Row]
      PROVE  PlatformShape'
  BY <1>t DEF PlatformShape
<1>c. ticks < MaxTicks => ticks + 1 \in 0..MaxTicks
  BY <1>0, PlatformAssumption
<1>d. \A p \in Operator : /\ desk[p].at \in 0..MaxTicks /\ desk[p].took \subseteq Row
                          /\ desk[p].who \subseteq Officer
  BY <1>0 DEF DeskReq
<1>1. ASSUME NEW p \in Operator, SuspendTenant(p) PROVE PlatformShape'
  BY <1>0, <1>1, <1>c, <1>t, DeskSteps, ReadTypes DEF SuspendTenant, TenantOnly
<1>2. ASSUME NEW p \in Operator, CommitSuspend(p) PROVE PlatformShape'
  <2>1. tenant' \in Life /\ (~tenant'.there => tenant'.suspended = 0 /\ tenant'.exportedAt = 0)
    BY <1>0, <1>2, <1>d DEF CommitSuspend, Life
  <2> QED
    BY <1>0, <1>2, <1>t, <2>1, DeskSteps DEF CommitSuspend, TenantOnly
<1>3. ASSUME NEW p \in Operator, UnsuspendTenant(p) PROVE PlatformShape'
  BY <1>0, <1>3, <1>t, DeskSteps, ReadTypes DEF UnsuspendTenant, TenantOnly
<1>4. ASSUME NEW p \in Operator, CommitUnsuspend(p) PROVE PlatformShape'
  <2>1. tenant' \in Life /\ (~tenant'.there => tenant'.suspended = 0 /\ tenant'.exportedAt = 0)
    BY <1>0, <1>4, PlatformAssumption DEF CommitUnsuspend, Life
  <2> QED
    BY <1>0, <1>4, <1>t, <2>1, DeskSteps DEF CommitUnsuspend, TenantOnly
<1>5. ASSUME NEW p \in Operator, ExportTenant(p) PROVE PlatformShape'
  BY <1>0, <1>5, <1>c, <1>t, DeskSteps, ReadTypes DEF ExportTenant, TenantOnly
<1>6. ASSUME NEW p \in Operator, ReadTables(p) PROVE PlatformShape'
  <2> DEFINE r == [desk[p] EXCEPT !.op = "bundle", !.took = stored]
  <2>0. desk' = [desk EXCEPT ![p] = r]
    BY <1>6 DEF ReadTables
  <2>r. desk[p] \in DeskReq /\ stored \in SUBSET Row
    BY <1>0
  <2>2. r \in DeskReq
    BY <2>r DEF DeskReq
  <2>1. desk' \in [Operator -> DeskReq]
    <3> HIDE DEF r
    <3> QED
      BY <1>0, <2>0, <2>2
  <2> QED
    BY <1>0, <1>6, <1>t, <2>1 DEF ReadTables, TenantOnly
<1>7. ASSUME NEW p \in Operator, CommitExport(p) PROVE PlatformShape'
  <2>1. tenant' \in Life /\ (~tenant'.there => tenant'.suspended = 0 /\ tenant'.exportedAt = 0)
    BY <1>0, <1>7, <1>d DEF CommitExport, Life
  <2>2. bundled' \subseteq Row
    BY <1>0, <1>7, <1>d DEF CommitExport
  <2> QED
    BY <1>0, <1>7, <1>t, <2>1, <2>2, DeskSteps DEF CommitExport, TenantOnly
<1>8. ASSUME NEW p \in Operator, DeleteTenant(p) PROVE PlatformShape'
  BY <1>0, <1>8, <1>t, DeskSteps, ReadTypes DEF DeleteTenant, TenantOnly
<1>9. ASSUME NEW p \in Operator, CommitDeleteTenant(p) PROVE PlatformShape'
  <2>1. tenant' \in Life /\ tenant'.suspended = 0 /\ tenant'.exportedAt = 0
    BY <1>9, PlatformAssumption DEF CommitDeleteTenant, Life
  <2> QED
    BY <1>0, <1>9, <1>t, <2>1, DeskSteps DEF CommitDeleteTenant, TenantOnly
<1>10. ASSUME NEW c \in Client, NEW x \in Row, ClientBegins(c, x) PROVE PlatformShape'
  BY <1>0, <1>10, <1>t DEF ClientBegins
<1>11. ASSUME NEW c \in Client, ClientCommits(c) PROVE PlatformShape'
  <2>1. client[c] \subseteq Row /\ client' \in [Client -> SUBSET Row]
    BY <1>0, <1>11 DEF ClientCommits
  <2> QED
    BY <1>0, <1>11, <1>t, <2>1 DEF ClientCommits
<1>12. ASSUME NEW p \in Operator, NEW u \in Officer, RevokePlatformAdmin(p, u)
       PROVE  PlatformShape'
  BY <1>0, <1>12, <1>t, DeskSteps, ReadTypes DEF RevokePlatformAdmin, OfficersOnly
<1>13. ASSUME NEW p \in Operator, CommitRevoke(p) PROVE PlatformShape'
  BY <1>0, <1>13, <1>t, DeskSteps DEF CommitRevoke, OfficersOnly
<1>14. ASSUME NEW u \in Officer, NEW superadmin \in BOOLEAN, GrantPlatformAdmin(u, superadmin)
       PROVE  PlatformShape'
  BY <1>0, <1>14, <1>t, DeskSteps DEF GrantPlatformAdmin, OfficersOnly
<1>15. CASE BootstrapSuperadmin
  BY <1>0, <1>15, <1>t, DeskSteps, PlatformAssumption DEF BootstrapSuperadmin, OfficersOnly
<1>17. ASSUME NEW p \in Operator, DeskFails(p) PROVE PlatformShape'
  BY <1>0, <1>17, <1>t, DeskSteps DEF DeskFails, TenantOnly
<1>18. ASSUME NEW c \in Client, ClientFails(c) PROVE PlatformShape'
  BY <1>0, <1>18, <1>t DEF ClientFails
<1>16. CASE UNCHANGED platformVars
  BY <1>16 DEF platformVars, PlatformShape
<1> QED
  BY <1>1, <1>2, <1>3, <1>4, <1>5, <1>6, <1>7, <1>8, <1>9, <1>10, <1>11, <1>12, <1>13, <1>14,
     <1>15, <1>16, <1>17, <1>18 DEF PlatformNext, TenantNext, OfficersNext
-----------------------------------------------------------------------------
(* What steps preserve, by what they leave alone. *)

LEMMA ExportedKept ==
    ASSUME Exported, stored' = stored, tenant'.exportedAt = tenant.exportedAt,
           late \subseteq late', bundled \subseteq bundled',
           \A s \in 0..MaxTicks : Mark(s)' => Mark(s),
           \A p \in Operator : desk'[p].op = "bundle" =>
               /\ desk[p].op = "bundle" /\ desk'[p].at = desk[p].at
               /\ desk'[p].took = desk[p].took
    PROVE  Exported'
<1> SUFFICES ASSUME NEW s \in 0..MaxTicks, Mark(s)'
             PROVE  /\ tenant'.exportedAt >= s => Covered'
                    /\ \A p \in Operator : desk'[p].op = "bundle" /\ desk'[p].at >= s
                                             => stored' \subseteq desk'[p].took \cup late'
  BY DEF Exported
<1>1. Mark(s)
  OBVIOUS
<1>2. tenant.exportedAt >= s => Covered
  BY <1>1 DEF Exported
<1>3. \A p \in Operator : desk[p].op = "bundle" /\ desk[p].at >= s
                             => stored \subseteq desk[p].took \cup late
  BY <1>1 DEF Exported
<1>4. tenant'.exportedAt >= s => Covered'
  BY <1>2 DEF Covered
<1>5. ASSUME NEW p \in Operator, desk'[p].op = "bundle", desk'[p].at >= s
      PROVE  stored' \subseteq desk'[p].took \cup late'
  BY <1>3, <1>5
<1> QED
  BY <1>4, <1>5

\* Marks come from suspensions that begin only.
LEMMA MarksKept ==
    ASSUME tenant'.suspended \in {0, tenant.suspended},
           \A p \in Operator : desk'[p].op = "suspend" =>
               desk[p].op = "suspend" /\ desk'[p].at = desk[p].at
    PROVE  \A s : Mark(s)' => Mark(s)
BY DEF Mark

LEMMA VettedKept ==
    ASSUME Vetted,
           tenant.suspended # 0 /\ tenant'.suspended = tenant.suspended /\ Covered => Covered',
           \A p \in Operator : ~desk'[p].stale /\ desk'[p].op \in {"delete", "revoke"} =>
               /\ ~desk[p].stale /\ desk'[p].op = desk[p].op /\ desk'[p].who = desk[p].who
               /\ officers' = officers /\ tenant'.suspended = tenant.suspended
    PROVE  Vetted'
BY DEF Vetted
-----------------------------------------------------------------------------
(* The inductive invariant. *)

LEMMA PlatformInvInit == PlatformInit => PlatformInv
<1> SUFFICES ASSUME PlatformInit PROVE PlatformInv
  OBVIOUS
<1>1. \A p \in Operator : desk[p].op = "idle" /\ desk[p].at = 0
  BY DeskIdleType DEF PlatformInit
<1>2. Timely /\ Vetted
  BY <1>1 DEF PlatformInit, Timely, Vetted
<1>3. \A s : ~Mark(s)
  BY <1>1 DEF PlatformInit, Mark
<1> QED
  BY <1>2, <1>3, PlatformShapeInit DEF PlatformInv, Exported

LEMMA PlatformInvStep == PlatformInv /\ [PlatformNext]_platformVars => PlatformInv'
<1> SUFFICES ASSUME PlatformInv, [PlatformNext]_platformVars PROVE PlatformInv'
  OBVIOUS
<1>0. /\ tenant \in Life /\ desk \in [Operator -> DeskReq]
      /\ ticks \in 0..MaxTicks
      /\ PlatformShape /\ Timely /\ Exported /\ Vetted
  BY DEF PlatformInv, PlatformShape
<1>n. /\ ticks \in Nat /\ MaxTicks \in Nat
      /\ tenant.exportedAt \in 0..MaxTicks /\ tenant.suspended \in 0..MaxTicks
      /\ tenant.exportedAt <= ticks
      /\ \A p \in Operator : desk[p].at \in 0..MaxTicks /\ desk[p].at <= ticks
  <2>1. /\ tenant.exportedAt \in 0..MaxTicks /\ tenant.suspended \in 0..MaxTicks
        /\ tenant.exportedAt <= ticks
    BY <1>0 DEF Life, Timely
  <2>2. \A p \in Operator : desk[p].at \in 0..MaxTicks /\ desk[p].at <= ticks
    BY <1>0 DEF DeskReq, Timely
  <2>3. MaxTicks \in Nat
    BY PlatformAssumption
  <2> QED
    BY <1>0, <2>1, <2>2, <2>3
<1>t. PlatformShape'
  BY <1>0, PlatformShapeStep
<1> SUFFICES Timely' /\ Exported' /\ Vetted'
  BY <1>t DEF PlatformInv
\* Requests that begin, but for suspensions, and take no time of their own.
<1>r. ASSUME NEW p \in Operator, NEW r \in DeskReq, DeskReads(p, r),
             r.op \notin {"suspend", "bundle"}, r.at <= ticks',
             r.op = "delete" => tenant.suspended # 0 /\ Covered,
             r.op = "revoke" => officers \ r.who # {},
             ticks' \in Nat, ticks <= ticks', tenant' = tenant, stored' = stored,
             late' = late, bundled' = bundled, officers' = officers
      PROVE  Timely' /\ Exported' /\ Vetted'
  <2>1. desk'[p] = r /\ \A q \in Operator \ {p} : desk'[q] = desk[q]
    BY <1>0, <1>r, DeskSteps
  <2>2. Timely'
    BY <1>n, <1>r, <2>1 DEF Timely
  <2>3. \A s : Mark(s)' => Mark(s)
    BY <1>r, <2>1, MarksKept
  <2>4. Exported'
    BY <1>0, <1>r, <2>1, <2>3, ExportedKept
  <2>5. Covered' <=> Covered
    BY <1>r DEF Covered
  <2>6. Vetted'
    <3> SUFFICES ASSUME NEW q \in Operator, ~desk'[q].stale
                 PROVE  /\ desk'[q].op = "delete" => tenant'.suspended # 0 /\ Covered'
                        /\ desk'[q].op = "revoke" => officers' \ desk'[q].who # {}
      BY DEF Vetted
    <3>1. CASE q = p
      BY <1>r, <2>1, <2>5, <3>1
    <3>2. CASE q # p
      BY <1>0, <1>r, <2>1, <2>5, <3>2 DEF Vetted
    <3> QED
      BY <3>1, <3>2
  <2> QED
    BY <2>2, <2>4, <2>6
\* Requests that end.
<1>e. ASSUME NEW p \in Operator, NEW op, DeskEnds(p, op), ticks' = ticks
      PROVE  /\ desk[p].op = op /\ desk'[p].op = "idle" /\ desk'[p].at = 0
             /\ \A q \in Operator \ {p} : Kept(q)
             /\ tenant'.exportedAt <= ticks => Timely'
             /\ (tenant.suspended # 0 /\ tenant'.suspended = tenant.suspended /\ Covered
                   => Covered') => Vetted'
             /\ /\ stored' = stored /\ tenant'.exportedAt = tenant.exportedAt
                /\ late' = late /\ bundled' = bundled
                /\ \A s \in 0..MaxTicks : Mark(s)' => Mark(s)
                => Exported'
  <2>1. /\ desk[p].op = op /\ desk'[p].op = "idle" /\ desk'[p].at = 0
        /\ \A q \in Operator \ {p} : Kept(q)
    BY <1>0, <1>e, DeskSteps, DeskIdleType
  <2>2. ASSUME tenant'.exportedAt <= ticks PROVE Timely'
    BY <1>n, <1>e, <2>1, <2>2 DEF Timely, Kept
  <2>3. ASSUME tenant.suspended # 0 /\ tenant'.suspended = tenant.suspended /\ Covered => Covered'
        PROVE  Vetted'
    <3>1. \A q \in Operator : ~desk'[q].stale /\ desk'[q].op \in {"delete", "revoke"} =>
             /\ ~desk[q].stale /\ desk'[q].op = desk[q].op /\ desk'[q].who = desk[q].who
             /\ officers' = officers /\ tenant'.suspended = tenant.suspended
      BY <2>1 DEF Kept
    <3> QED
      BY <1>0, <2>3, <3>1, VettedKept
  <2>4. ASSUME stored' = stored, tenant'.exportedAt = tenant.exportedAt,
               late' = late, bundled' = bundled,
               \A s \in 0..MaxTicks : Mark(s)' => Mark(s)
        PROVE  Exported'
    <3>1. \A q \in Operator : desk'[q].op = "bundle" =>
             /\ desk[q].op = "bundle" /\ desk'[q].at = desk[q].at
             /\ desk'[q].took = desk[q].took
      BY <2>1 DEF Kept
    <3> QED
      BY <1>0, <2>4, <3>1, ExportedKept
  <2> QED
    BY <2>1, <2>2, <2>3, <2>4
\* Steps that are nobody's change the officers only.
<1>o. ASSUME OfficersOnly, desk' = [q \in Operator |-> Stale(q)]
      PROVE  Timely' /\ Exported' /\ Vetted'
  <2>1. /\ \A q \in Operator : Kept(q)
        /\ tenant' = tenant /\ stored' = stored /\ late' = late /\ bundled' = bundled
        /\ ticks' = ticks
    BY <1>0, <1>o, DeskSteps DEF OfficersOnly
  <2>2. Timely'
    BY <1>n, <2>1 DEF Timely, Kept
  <2>3. \A s : Mark(s)' => Mark(s)
    BY <2>1, MarksKept DEF Kept
  <2>4. Exported'
    <3>1. \A q \in Operator : desk'[q].op = "bundle" =>
             /\ desk[q].op = "bundle" /\ desk'[q].at = desk[q].at
             /\ desk'[q].took = desk[q].took
      BY <2>1 DEF Kept
    <3> QED
      BY <1>0, <2>1, <2>3, <3>1, ExportedKept
  <2>5. Vetted'
    <3>1. \A q \in Operator : ~desk'[q].stale /\ desk'[q].op \in {"delete", "revoke"} =>
             /\ ~desk[q].stale /\ desk'[q].op = desk[q].op /\ desk'[q].who = desk[q].who
             /\ officers' = officers /\ tenant'.suspended = tenant.suspended
      BY <2>1 DEF Kept
    <3>2. Covered' <=> Covered
      BY <2>1 DEF Covered
    <3> QED
      BY <1>0, <2>1, <3>1, <3>2, VettedKept
  <2> QED
    BY <2>2, <2>4, <2>5
\* A suspension takes a time later than every export there is.
<1>1. ASSUME NEW p \in Operator, SuspendTenant(p) PROVE Timely' /\ Exported' /\ Vetted'
  <2> DEFINE r == [DeskIdle EXCEPT !.op = "suspend", !.at = ticks + 1]
  <2>0. ticks + 1 \in 0..MaxTicks
    BY <1>n, <1>1 DEF SuspendTenant
  <2>1. r \in DeskReq /\ r.op = "suspend" /\ r.at = ticks + 1
    BY <2>0, ReadTypes
  <2>2. /\ DeskReads(p, r) /\ ticks' = ticks + 1 /\ tenant' = tenant /\ stored' = stored
        /\ late' = late /\ bundled' = bundled /\ officers' = officers
    BY <1>1 DEF SuspendTenant, TenantOnly
  <2> HIDE DEF r
  <2>3. desk'[p] = r /\ \A q \in Operator \ {p} : desk'[q] = desk[q]
    BY <1>0, <2>1, <2>2, DeskSteps
  <2>4. Timely'
    BY <1>n, <2>0, <2>1, <2>2, <2>3 DEF Timely
  <2>5. \A s : Mark(s)' => Mark(s) \/ s = ticks + 1
    BY <2>0, <2>1, <2>2, <2>3 DEF Mark
  <2>6. Exported'
    <3> SUFFICES ASSUME NEW s \in 0..MaxTicks, Mark(s)'
                 PROVE  /\ tenant'.exportedAt >= s => Covered'
                        /\ \A q \in Operator : desk'[q].op = "bundle" /\ desk'[q].at >= s
                                                 => stored' \subseteq desk'[q].took \cup late'
      BY DEF Exported
    <3>1. CASE s = ticks + 1
      BY <1>n, <2>0, <2>1, <2>2, <2>3, <3>1
    <3>2. CASE Mark(s)
      <4>1. tenant.exportedAt >= s => Covered
        BY <1>0, <3>2 DEF Exported
      <4>2. Covered' <=> Covered
        BY <2>2 DEF Covered
      <4>3. \A q \in Operator : desk[q].op = "bundle" /\ desk[q].at >= s
                                  => stored \subseteq desk[q].took \cup late
        BY <1>0, <3>2 DEF Exported
      <4> QED
        BY <2>0, <2>1, <2>2, <2>3, <4>1, <4>2, <4>3
    <3> QED
      BY <2>5, <3>1, <3>2
  <2>7. \A q \in Operator : ~desk'[q].stale /\ desk'[q].op \in {"delete", "revoke"} =>
           /\ ~desk[q].stale /\ desk'[q].op = desk[q].op /\ desk'[q].who = desk[q].who
    BY <2>1, <2>3
  <2>8. Covered' <=> Covered
    BY <2>2 DEF Covered
  <2>9. Vetted'
    BY <1>0, <2>2, <2>7, <2>8, VettedKept
  <2> QED
    BY <2>4, <2>6, <2>9
<1>2. ASSUME NEW p \in Operator, CommitSuspend(p) PROVE Timely' /\ Exported' /\ Vetted'
  <2>1. /\ DeskEnds(p, "suspend") /\ ticks' = ticks /\ stored' = stored /\ late' = late
        /\ bundled' = bundled /\ tenant'.there = tenant.there
        /\ tenant'.exportedAt = tenant.exportedAt
        /\ tenant'.suspended \in {tenant.suspended, desk[p].at}
    BY <1>0, <1>2 DEF CommitSuspend, TenantOnly, Life
  <2>2. desk[p].op = "suspend" /\ desk'[p].op = "idle" /\ \A q \in Operator \ {p} : Kept(q)
    BY <1>e, <2>1
  <2>3. \A s : Mark(s)' => Mark(s)
    BY <2>1, <2>2 DEF Mark, Kept
  <2>4. Covered' <=> Covered
    BY <2>1 DEF Covered
  <2> QED
    BY <1>e, <1>n, <2>1, <2>3, <2>4
<1>3. ASSUME NEW p \in Operator, UnsuspendTenant(p) PROVE Timely' /\ Exported' /\ Vetted'
  <2> DEFINE r == [DeskIdle EXCEPT !.op = "unsuspend"]
  <2>1. r \in DeskReq /\ r.op = "unsuspend" /\ r.at = 0
    BY ReadTypes
  <2>2. /\ DeskReads(p, r) /\ ticks' = ticks /\ tenant' = tenant /\ stored' = stored
        /\ late' = late /\ bundled' = bundled /\ officers' = officers
    BY <1>3 DEF UnsuspendTenant, TenantOnly
  <2> HIDE DEF r
  <2> QED
    BY <1>n, <1>r, <2>1, <2>2
<1>4. ASSUME NEW p \in Operator, CommitUnsuspend(p) PROVE Timely' /\ Exported' /\ Vetted'
  <2>1. /\ DeskEnds(p, "unsuspend") /\ ticks' = ticks /\ stored' = stored /\ late' = late
        /\ bundled' = bundled /\ tenant'.there = tenant.there
        /\ tenant'.exportedAt = tenant.exportedAt
        /\ tenant'.suspended \in {0, tenant.suspended}
    BY <1>0, <1>4 DEF CommitUnsuspend, TenantOnly, Life
  <2>2. desk'[p].op = "idle" /\ \A q \in Operator \ {p} : Kept(q)
    BY <1>e, <2>1
  <2>3. \A s : Mark(s)' => Mark(s)
    BY <2>1, <2>2, MarksKept DEF Kept
  <2>4. Covered' <=> Covered
    BY <2>1 DEF Covered
  <2> QED
    BY <1>e, <1>n, <2>1, <2>3, <2>4
<1>5. ASSUME NEW p \in Operator, ExportTenant(p) PROVE Timely' /\ Exported' /\ Vetted'
  <2> DEFINE r == [DeskIdle EXCEPT !.op = "export", !.at = ticks + 1]
  <2>0. ticks + 1 \in 0..MaxTicks
    BY <1>n, <1>5 DEF ExportTenant
  <2>1. r \in DeskReq /\ r.op = "export" /\ r.at = ticks + 1
    BY <2>0, ReadTypes
  <2>2. /\ DeskReads(p, r) /\ ticks' = ticks + 1 /\ tenant' = tenant /\ stored' = stored
        /\ late' = late /\ bundled' = bundled /\ officers' = officers
    BY <1>5 DEF ExportTenant, TenantOnly
  <2> HIDE DEF r
  <2> QED
    BY <1>n, <1>r, <2>1, <2>2
\* A bundle has every row there is when it is read.
<1>6. ASSUME NEW p \in Operator, ReadTables(p) PROVE Timely' /\ Exported' /\ Vetted'
  <2>1. /\ tenant' = tenant /\ stored' = stored /\ late' = late /\ bundled' = bundled
        /\ ticks' = ticks /\ officers' = officers
        /\ desk'[p].op = "bundle" /\ desk'[p].at = desk[p].at /\ desk'[p].took = stored
        /\ \A q \in Operator \ {p} : desk'[q] = desk[q]
    BY <1>0, <1>6 DEF ReadTables, TenantOnly, DeskReq
  <2>2. Timely'
    BY <1>n, <2>1 DEF Timely
  <2>3. \A s : Mark(s)' => Mark(s)
    BY <2>1, MarksKept
  <2>4. Covered' <=> Covered
    BY <2>1 DEF Covered
  <2>5. Exported'
    <3> SUFFICES ASSUME NEW s \in 0..MaxTicks, Mark(s)'
                 PROVE  /\ tenant'.exportedAt >= s => Covered'
                        /\ \A q \in Operator : desk'[q].op = "bundle" /\ desk'[q].at >= s
                                                 => stored' \subseteq desk'[q].took \cup late'
      BY DEF Exported
    <3>1. Mark(s)
      BY <2>3
    <3>2. tenant.exportedAt >= s => Covered
      BY <1>0, <3>1 DEF Exported
    <3>3. \A q \in Operator : desk[q].op = "bundle" /\ desk[q].at >= s
                                => stored \subseteq desk[q].took \cup late
      BY <1>0, <3>1 DEF Exported
    <3> QED
      BY <2>1, <2>4, <3>2, <3>3
  <2>6. Vetted'
    BY <1>0, <2>1, <2>4, VettedKept
  <2> QED
    BY <2>2, <2>5, <2>6
\* An export that is recorded has been answered.
<1>7. ASSUME NEW p \in Operator, CommitExport(p) PROVE Timely' /\ Exported' /\ Vetted'
  <2>1. /\ DeskEnds(p, "bundle") /\ ticks' = ticks /\ stored' = stored /\ late' = late
        /\ bundled \subseteq bundled' /\ tenant'.there = tenant.there
        /\ tenant'.suspended = tenant.suspended
        /\ \/ tenant'.exportedAt = tenant.exportedAt
           \/ tenant'.exportedAt = desk[p].at /\ desk[p].took \subseteq bundled'
    BY <1>0, <1>7 DEF CommitExport, TenantOnly, Life
  <2>2. desk[p].op = "bundle" /\ desk'[p].op = "idle" /\ \A q \in Operator \ {p} : Kept(q)
    BY <1>e, <2>1
  <2>3. \A s : Mark(s)' => Mark(s)
    BY <2>1, <2>2, MarksKept DEF Kept
  <2>4. Covered => Covered'
    BY <2>1 DEF Covered
  <2>5. Exported'
    <3> SUFFICES ASSUME NEW s \in 0..MaxTicks, Mark(s)'
                 PROVE  /\ tenant'.exportedAt >= s => Covered'
                        /\ \A q \in Operator : desk'[q].op = "bundle" /\ desk'[q].at >= s
                                                 => stored' \subseteq desk'[q].took \cup late'
      BY DEF Exported
    <3>1. Mark(s)
      BY <2>3
    <3>2. tenant.exportedAt >= s => Covered
      BY <1>0, <3>1 DEF Exported
    <3>3. \A q \in Operator : desk[q].op = "bundle" /\ desk[q].at >= s
                                => stored \subseteq desk[q].took \cup late
      BY <1>0, <3>1 DEF Exported
    <3>4. \A q \in Operator : desk'[q].op = "bundle" /\ desk'[q].at >= s
                                => stored' \subseteq desk'[q].took \cup late'
      BY <2>1, <2>2, <3>3 DEF Kept
    <3>5. CASE tenant'.exportedAt = tenant.exportedAt
      BY <2>4, <3>2, <3>4, <3>5
    <3>6. CASE tenant'.exportedAt = desk[p].at /\ desk[p].took \subseteq bundled'
      <4>1. tenant'.exportedAt >= s => stored \subseteq desk[p].took \cup late
        BY <2>2, <3>3, <3>6
      <4>2. tenant'.exportedAt >= s => Covered'
        BY <2>1, <3>6, <4>1 DEF Covered
      <4> QED
        BY <3>4, <4>2
    <3> QED
      BY <2>1, <3>5, <3>6
  <2>6. tenant'.exportedAt <= ticks
    BY <1>n, <2>1
  <2> QED
    BY <1>e, <2>1, <2>4, <2>5, <2>6
<1>8. ASSUME NEW p \in Operator, DeleteTenant(p) PROVE Timely' /\ Exported' /\ Vetted'
  <2> DEFINE r == [DeskIdle EXCEPT !.op = "delete", !.took = stored]
  <2>1. r \in DeskReq /\ r.op = "delete" /\ r.at = 0
    BY <1>0, ReadTypes DEF PlatformShape
  <2>2. /\ DeskReads(p, r) /\ ticks' = ticks /\ tenant' = tenant /\ stored' = stored
        /\ late' = late /\ bundled' = bundled /\ officers' = officers
        /\ tenant.suspended # 0 /\ tenant.exportedAt >= tenant.suspended
    BY <1>8 DEF DeleteTenant, TenantOnly
  <2>3. Mark(tenant.suspended)
    BY <2>2 DEF Mark
  <2>4. Covered
    BY <1>0, <1>n, <2>2, <2>3 DEF Exported
  <2> HIDE DEF r
  <2> QED
    BY <1>n, <1>r, <2>1, <2>2, <2>4
\* After a deletion every row there is has come late.
<1>9. ASSUME NEW p \in Operator, CommitDeleteTenant(p) PROVE Timely' /\ Exported' /\ Vetted'
  <2>1. /\ DeskEnds(p, "delete") /\ ticks' = ticks /\ stored' \subseteq stored
        /\ late' = late /\ bundled' = bundled
        /\ tenant'.exportedAt = 0 /\ tenant'.suspended = 0
    BY <1>9 DEF CommitDeleteTenant, TenantOnly
  <2>2. desk'[p].op = "idle" /\ \A q \in Operator \ {p} : Kept(q)
    BY <1>e, <2>1
  <2>3. \A s : Mark(s)' => Mark(s)
    BY <2>1, <2>2, MarksKept DEF Kept
  <2>4. Covered => Covered'
    BY <2>1 DEF Covered
  <2>5. Exported'
    <3> SUFFICES ASSUME NEW s \in 0..MaxTicks, Mark(s)'
                 PROVE  /\ tenant'.exportedAt >= s => Covered'
                        /\ \A q \in Operator : desk'[q].op = "bundle" /\ desk'[q].at >= s
                                                 => stored' \subseteq desk'[q].took \cup late'
      BY DEF Exported
    <3>1. \A q \in Operator : desk[q].op = "bundle" /\ desk[q].at >= s
                                => stored \subseteq desk[q].took \cup late
      BY <1>0, <2>3 DEF Exported
    <3>2. \A q \in Operator : desk'[q].op = "bundle" /\ desk'[q].at >= s
                                => stored' \subseteq desk'[q].took \cup late'
      BY <2>1, <2>2, <3>1 DEF Kept
    <3>3. Mark(s)
      BY <2>3
    <3>4. tenant'.exportedAt >= s => tenant.exportedAt >= s
      BY <1>n, <2>1
    <3>5. tenant.exportedAt >= s => Covered
      BY <1>0, <3>3 DEF Exported
    <3> QED
      BY <2>4, <3>2, <3>4, <3>5
  <2> QED
    BY <1>e, <1>n, <2>1, <2>4, <2>5
<1>10. ASSUME NEW c \in Client, NEW x \in Row, ClientBegins(c, x)
       PROVE  Timely' /\ Exported' /\ Vetted'
  BY <1>0, <1>10 DEF ClientBegins, Timely, Exported, Vetted, Mark, Covered
\* While there is a mark, rows are committed late.
<1>11. ASSUME NEW c \in Client, ClientCommits(c) PROVE Timely' /\ Exported' /\ Vetted'
  <2>1. /\ tenant' = tenant /\ bundled' = bundled /\ ticks' = ticks /\ officers' = officers
        /\ desk' = desk
        /\ late \subseteq late'
        /\ Suspending => stored' \subseteq stored \cup late'
    BY <1>11 DEF ClientCommits
  <2>2. \A s : Mark(s) => Suspending
    BY DEF Mark, Suspending
  <2>3. Suspending /\ Covered => Covered'
    BY <2>1 DEF Covered
  <2>4. Timely'
    BY <1>n, <2>1 DEF Timely
  <2>5. Exported'
    <3> SUFFICES ASSUME NEW s \in 0..MaxTicks, Mark(s)
                 PROVE  /\ tenant.exportedAt >= s => Covered'
                        /\ \A q \in Operator : desk[q].op = "bundle" /\ desk[q].at >= s
                                                 => stored' \subseteq desk[q].took \cup late'
      BY <2>1 DEF Exported, Mark
    <3>1. tenant.exportedAt >= s => Covered
      BY <1>0 DEF Exported
    <3>2. \A q \in Operator : desk[q].op = "bundle" /\ desk[q].at >= s
                                => stored \subseteq desk[q].took \cup late
      BY <1>0 DEF Exported
    <3>3. Suspending
      BY <2>2
    <3> QED
      BY <2>1, <2>3, <3>1, <3>2, <3>3
  <2>6. tenant.suspended # 0 => Suspending
    BY DEF Suspending
  <2>7. Vetted'
    BY <1>0, <2>1, <2>3, <2>6 DEF Vetted
  <2> QED
    BY <2>4, <2>5, <2>7
<1>12. ASSUME NEW p \in Operator, NEW u \in Officer, RevokePlatformAdmin(p, u)
       PROVE  Timely' /\ Exported' /\ Vetted'
  <2> DEFINE r == [DeskIdle EXCEPT !.op = "revoke", !.who = {u}]
  <2>1. r \in DeskReq /\ r.op = "revoke" /\ r.at = 0 /\ r.who = {u}
    BY ReadTypes
  <2>2. /\ DeskReads(p, r) /\ ticks' = ticks /\ tenant' = tenant /\ stored' = stored
        /\ late' = late /\ bundled' = bundled /\ officers' = officers
        /\ officers \ {u} # {}
    BY <1>12 DEF RevokePlatformAdmin, OfficersOnly
  <2> HIDE DEF r
  <2> QED
    BY <1>n, <1>r, <2>1, <2>2
<1>13. ASSUME NEW p \in Operator, CommitRevoke(p) PROVE Timely' /\ Exported' /\ Vetted'
  <2>1. /\ DeskEnds(p, "revoke") /\ ticks' = ticks /\ stored' = stored /\ late' = late
        /\ bundled' = bundled /\ tenant' = tenant
    BY <1>13 DEF CommitRevoke, OfficersOnly
  <2>2. desk'[p].op = "idle" /\ \A q \in Operator \ {p} : Kept(q)
    BY <1>e, <2>1
  <2>3. \A s : Mark(s)' => Mark(s)
    BY <2>1, <2>2, MarksKept DEF Kept
  <2>4. Covered' <=> Covered
    BY <2>1 DEF Covered
  <2> QED
    BY <1>e, <1>n, <2>1, <2>3, <2>4
<1>14. ASSUME NEW u \in Officer, NEW superadmin \in BOOLEAN, GrantPlatformAdmin(u, superadmin)
       PROVE  Timely' /\ Exported' /\ Vetted'
  BY <1>14, <1>o DEF GrantPlatformAdmin
<1>15. ASSUME BootstrapSuperadmin PROVE Timely' /\ Exported' /\ Vetted'
  BY <1>15, <1>o DEF BootstrapSuperadmin
<1>17. ASSUME NEW p \in Operator, DeskFails(p) PROVE Timely' /\ Exported' /\ Vetted'
  <2>1. /\ DeskEnds(p, desk[p].op) /\ ticks' = ticks /\ stored' = stored /\ late' = late
        /\ bundled' = bundled /\ tenant' = tenant
    BY <1>17 DEF DeskFails
  <2>2. desk'[p].op = "idle" /\ \A q \in Operator \ {p} : Kept(q)
    BY <1>e, <2>1
  <2>3. \A s : Mark(s)' => Mark(s)
    BY <2>1, <2>2, MarksKept DEF Kept
  <2>4. Covered' <=> Covered
    BY <2>1 DEF Covered
  <2> QED
    BY <1>e, <1>n, <2>1, <2>3, <2>4
<1>18. ASSUME NEW c \in Client, ClientFails(c) PROVE Timely' /\ Exported' /\ Vetted'
  BY <1>0, <1>18 DEF ClientFails, Timely, Exported, Vetted, Mark, Covered
<1>16. CASE UNCHANGED platformVars
  BY <1>0, <1>16 DEF platformVars, Timely, Exported, Vetted, Mark, Covered
<1> QED
  BY <1>1, <1>2, <1>3, <1>4, <1>5, <1>6, <1>7, <1>8, <1>9, <1>10, <1>11, <1>12, <1>13, <1>14,
     <1>15, <1>16, <1>17, <1>18 DEF PlatformNext, TenantNext, OfficersNext

LEMMA PlatformAlways == PlatformSpec => []PlatformInv
<1>1. PlatformInit => PlatformInv
  BY PlatformInvInit
<1>2. PlatformInv /\ [PlatformNext]_platformVars => PlatformInv'
  BY PlatformInvStep
<1> QED
  BY <1>1, <1>2, PTL DEF PlatformSpec
-----------------------------------------------------------------------------
(* Every reachable state of the control plane is of the declared types, and a
   deletion under way, unless its check is stale, is of a suspended tenant. *)
THEOREM PlatformTypeCorrect == PlatformSpec => []PlatformTypeOK
<1>1. PlatformInv => PlatformTypeOK
  BY DEF PlatformInv, PlatformShape, PlatformTypeOK, Vetted, Life, DeskReq
<1> QED
  BY <1>1, PlatformAlways, PTL

\* Only a deletion's commit takes the tenant.
LEMMA EndIsDeletion ==
    ASSUME PlatformInv, [PlatformNext]_platformVars, tenant.there, ~tenant'.there
    PROVE  \E p \in Operator : CommitDeleteTenant(p)
<1>0. tenant \in Life
  BY DEF PlatformInv, PlatformShape
<1>1. CASE UNCHANGED platformVars
  BY <1>1 DEF platformVars
<1>2. CASE TenantNext
  BY <1>0, <1>2 DEF Life, TenantNext, SuspendTenant, CommitSuspend, UnsuspendTenant,
     CommitUnsuspend, ExportTenant, ReadTables, CommitExport, DeleteTenant, DeskFails,
     ClientBegins, ClientCommits, ClientFails
<1>3. CASE OfficersNext
  BY <1>3 DEF OfficersNext, RevokePlatformAdmin, CommitRevoke, GrantPlatformAdmin, DeskFails,
     BootstrapSuperadmin, OfficersOnly
<1> QED
  BY <1>1, <1>2, <1>3 DEF PlatformNext

\* The step behind DeletedIsExported.
LEMMA DeletionStep ==
    ASSUME PlatformInv, [PlatformNext]_platformVars, tenant.there, ~tenant'.there
    PROVE  \/ stored \ stored' \subseteq bundled \cup late
           \/ \E p \in Operator : desk[p].op = "delete" /\ desk[p].stale
<1>1. PICK p \in Operator : CommitDeleteTenant(p)
  BY EndIsDeletion
<1>2. desk[p].op = "delete" /\ Vetted
  BY <1>1 DEF CommitDeleteTenant, DeskEnds, PlatformInv
<1> QED
  BY <1>2 DEF Vetted, Covered

(* A deletion takes no row that no export has, but for rows committed since
   a suspension took its time, unless its check was stale. *)
THEOREM DeletionsAreExported == PlatformSpec => DeletedIsExported
<1>1. PlatformInv /\ [PlatformNext]_platformVars
        => [tenant.there /\ ~tenant'.there
              => \/ stored \ stored' \subseteq bundled \cup late
                 \/ \E p \in Operator : desk[p].op = "delete" /\ desk[p].stale]_platformVars
  BY DeletionStep
<1> QED
  BY <1>1, PlatformAlways, PTL DEF PlatformSpec, DeletedIsExported

\* A deletion under way has met every row that has not come late.
Met ==
    \A p \in Operator : desk[p].op = "delete" /\ ~desk[p].stale
                          => stored \subseteq desk[p].took \cup late

LEMMA MetStep == PlatformInv /\ Met /\ [PlatformNext]_platformVars => Met'
<1> SUFFICES ASSUME PlatformInv, Met, [PlatformNext]_platformVars PROVE Met'
  OBVIOUS
<1>0. desk \in [Operator -> DeskReq] /\ Vetted /\ stored \in SUBSET Row
  BY DEF PlatformInv, PlatformShape
\* Requests that end, and steps that are nobody's, where rows only go.
<1>k. ASSUME stored' \subseteq stored, late' = late,
             \A q \in Operator : desk'[q].op = "idle" \/ Kept(q)
      PROVE  Met'
  BY <1>k DEF Met, Kept
\* Requests that begin.
<1>r. ASSUME stored' = stored, late' = late, NEW p \in Operator, NEW r \in DeskReq,
             DeskReads(p, r), r.op # "delete" \/ r.took = stored
      PROVE  Met'
  BY <1>0, <1>r, DeskSteps DEF Met
<1>e. ASSUME stored' \subseteq stored, late' = late, NEW p \in Operator, NEW op, DeskEnds(p, op)
      PROVE  Met'
  BY <1>0, <1>e, <1>k, DeskSteps, DeskIdleType
<1>1. CASE UNCHANGED platformVars
  BY <1>1 DEF platformVars, Met
<1>2. CASE TenantNext
  <2>1. ASSUME NEW p \in Operator, SuspendTenant(p) \/ ExportTenant(p) PROVE Met'
    <3>1. ticks + 1 \in 0..MaxTicks
      BY <2>1, PlatformAssumption DEF SuspendTenant, ExportTenant, PlatformInv, PlatformShape
    <3> QED
      BY <1>r, <2>1, <3>1, ReadTypes DEF SuspendTenant, ExportTenant
  <2>2. ASSUME NEW p \in Operator, UnsuspendTenant(p) PROVE Met'
    BY <1>r, <2>2, ReadTypes DEF UnsuspendTenant
  <2>3. ASSUME NEW p \in Operator, DeleteTenant(p) PROVE Met'
    <3> DEFINE r == [DeskIdle EXCEPT !.op = "delete", !.took = stored]
    <3>1. r \in DeskReq
      BY <1>0, ReadTypes
    <3>2. r.took = stored
      BY DEF DeskIdle
    <3>3. DeskReads(p, r) /\ stored' = stored /\ late' = late
      BY <2>3 DEF DeleteTenant
    <3> HIDE DEF r
    <3> QED
      BY <1>r, <3>1, <3>2, <3>3
  <2>4. ASSUME NEW p \in Operator,
               \/ CommitSuspend(p) \/ CommitUnsuspend(p) \/ CommitExport(p)
               \/ CommitDeleteTenant(p) \/ DeskFails(p)
        PROVE  Met'
    BY <1>e, <2>4 DEF CommitSuspend, CommitUnsuspend, CommitExport, CommitDeleteTenant, DeskFails
  <2>5. ASSUME NEW p \in Operator, ReadTables(p) PROVE Met'
    BY <1>0, <2>5 DEF ReadTables, Met, DeskReq
  <2>6. ASSUME NEW c \in Client, (\E x \in Row : ClientBegins(c, x)) \/ ClientFails(c) PROVE Met'
    BY <2>6 DEF ClientBegins, ClientFails, Met
  \* The tenant of a deletion whose check is not stale is suspended.
  <2>7. ASSUME NEW c \in Client, ClientCommits(c) PROVE Met'
    <3>1. /\ desk' = desk /\ stored' = stored \cup client[c] /\ late \subseteq late'
          /\ Suspending => client[c] \subseteq late'
      BY <2>7 DEF ClientCommits
    <3>2. ASSUME NEW p \in Operator, desk[p].op = "delete", ~desk[p].stale
          PROVE  stored' \subseteq desk[p].took \cup late'
      <4>1. Suspending
        BY <1>0, <3>2 DEF Vetted, Suspending
      <4>2. stored \subseteq desk[p].took \cup late
        BY <3>2 DEF Met
      <4> QED
        BY <3>1, <4>1, <4>2
    <3> QED
      BY <3>1, <3>2 DEF Met
  <2> QED
    BY <1>2, <2>1, <2>2, <2>3, <2>4, <2>5, <2>6, <2>7 DEF TenantNext
<1>3. CASE OfficersNext
  <2>1. ASSUME NEW p \in Operator, NEW u \in Officer, RevokePlatformAdmin(p, u) PROVE Met'
    BY <1>r, <2>1, ReadTypes DEF RevokePlatformAdmin, OfficersOnly
  <2>2. ASSUME NEW p \in Operator, CommitRevoke(p) \/ DeskFails(p) PROVE Met'
    BY <1>e, <2>2 DEF CommitRevoke, DeskFails, OfficersOnly
  <2>3. ASSUME stored' = stored, late' = late, desk' = [q \in Operator |-> Stale(q)]
        PROVE  Met'
    BY <1>0, <1>k, <2>3, DeskSteps
  <2> QED
    BY <1>3, <2>1, <2>2, <2>3
       DEF OfficersNext, GrantPlatformAdmin, BootstrapSuperadmin, OfficersOnly
<1> QED
  BY <1>1, <1>2, <1>3 DEF PlatformNext

(* What a deletion leaves behind came after a suspension took its time, unless
   the deletion's check was stale. *)
THEOREM OnlyLateRowsStay == PlatformSpec => OnlyLateRowsOutlive
<1>1. PlatformInit => Met
  BY DEF PlatformInit, Met, DeskIdle
<1>2. PlatformSpec => []Met
  BY <1>1, MetStep, PlatformAlways, PTL DEF PlatformSpec
<1>3. PlatformInv /\ Met /\ [PlatformNext]_platformVars
        => [tenant.there /\ ~tenant'.there
              => \/ stored' \subseteq late'
                 \/ \E p \in Operator : desk[p].op = "delete" /\ desk[p].stale]_platformVars
  <2> SUFFICES ASSUME Met, [PlatformNext]_platformVars, PlatformInv, tenant.there, ~tenant'.there,
                      \A p \in Operator : ~(desk[p].op = "delete" /\ desk[p].stale)
               PROVE  stored' \subseteq late'
    OBVIOUS
  <2>1. PICK p \in Operator : CommitDeleteTenant(p)
    BY EndIsDeletion
  <2>2. desk[p].op = "delete" /\ stored' \subseteq stored \ desk[p].took /\ late' = late
    BY <2>1 DEF CommitDeleteTenant, DeskEnds
  <2> QED
    BY <2>2 DEF Met
<1> QED
  BY <1>2, <1>3, PlatformAlways, PTL DEF PlatformSpec, OnlyLateRowsOutlive

\* The step behind SuperadminRemains.
LEMMA RevocationStep ==
    ASSUME PlatformInv, [PlatformNext]_platformVars, NEW p \in Operator,
           desk[p].op = "revoke", desk'[p].op = "idle", ~desk[p].stale
    PROVE  officers' # {}
<1>0. desk \in [Operator -> DeskReq] /\ Vetted
  BY DEF PlatformInv, PlatformShape
<1>1. officers \ desk[p].who # {}
  BY <1>0 DEF Vetted
<1>k. ASSUME Kept(p) PROVE FALSE
  BY <1>k DEF Kept
<1>r. ASSUME NEW q \in Operator, NEW r \in DeskReq, DeskReads(q, r) PROVE FALSE
  BY <1>0, <1>r, DeskSteps, DeskIdleType DEF DeskReads
<1>e. ASSUME NEW q \in Operator, NEW op, op # "revoke", DeskEnds(q, op) PROVE FALSE
  BY <1>0, <1>e, <1>k, DeskSteps
\* A revocation that fails takes nobody.
<1>f. ASSUME NEW q \in Operator, DeskFails(q) PROVE officers' # {}
  BY <1>1, <1>f DEF DeskFails, TenantOnly
<1>2. CASE UNCHANGED platformVars
  BY <1>2 DEF platformVars
<1>3. CASE TenantNext
  <2>1. ASSUME NEW q \in Operator, ReadTables(q) PROVE FALSE
    BY <1>0, <2>1 DEF ReadTables, DeskReq
  <2>2. ASSUME NEW q \in Operator, SuspendTenant(q) \/ ExportTenant(q) PROVE FALSE
    <3>1. ticks + 1 \in 0..MaxTicks
      BY <2>2, PlatformAssumption DEF SuspendTenant, ExportTenant, PlatformInv, PlatformShape
    <3> QED
      BY <1>r, <2>2, <3>1, ReadTypes DEF SuspendTenant, ExportTenant
  <2>3. ASSUME NEW q \in Operator, UnsuspendTenant(q) \/ DeleteTenant(q) PROVE FALSE
    BY <1>r, <2>3, ReadTypes DEF UnsuspendTenant, DeleteTenant, PlatformInv, PlatformShape
  <2>4. ASSUME NEW q \in Operator,
               \/ CommitSuspend(q) \/ CommitUnsuspend(q) \/ CommitExport(q)
               \/ CommitDeleteTenant(q)
        PROVE  FALSE
    BY <1>e, <2>4 DEF CommitSuspend, CommitUnsuspend, CommitExport, CommitDeleteTenant
  <2>5. ASSUME NEW c \in Client, (\E x \in Row : ClientBegins(c, x)) \/ ClientCommits(c) \/ ClientFails(c)
        PROVE  FALSE
    BY <2>5 DEF ClientBegins, ClientCommits, ClientFails
  <2>6. ASSUME NEW q \in Operator, DeskFails(q) PROVE officers' # {}
    BY <1>f, <2>6
  <2> QED
    BY <1>3, <2>1, <2>2, <2>3, <2>4, <2>5, <2>6 DEF TenantNext
<1>4. CASE OfficersNext
  <2>1. ASSUME NEW q \in Operator, NEW u \in Officer, RevokePlatformAdmin(q, u) PROVE FALSE
    BY <1>r, <2>1, ReadTypes DEF RevokePlatformAdmin
  <2>2. ASSUME NEW q \in Operator, CommitRevoke(q) PROVE officers' # {}
    <3>1. q = p
      BY <1>0, <1>k, <2>2, DeskSteps DEF CommitRevoke
    <3> QED
      BY <1>1, <2>2, <3>1 DEF CommitRevoke
  <2>3. ASSUME desk' = [q \in Operator |-> Stale(q)] PROVE FALSE
    BY <1>0, <1>k, <2>3, DeskSteps
  <2>4. ASSUME NEW q \in Operator, DeskFails(q) PROVE officers' # {}
    BY <1>f, <2>4
  <2> QED
    BY <1>4, <2>1, <2>2, <2>3, <2>4 DEF OfficersNext, GrantPlatformAdmin, BootstrapSuperadmin
<1> QED
  BY <1>2, <1>3, <1>4 DEF PlatformNext

(* No revocation takes the last superadmin, unless superadmins changed since
   its check. *)
THEOREM ASuperadminRemains == PlatformSpec => SuperadminRemains
<1>1. PlatformInv /\ [PlatformNext]_platformVars
        => [\A p \in Operator :
               desk[p].op = "revoke" /\ desk'[p].op = "idle" /\ ~desk[p].stale
               => officers' # {}]_platformVars
  BY RevocationStep
<1> QED
  BY <1>1, PlatformAlways, PTL DEF PlatformSpec, SuperadminRemains
=============================================================================
