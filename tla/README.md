# Formal models of OpenTroop

TLA+ models of OpenTroop, a multi-tenant scout-troop manager: a FastAPI
backend on PostgreSQL (`src/backend/app`), a Next.js web application
(`src/apps/web`) and an offline-first Expo mobile application
(`src/apps/mobile`). The models are written from the source; line references
for every definition are in `PROJECT.json` under `map`.

1. [Inventory](#1-inventory)
2. [Plan](#2-plan)
3. [Modules](#3-modules)
4. [Runs](#4-runs)
5. [Fairness](#5-fairness)
6. [Proofs](#6-proofs)
7. [Findings](#7-findings)
8. [Limits](#8-limits)

## 1. Inventory

### The parts and how they interact

Every request is a thread with a database session of its own, at READ
COMMITTED. Beside the requests run the outbox loop (in every instance), a CLI
for the same pass, import workers, and cron jobs (tombstone reaper, photo
reaper). There are no locks across sessions except row locks, unique indexes
and one `SELECT ... FOR UPDATE`. The mobile device keeps a SQLite mirror of the
tenant's rows and a queue of commands; one sync at a time drains the queue
through the interactive endpoints and then pulls the change stream.

| Component | State | Operations | What is hard | Correct means |
|---|---|---|---|---|
| Change stream (`routers/sync.py`, `models/base.py`) | rows with `sync_seq`, tombstones, the sequence, `purged_through_seq` | every write draws a value; eight pull endpoints answer pages or 410 | values are drawn before commit; watermark and rows are read in two statements; visibility is not in the stream | what a cursor has passed, the device has |
| Mirror and pull loop (`data/pull.ts`, `mirror.ts`, `engine.ts`) | rows with `seen_epoch`, cursors, epoch, `last_full_refetch_at` | incremental round, full refetch, sweep | the app dies anywhere; 410; rows that vanish without a tombstone | the device converges to what its user may see |
| Purge and reaper (`core/deletion.py`) | `purged_at`, tombstones | anonymise; delete after retention and raise the watermark | runs beside writers and pulls | no device keeps a reaped row unnoticed |
| Command outbox (`data/commands.ts`, `overlay.ts`, event screen) | `pending_commands` | enqueue with coalescing, drain, discard | answers lost, replays, edits during a drain, 409 with several meanings | no edit is lost silently |
| Events and RSVP (`routers/events.py`) | events, audiences, participants | CRUD, audiences, sign up, RSVP, attendance, permission slips | check-then-insert, sign-up window, family rule | one participant row per member |
| Announcements (`core/messaging.py`, `outbox.py`, `routers/messages.py`) | message status, recipient rows (= email queue), digest slot | send, schedule, promote, drain, digest | overlapping passes, crashes after an email went out, retries, flags that change | every send completes, nothing is recorded that did not happen |
| Email webhooks (`core/email_webhooks.py`) | bounce and opt-out flags | apply event | races with passes | flags are respected |
| Groups (`core/groups.py`) | groups, rules, memberships | resolve a group of groups | shared visited set, cycles, diamonds | the resolved set is what the rules describe |
| Advancement (`core/advancement.py`, router) | sign-offs, awards, elections, credits | record, approve, award, auto-credit | concurrent auto-credit, frozen state after an award | an awarded rank is backed by its requirements |
| Governance (`routers/member_positions.py`, `core/permissions.py`, `provisioning.py`) | positions, roles | grant, revoke, re-provision | last-administrator guard under concurrency | a tenant always has an administrator |
| Invites and claims (`core/invite.py`, `routers/auth.py`) | invite `jti`, identities | invite, re-invite, claim | single use under concurrency | one claim per invite |
| Sign-up slots (`routers/event_slots.py`) | slots, sign-ups | sign up, move, delete slot | capacity under a lock taken late | never over capacity |
| Photos (`routers/photos.py`, `photo_quota.py`, `photo_reaper.py`) | photo rows, bytes used, objects | reserve, upload, complete, delete, reap | counter without a lock, late uploads | bytes used = bytes kept |
| Import jobs (`core/import_jobs.py`, `routers/imports.py`) | job status, stage | enqueue, claim, run in chunks, fail | worker death, partial commits | one active job, each run once, every job ends |
| Tenant lifecycle (`routers/platform.py`) | tenant status, export stamp | suspend, export, purge | order of the steps | no purge without a fresh export |
| Tenant scoping (`core/database.py`, `rls.py`) | session context | query rewriting | - | no row crosses a tenant |
| Reports, iCal, slips, push, web UI, importers | derived or none | - | formatting, I/O | - |

Slots to tenant lifecycle share nothing with each other but the tenant and its
members: each is a module of its own. What is modelled of every component, and
what is not, is in the notes of `PROJECT.json`.

The hazards, with the line at which each bites and the property that covers
it, are listed in `PROJECT.json`.

## 2. Plan

Done first, because a silent loss there is invisible to users and hard to
test: the offline protocol (pull and outbox) and the announcement outbox. Then
the server's other protocols, in which requests check, and commit later.

| Order | Module | Content | State |
|---|---|---|---|
| 1 | `SyncPull`, `SyncPullProofs` | change stream, reaper, mirror | checked, proved |
| 2 | `CommandOutbox`, `CommandOutboxProofs` | queue, overlay, drain, answers | checked, proved |
| 3 | `MessageOutbox`, `MessageOutboxProofs` | send, drain, digest, overlapping passes | checked, proved |
| 4 | `EventSlots`, `EventProofs` | seats, capacity, the row lock | checked, proved |
| 5 | `PhotoQuota`, `EventProofs` | reservations, the byte meter, the reaper, kills | checked, proved |
| 6 | `JobLedger`, `ImportJobs`, `ImportJobsProofs` | abstract job queue; the protocol that implements it | checked, refinement proved |
| 7 | `Governance`, `MembershipProofs` | the last administrator | checked, proved |
| 8 | `Claims`, `MembershipProofs` | invitations and claims | checked, proved |
| 9 | `Platform`, `PlatformProofs` | suspend, export, delete; superadmins | checked, proved |
| 10 | `Advancement`, `AdvancementProofs` | sign-offs, derived dates, credits, elections | checked, proved |
| 11 | `GroupResolution`, `MembershipProofs` | the recursive resolver against the meaning of the rules | checked, proved |
| 12 | `SyncPull`, `SyncPullProofs` | the outbox's response rows beside page and sweep | checked, proved |

Every safety property of a passing run but one is a theorem; section 6 says
what stays with TLC. An abstract replica that `SyncPull` would implement was planned and
dropped: a device that holds what its cursors have passed, with the same
exceptions, is `NothingMissed` again.

## 3. Modules

### SyncPull (MCSyncPull, SyncPullProofs)

*State.* `srv` is the table rows: absent, live, tombstone ("dead") or
physically deleted ("gone"), with the `sync_seq` of the last write. A write
draws a new value, so the value stands for the contents. `open` is the set of
transactions that have drawn values and not committed; `nextSeq` the Postgres
sequence, which does not roll back; `watermark` is
`Tenant.purged_through_seq`; `visible` is what the endpoints' scoping clauses
(event audience, family) let the caller see. On the device `cursor` is
`sync_state`, `mirror` the `sync_seq` held per row, `stamped` the rows whose
`seen_epoch` is the current epoch, `age` the state of
`last_full_refetch_at`, `job` the sync in progress (memory only).
`horizon`, `late`, `regained`, `raced` (rows a reaper removed that something
overtook) and `steady` (rows left alone since the refetch under way began) are
history for the properties: no action reads them to decide what to do.

*Actions.* `BeginWrite` / `Commit` / `Rollback` are any request that inserts,
revives, updates or soft-deletes rows, a bulk UPDATE included; `BeginReap` is
the reaper's transaction for one purged member (a pass over several members is
several of them). A commit waits for a reaper holding one of its rows. One
page is `ReadWatermark` or `Gone410`, then `ReadRows`, then `ApplyMore`,
`ApplyNext` or `ApplyLast`, so that server commits fall between the two reads
of a page and between answer and application. `StartFull`, `Sweep` (one
statement per stream) and `FinishFull` are `fullRefetch`. `Abort` is a killed
app or a failed request at any point. Before it pulls, a sync replays commands,
and an answer's row goes straight into the mirror: `AnswerCommand` is the
endpoint reading the row back after its commit, `UpsertResponseRow` the device
writing it, `LoseAnswer` a drain that halts; anybody may commit in between.
Which commands, and what becomes of them, is `CommandOutbox`. That an older
answer never stays over a newer row rests on one sync running at a time: the
mutant `AnswerBesidePull` breaks `NothingMissed`.

*Abstractions.* Row contents, the columns of the eight streams, HTTP. The
epoch counter is replaced by `stamped`, which is what "`seen_epoch < epoch`"
tells apart. A page reads with one statement, hence atomically. The device's
schema rebuild after a downgrade is left out.

### CommandOutbox (MCCommandOutbox, CommandOutboxProofs)

One event, one caller, that caller's household. `queue` is the table
`pending_commands`, a set of commands; a command's id is its first edit, so
ids are in position order and `Current` is the one with the least. `drain` is
the sync in flight with the *snapshot* it replays (`drain.left`), because
`drainQueue` reads the pending commands once.
`window` (before `signup_start`, open, after `signup_deadline`; any of them
when the behaviour begins), `taken` and `part` are the server's event and
participants; the
mirror's copies decide which command a tap becomes, through the overlay
(`ShownPart`, `ShownTaken`). A value typed is a number, different for every
edit, so that a property can say where an edit went; `latest`, `applied`,
`discarded`, `signups`, `blind`, `shutOut` (sign-ups answered 409 for the
dates) and `overtaken` (merged into a command that a drain is replaying) are
history for that. `Send`, `Serve`, `Settle`
/ `MarkFailed` are one command's request, execution and answer; `Halt` is a
lost request or answer, a 5xx or a 401, before or after the server executed
the command; `Die` kills the app. `SignupsOpen` and `SignupDeadlinePasses`
are days passing, with nobody acting; `OtherSignsUp`, `OtherRemoves` and
`OtherMovesDates` are everyone else. A leader may take attendance in the
app but not through the endpoints, which want `event:write` or family;
`AnswerTo` follows the order of the endpoints' checks. The pull after a drain
(`Pull`) brings the mirror up to date; how it does so is `SyncPull`.

### MessageOutbox (MCMessageOutbox, MessageOutboxProofs)

One tenant. Every process of `Proc` is a thread with a session: it serves
`POST /messages/{id}/send` and the drain that follows, or runs an outbox pass
(in-process loop or CLI). `proc[p]` is what its session has read and not yet
committed. `row` is the recipient rows, `status` the messages, `digestDue` the
weekly slot (`last_digest_at` before the slot), `contact` a member's address
and flags. Sends to the provider happen one at a time between the read of a
batch and its flush, and what was delivered stays delivered when the process
dies. A flush waits for another session's flushed rows, and the unique index
on (message, member) refuses a second insertion of a message's recipients.
`Settled` is the columns an UPDATE writes, computed from the attempts that
were read: what a stale session leaves of a newer row.

*Abstractions.* The audience of a message is fixed (resolving it is
`GroupResolution`); which rows are the oldest is left open; the clock
is `TimeComes`, `BackoffEnds` and `SlotArrives`; every member has a device;
`MaxAttempts` is a constant (5 in the code). No digest takes as long as a week.

### The back office (MCBackOffice)

Eight modules, each one component of the server. In all but `GroupResolution`,
whose edits commit at once, a request that reads, checks and commits is a session (`slotReq`, `photoReq`,
`roleReq`, `claimReq`, `desk`, `advReq`, and `submission` / `worker` for jobs)
holding what it has checked; the check and the commit are actions of their
own, so that anything committed by others falls between. Handlers that check
nothing another session could change are one action. Variables marked
"history" are read by properties only.

**EventSlots** (EventProofs). One slot under its name: `slot`, the
`signup` row of each member (none, active, or soft-deleted). `CreateSignup` is
the handler up to its read of the slot, `TakeSeat` the `SELECT ... FOR UPDATE`
and the count (a slot without a capacity takes no lock), `CommitSignup` the
insert or the reactivation; the lock is kept to the commit. Capacity 0 stands
for null. `straddled` remembers that a change or delete of the slot ran beside
a sign-up.

**PhotoQuota** (EventProofs). `photo` rows, the `object` store (in no transaction), `used`
the tenant's meter. `InitiateUpload` reads the meter and `CheckQuota` the sum
of reservations, two statements as in the code; `HeadObject` reads the size
the client really uploaded; `ReapObjects` deletes from the store before
`CommitReap`; `Kill` is a process that dies between. `Put` is the client,
until its URL expires, and may upload more than it claimed, or more than is
allowed. A sum of bytes (`ReservedBytes`, `ReadyBytes`) is the number of pairs
of a photo and one of its bytes.

**ImportJobs** (ImportJobsProofs) **and JobLedger**. `JobLedger` is what the
queue promises: one active job, a job started once, a final outcome, rows that
only a running job adds. `ImportJobs` is how: the two checks of a submission,
the partial unique index, dispatch to the in-process loop or to a task queue
with at-least-once delivery, the conditional UPDATE that claims, one commit per
stage (`rows[j]` is the stages of which the tenant has rows), failure with
earlier stages left behind, the death of requester or worker. A stage fails on
another import's rows only through `uq_groups_tenant_name`: `patrols` gives
each job's export its patrol names, none included, and `Conflicts` is a name in
common. The reset script looks at no job: `StartReset` is when it begins,
`CommitReset` its transaction, which may leave whatever was committed since it
began and the members linked to an account, `ResetFails` a foreign key. The
refinement maps job statuses to the ledger, the claim counter to starts, jobs
with rows to what is loaded. That rows of one import only are there is *not*
part of it, for it is not so (section 7).

**Governance** (MembershipProofs). `term` of each member and position, the
`link` of each position to the administrators' role, `member`. `EndTerm`,
`DeleteTerm`, the platform's `RevokeTenantAdmin` and `PurgeMember` are guarded:
they count the other administrators and commit later. `stale` remembers that
who administers changed in between. The unguarded rest, from appointing to the
deletion of a member and the passing of an end date, is `UnguardedNext`.

**Claims** (MembershipProofs). `roster`, `account` (the linked user), the one
token each member honours (`jti`). `InviteMember`/`CommitInvite` and
`ClaimMember`/`CommitClaim` are check and commit; `AutolinkUnclaimed` is the
link a verified address makes at sign-in. Signature and expiry of a token are
a library's; a token is the number of its minting. `crossed` remembers that
members changed between a check and its commit.

**Platform** (PlatformProofs). `tenant` (suspended and exported times as ticks
of one clock), the rows members add beside it (`stored`), operators' requests
(`desk`) and members' requests already let in (`client`). An export reads the
clock, then the tables, and stamps the time it read. A purge deletes table by
table, so of the rows committed since its check it leaves any; and since
`tenant_id` refers to no table, a member's request may commit after the tenant
is gone (`ClientCommits`), or fail on some other reference (`ClientFails`).
`officers` are the superadmins; granting a lesser role to one takes the higher
one away.

**Advancement** (AdvancementProofs). One member's completions on one rank:
`completion` of each leaf, `revoked` rows, the `elected` version, `earned`,
`awarded`. A write is three transactions one after the other: the completion,
the derived earned date, the automatic credits. `AdvDies` ends a request
between any two of them. `due` is whether attendance meets a leaf's threshold.
`underived` remembers a change nothing derives from, or whose only request to
derive it died.

**GroupResolution** (MembershipProofs). Groups as leaders edit them, and
`resolve_group_members`, which calls itself for every group a rule names, as
a machine with its call stack in a variable: `walk.stack` is the calls that
have not returned, `walk.left` the references each has yet to follow,
`walk.found` the union of what those followed returned, `walk.seen` the one
`_visited` set all calls share. `Ask` is a call from outside, `Enter` a call
for a referenced group, `Pass` the call that returns nobody at once (visited
before, or deleted), `Leave` a return. The rules and their lists are followed
in any order, since the code's `SELECT` of the rules has none. A call's locals
are filed under its group, because no group has two calls; a resolution reads
one state, so no edit commits while one is under way. `Meaning` is the
reference: the least sets that satisfy every group's definition at once.

## 4. Runs

All runs check deadlock unless noted. In `MessageOutbox` a tenant with nothing
queued is at rest, so its runs do not.

| Run | Instance | Shows |
|---|---|---|
| `sync_safety` | 2 rows, 2 streams (one empty), pages of 1 row, 4 sequence values, 2 open transactions, 1 failure or answer | `TypeOK`, `NothingMissed`, `OnlyRacedReapsEscape`, `RefetchReconciles` over overlapping writers, the reaper, killed rounds and refetches, late answers |
| `sync_live` | 2 rows in one stream, pages of 1 row, 4 values, 1 open transaction, 1 change of the view | `RefetchReconciles`, `CatchesUp`, `CompletedWalkIsCurrent` |
| `sync_reap_race` | 3 rows, 2 open transactions, nobody asks for a refetch | violation of `ReapedRowsAreDetected` |
| `sync_pages` | 3 rows in one stream, pages of 1 row, a caller who answers 410 by a refetch | violation of `NoLoopOn410` |
| `sync_shipped` | nobody asks for a refetch, as in the shipped client | violation of `Gone410LeadsToRefetch` |
| `outbox_safety` | 2 members, 1 of them family, 3 edits, 2 halts, 1 act of others, taps at any time, sign-ups not yet open, open or closed | `TypeOK`, `AloneLossesAreKnown`, `OnlyOvertakenUpdatesLost`, `FailuresAreKept`, `QueueDrains` |
| `outbox_in_flight` | 1 member, taps during a sync | violation of `UpdatesNotLost` |
| `outbox_signup` | 1 member, 1 tap, nobody else, no failure | violation of `NoSilentLoss` |
| `messages_safety` | 1 message, 2 members, 2 processes, 2 attempts, either delivery, slow requests, 1 crash or change of a flag or an address | `TypeOK`, `SentMeansDrained`, `AlertedOnce`, `NeverRequeued` |
| `messages_live` | the same without crashes and changes, and with requests shorter than the span to the due time | `SendsCompleteApart`, `QueueEmpties` |
| `messages_stuck` | 1 process, an address may be removed | violation of `EverySendCompletes` |
| `back_office` | two sessions of everything; see below | the 22 properties of the eight modules above |

`back_office` has one behaviour per component: `part`, chosen in the first
state, says which component moves, and the rest stand still. Nothing is lost
by that: the eight share no variable, so their interleaving would only
multiply the states. The officers and the tenant of `Platform` are driven
apart for the same reason. It may stop, for its counters run out. Its bounds:
2 members for one seat, capacities 0 (unlimited) and 1, 2 edits of the slot; 2
photos, one uploaded at the limit (beyond its claim) and one over it, a quota
of one claim; 2 jobs whose exports share a patrol name or have none, 2
submissions, 2 workers, 2 stages, 1 death or reset; 2 members who may
administer, over the seeded and one other position, 3 unguarded changes; 2
members and 2 accounts, one with a verified address, 2 tokens each; 2
operators, 1 client, 1 row, 3 ticks (a suspension, an export, and one more);
2 versions of a rank with one leaf in common, one leaf credited, 3 requests; 4
groups (two of them patrols), 2 members, one of whom is in a group already, 3
edits, with self-reference, a cycle and a diamond among the references.

*Why the bounds suffice.* A page of one row makes every multi-row change cross
a page boundary, and rows that share a value split across pages; two open
transactions give both commit orders of two values, which is all that a late
commit needs; a reap needs a tombstone, its own two values and one more write
to be raced, hence three to five values. `sync_safety` has no fifth: a reap
that a writer overlaps and does not overtake is left to `sync_reap_race` and to
the theorem. Killed walks and replayed answers are in `sync_safety`, the view
that changes in `sync_live`. Three edits are a sign-up, an update and one more that coalesces or follows a failure; two halts are a lost answer and a pull
that fails after its replay. Two attempts distinguish a retry from a dead letter; two members distinguish "the last
pending email" from "my last pending email"; two processes give every overlap
of two passes. In `back_office` two sessions give every overlap of two
requests, which is all a check that goes stale needs; three requests in
`Advancement` let a third change what two overlapping ones derive from.
`MaxSeq`, `MaxOpen`, `MaxFaults`, `MaxEdits`, `MaxHalts`,
`MaxOthers`, `MaxChanges`, `MaxTokens`, `MaxTicks`, `MaxRequests` and
`MaxGroupEdits` bound the runs only; the theorems hold for all their values.

*The switches.* `AddressMayGo` and `SlowRequests` turn off one behaviour of
the code each, so that the other properties can be checked past a known
failure; the violation listed beside has the code's setting. `AllowFull` turns
on a call the shipped client never makes (`syncNow` with `full`): where it is
on, a refetch *may* be asked for at any time, and no passing run assumes that
it is.
With `SlowRequests` a message can be rescheduled after it was sent, and every
later pass is refused by the unique index (see the hazards): the safety run
admits it, the liveness run does not. `Disturbance` says which of three
disturbances a run admits: a view that changes (`sync_live`),
failures of a sync and answers to replayed commands (`sync_safety`).

*Exceptions in the properties.* `NothingMissed` excepts rows written by a
transaction that committed after a later value had (the caveat the protocol
document accepts) and rows that became visible without being written.
`OnlyRacedReapsEscape` excepts rows whose reaper something overtook: a value
above its watermark was committed before it, or a page of the row's stream was
being read when it committed (`raced`); that is what `sync_reap_race` shows
and no more. `RefetchReconciles` speaks of the rows nobody touched while the
refetch ran. `CatchesUp` has the exceptions of `NothingMissed`, and says
nothing of a device that is answered 410 for ever (findings 2 and 3).
`AloneLossesAreKnown` excepts `shutOut` edits (a sign-up answered 409 for the
dates), `blind` edits (a sign-up queued for a member who was signed up already,
whose row the mirror lacked) and, like `OnlyOvertakenUpdatesLost`, `overtaken`
edits: those are the losses of section 7, and the two properties say that
there is no other. `AlertedOnce` allows one more alert per crash.
`SendsCompleteApart` is `EverySendCompletes` for behaviours in which no two
drains overlap: two that do can each leave the message to the other. In
`back_office` the exceptions are the histories `straddled`, `collided`,
`crossed`, `late`, `underived` and the flag `stale`: the code checks without a
lock, so what it promises holds while nobody interferes between a check and
its commit, and each property says who may. The note of each hazard says which race
its properties except. They are kept as narrow as TLC
allows: `LastSeatOnce` needs no exception for sign-ups that overlap each other
(the lock), `KeepsLedger` none for anything that overlaps, resets included,
`DeletedIsExported` none for exports that overlap suspensions or each other;
`OnlyLateRowsOutlive` excepts the rows of requests a suspension did not wait
for, and says that nothing else is left of a tenant.

## 5. Fairness

* `SyncPull!LiveSpec`: an open transaction commits unless it is rolled back
  (requests are bounded); an answer arrives or its connection drops; a sync
  under way goes on (`PullStep`); syncs are started again
  (foreground, connectivity, enqueue), as rounds or as refetches: which is left
  open, so nobody is assumed to ask for a refetch.
* `SyncPull!RefetchingSpec`, for `sync_pages` only, adds strong fairness of
  `StartFull`: the caller the protocol asks for, which the shipped client is
  not. It makes the refutation stronger: even that caller loops.
* `CommandOutbox!LiveSpec`: weak fairness of the sync as a whole. Failures are
  bounded by `MaxHalts`, so that a drain eventually meets an online server.
* `MessageOutbox!LiveSpec`: each process goes on (a thread is scheduled, the
  loop ticks), and time passes. A provider that refuses for ever is allowed.
* Photos (`PhotosFairness`, repeated in `MCBackOffice!OfficeFairness`): a
  request or reaper run that began goes on, weakly. The reaper is a cron job
  with sessions to itself: strong fairness of `Reap` and `CommitReap` says it
  gets its turn between requests and is not killed at every run.
* Imports (`JobsFairness`): a submission ends; some worker goes on. Nothing is
  assumed of a job whose worker died: no code looks for it, and `EveryJobEnds`
  excepts it.

## 6. Proofs

`SyncPullProofs` proves, for every value of the constants allowed by
`SyncPullAssumption`:

* `TypeCorrect`: `Spec => []TypeOK`.
* `NothingIsMissed`: `Spec => []NothingMissed`.
* `ReapedAreDetected`: `Spec => []OnlyRacedReapsEscape`. Without its exception
  it is `ReapedRowsAreDetected`, which `sync_reap_race` shows false.

`NothingMissed` is not inductive: it says nothing about values still in open
transactions, about the cursor a walk is at, or about an answer on its way.
The invariant `IInv` adds

* `Behind`: no row, position, cursor or watermark lies beyond the horizon, the
  highest value a committed transaction drew; so a write that is not late lands
  after every cursor;
* `Drawn`: values start at 1, so no stored row hides behind the zero cursor;
* `Walking`: a walk stands at its stream's stored cursor, or at zero when a
  refetch begins one;
* `Replied`: a page on its way holds every known row between where it began
  and where it ends, as it is on the server, unless it was written since;
* `Stamping`: a refetch has stamped every known live row it has walked past,
  so the sweep removes none of them;
* `Answered`: no pull runs beside an answer on its way, and if its row is known
  and behind the cursor, the answer shows it as it is on the server.

A known row is one in view that is neither late nor regained. Each conjunct has
a lemma with one step per action that disturbs it, and the theorems combine
these with the initial states by temporal reasoning. Lemmas about positions,
pages and commits are stated once and cited.

For the reaper `ReapInv` is proved on top of `IInv`. Its watermark must catch
the cursor a device *will* store, so the invariant follows the position through
the walk: `Resuming` (a walk is at its cursor, or has stamped nothing of its
stream yet), `Onward` (a cursor or an answer that delivered something is past
zero, where alone a stale one is let through) and `Detected` (the property, the
same of the answer on its way, and that no page of the row's stream is read
while the row is stamped). Nothing is assumed of who else writes: a reaper that
is not overtaken commits above the horizon, and the cursors are behind it
(`Behind`).

`CommandOutboxProofs`: `OutboxTypeCorrect`, `FailuresStay`,
`OnlyOvertakenAreLost` and `KnownLossesAlone` hold with taps at any time, any
dates of the sign-up and any number of failures. `KeyInv` (edits numbered, ids and pending (kind, target)
pairs are keys, a drain replays each command once) is preserved by every step;
`EditInv` adds that a command a drain has left is still queued under its id,
with no edits more than those overtaken (`Snapshot`), that the last word on a
field of a target sits in a command for that target, in that field (`Owned`),
what an answer on its way says of the command it answers (`Answered`), and,
while nobody else acts, that a create meets a row only if it made the row
itself or was queued blindly, and is otherwise refused for the dates
(`Alone`).

`MessageOutboxProofs` proves, for any messages, members, processes, retries,
crashes and batch sizes: `OutboxTypes` (`TypeOK`, attempts below the limit
while queued), `SentMessagesAreDrained`, `SentEmailsAreDelivered`,
`AlertsGoOutOnce` and `SettledStaySettled` (`NeverRequeued`). Sessions write
what they computed from an old read, so none of these is inductive. `OutboxInv`
adds what a session may still rely on when it commits: `Inserting` (its
message has no row yet), `Going` (its batch is rows that exist, read with an
attempt left, and "ok" was accepted), `Finishing` (every pending row of a
message it will finish is in its batch and will be settled), `Apart` (two
insertions are of different messages) and `Counted` (an alert belongs to a
row, to an insertion under way or to a crash). `LocalStable` says once which
changes by others these survive; every step then is one of a few kinds
(`SessionMoves`, `SettlingCommits`, `WorldMoves`) or an insertion.

The other modules, likewise for every value of their constants:

* `EventProofs`, slots: `SlotsTypeCorrect`, `LastSeatGivenOnce`,
  `DeletedSlotsAreEmpty`. Added: a seated request holds the lock, the capacity
  it read is the slot's and there is room (unless straddled); a delete has
  found everybody who is signed up.
* `EventProofs`, photos: `PhotosTypeCorrect`, `MeterStaysExact`,
  `GalleryKeepsObjects`, `QuotaIsKept`. Added (`PhotosInv`): every pending
  photo reserves the claim and no other reserves anything; sessions busy with
  one photo have been noted; what each session found when it read (`Knows`)
  still holds: the bytes it will add or take off, the objects its reaper has
  deleted, the room its reservation counted. The meter, the quota and the
  gallery need each other. Sums change by one photo's column of pairs, or by
  one column for each photo reserved: the `Columns` lemmas.
* `MembershipProofs`, administrators: `GovTypeCorrect`, `AnAdminRemains`.
  Added: what an open guarded request would take away leaves an administrator,
  while not stale.
* `MembershipProofs`, claims: `ClaimsTypeCorrect`, `ClaimedOnLastToken`,
  `OneSeatIsClaimed`. Added: what each open request found still holds, and a
  claimed member is linked or gone, hence never invited again.
* `MembershipProofs`, groups: `GroupsResolveAsTheySay`
  (`GroupsMeanWhatTheySay`). A resolution ends with the whole answer, and only
  its open calls together say how far it is. Added (`GroupsInv`): the stack is
  a path of references without repetitions, and only calls on it have
  references left (`Calls`); what was visited is reached, along references
  that were followed (`Explored`); no call has found anybody who is not meant
  (`Sound`). For the two promises of completeness: where nothing is reached on
  two paths, whatever a followed reference means has arrived, or its call is
  the next on the stack (`Complete`); where groups only add up, every visited
  group's own members have arrived in some call on the stack (`Summed`), and
  `MeaningOfAdditive` shows that the own members of the groups reached are all
  there is. What a group means is a least fixed point: `Round` is monotonic
  (`RoundGrows`), so `Meaning` satisfies the definitions (`MeaningSatisfies`)
  and is what they say, no more (`MeaningIsFixed`).
* `ImportJobsProofs`: `JobsTypeCorrect`, `ImplementsLedger`, the refinement
  `JobsSpec => Ledger!Spec`, step by step. Added: a worker is at one job at
  most, and that job is running.
* `PlatformProofs`: `PlatformTypeCorrect`, `DeletionsAreExported`,
  `OnlyLateRowsStay`, `ASuperadminRemains`. That no row outlives its tenant is
  part of none of them, for it is not so (section 7). Added: an export later
  than a suspension in force has
  every row that is not late; a deletion under way has met every such row
  (`Met`).
* `AdvancementProofs`: `AdvTypeCorrect`, `CompleteMeansEarned`,
  `RevokedStayRevoked`. Added: a complete rank is earned or a request is about
  to derive it (or, in `underived`, was the last one to and died); a fresh credit pass holds no revoked leaf.

The assumptions are the `...Assumption` of each module (types of the
constants, finiteness where a count is taken), which TLC evaluates on its
instances.

Left to TLC: all liveness properties (`CatchesUp`, `CompletedWalkIsCurrent`,
`QueueDrains`, `SendsCompleteApart`, `QueueEmpties`, `DeletedArePurged`,
`EveryJobEnds`), because fairness and ENABLED are beyond the prover, and with
it that every resolution ends; and one safety invariant, `RefetchReconciles`,
whose proof is not written: beside `Stamping` it needs that the pages and the
answer on its way hold of every steady row what the server holds. No theorem
has a hypothesis beside the assumptions.

Proved only: `SentIsDelivered`, `OneSeatClaimed` and `SuperadminRemains`, the
plainest of the safety properties, are theorems without a run.

## 7. Findings

Each is a run that ends in a counterexample; details and quotations are in
`PROJECT.json`.

1. `sync_reap_race`: the reaper's watermark does not dominate every cursor a
   client holds; a write pulled between its `nextval` and its commit makes a
   device keep reaped rows.
2. `sync_pages`: a refetch of a stream with more than a page of rows behind
   the watermark is answered 410 on its second page, every time.
3. `sync_shipped`: no path of the mobile client reacts to 410 with a full
   refetch.
4. `outbox_in_flight`: an edit coalesced into a command on its way is deleted
   with it. `OnlyOvertakenAreLost` proves that updates are lost in no other way.
5. `outbox_signup`: a 409 that is not the echo of an own sign-up drops the
   RSVP. Nobody else need be involved: the run's user signs up before
   `signup_start` or after `signup_deadline`. Inside the dates there is a
   second way, which the proof of `AloneLossesAreKnown` showed: an answer is
   lost, its replay's 409 leaves the mirror without the row, the pull after it
   fails. The screen then takes the next tap for a sign-up again, and its 409
   drops the new RSVP.
6. `messages_stuck`: a recipient without an address leaves its message SENDING.

Observations met while modelling, which the properties of `back_office` state
as exceptions or leave room for:

* Slots: a sign-up that overlaps a delete lands on a deleted slot; the
  capacity applied is the one read before the lock.
* Photos: two confirmations of one photo add its bytes twice; overlapping
  reservations pass the quota together. A FAILED row is reaped only once it is
  deleted, although `models/event_photo.py:24-26` says FAILED rows are swept.
* Imports: a job whose worker died stays RUNNING, one whose dispatch failed
  stays QUEUED, and either keeps the tenant from importing. A reset that runs
  beside an import can leave part of its rows. An import that failed after its
  patrols is not seen by the pre-check of the next, which looks for members
  (`routers/imports.py:193-201`), although `core/import_jobs.py:13-16` says it
  is; where no patrol name is shared, the rows of both mix.
* Governance: deleting a member, an end date that passes and detaching a
  mapping have no last-administrator guard; a detached mapping still holds its
  unique key and can never be attached again.
* Claims: no constraint allows one member per account; a sign-in links all
  members with its address, and a claim that commits after a purge links a
  tombstone.
* Platform: a request let in before a suspension can commit its row after the
  tenant was purged, and the row stays, since `tenant_id` has no foreign key
  (`models/base.py:107`), although `routers/platform.py:176` says that every
  row goes. What commits between a suspension's time and the export that
  answers it may be in no bundle; granting a lesser role can demote the last
  superadmin.
* Advancement: a completion and the earned date it leads to are commits of
  their own; a process that dies in between leaves a complete rank without its
  date until the next completion write. An election and an automatic credit derive no earned date, and
  neither looks at whether the rank was awarded. A credit pass that read before
  a row was created and revoked can create it again.
* Groups: a group reached on two paths contributes nobody on the second, so a
  rule that needs both can miss members; a manual member who was removed can
  never be added again.

## 8. Limits

* Not modelled: tenant scoping and row-level security (declarative filters
  without a protocol), notifications, reports, calendar feeds and permission
  slips (formatting and I/O), the web application and the mobile screens
  beside the event screen and Sync Issues (presentation; their generated API
  types and form layouts are most of the repository's lines), importers'
  parsers, deployment, migrations.
* Partly modelled components list in `PROJECT.json` what is left out of each:
  event CRUD and cancellation, merit badges and the approval of reported ones,
  permissions other than the administrators', provisioning, photo captions.
* One tenant, one device, one event, one slot, one rank of one member at a
  time; PostgreSQL semantics (the SQLite fallback of the sequence only as equal
  values in one bulk write).
* In `CommandOutbox` a request is one step: the check-then-insert race of
  `add_participant` is listed as a hazard without a property.
* Hazards without a property say why in their note.
