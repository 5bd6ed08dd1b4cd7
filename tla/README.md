# A TLA+ model of mustawfi

mustawfi is an offline-first point of sale and back office for many tenants: one server over
PostgreSQL, and registered devices, each with an SQLite database of its own that it sells from
without a connection. What is hard in it is what lies between the two: operations that travel up,
rows and configuration that travel down, over a network that may drop or repeat any message,
while several transactions of a tenant run at once and a device may stop at any point; and, at
the server, requests that overlap while they count, check and change the same rows.

The modules here model that core: the push of operations and what the handlers post of them, the
change log and its pull, the versioned configuration bundle, the exchange rates, registration of
devices, the administration of users, roles and departments, sign-in, and the license with its
clock guard on a device. TLC checks them on small instances; TLAPS proves every invariant and
action property the runs check, the safety of both refinements, and the safety facts that
liveness rests on, for every value of the constants.

- [Inventory](#inventory)
- [The modules](#the-modules)
- [What the runs check](#what-the-runs-check)
- [What is proved](#what-is-proved)
- [Findings](#findings)
- [What is not modelled](#what-is-not-modelled)
- [Plan](#plan)

`PROJECT.json` holds the same in tables: components, runs, the lines each definition stands for,
the hazards with the properties that cover them, for each property a change of one definition
that breaks it, and the theorems.

## Inventory

Each entry says what state a component keeps, what it does, what makes it hard, and what would
make it correct.

### `core/sync`: device and server

**Push** (`client/outbox.ts`, `client/engine.ts`, `server/push.ts`, `server/operations.ts`).
State: on the device `sync_outbox` (an operation and its state), `sync_counters` (the last
`deviceSeq`); at the server `received_ops`. Operations: `enqueueOperation` in the local
transaction of the document it carries; `push` of the oldest pending operations, at most
`PUSH_BATCH_LIMIT`; the ingest, one transaction per operation under an advisory lock of the
device; answers `accepted`, `duplicate`, `rejected`, or a gap that asks for a resend.
Hard: two copies of a push run at once, answers are lost, a rejection is stored by a second
transaction, the server comes back without its last rows, the device is revoked meanwhile.
Correct when each operation enters the book once, in order, without a hole, and the outbox tells
what the book says.

**Revoke and wipe** (`client/engine.ts`, `packages/local-db/src/wipe.ts`,
`core/access/src/server/devices.ts`). A revoked device still pushes, then drops its tables.
Correct when nothing it committed is lost by it, and when it wipes in the end.

**Change log and pull** (`server/changes.ts`, `client/engine.ts`, the `PullApplier`s). State:
`changes`, `tenant_counters.change_seq`, the device's `pullCursor` and rows. `recordChange`
numbers a change in the transaction of the row it publishes; `readChanges` serves pages; a device
applies a page and its cursor in one transaction. Hard: transactions overlap and abort; pages fail.
Correct when a device that is at a number has missed nothing up to it.

**Configuration bundle** (`server/bundle.ts`, `core/config/src/client/bundle.ts`,
`core/config/src/server/bundle.ts`). State: `bundle_versions`, one row per device with the version
and digest offered last; on the device the stored bundle and the last refusal. Every round asks;
the server builds the parts statement by statement, compares digests, counts a version and signs.
Hard: a slow build and a quick one overlap, a license is installed in the middle, a bundle
arrives damaged. Correct when a version means one content, when the device never goes back to
what was replaced, and when it does get what is current.

**Engine** (`client/engine.ts`). `syncNow` runs one round at a time: push, pull, bundle, or the
wipe, with a phase the screens show. Its steps are in the modules of the parts.

**Flags and audit entries** (`server/flags.ts`, `server/audit-entries.ts`). An operation of a
revoked device, or of a user without the permission, is recorded and flagged, never refused; a gap
in a device's numbers and a rejection leave an audit entry.

### The rest of `core`

**`core/currency`**: `tenant_currencies`, `currency_settings`, `exchange_rates`, and the copies a
device holds. Rates are set online, as first rates by a save of the settings, and on devices.
Hard: three row and advisory locks taken in two orders; a device's clock; who was first.
Correct when the audit's "before" is true, large moves are confirmed, and devices agree.

**`core/access`: users and roles** (`server/users.ts`, `server/roles.ts`). A manager adds, changes,
deactivates and brings back users, and edits, archives and restores roles, in overlapping requests
that lock the tenant's row and a role's. Hard: what a request checked may change before it
commits. Correct when there is always an active owner, active users have active roles, the
license's limits hold, and nobody gives more than they hold.

**`core/access`: devices** (`server/devices.ts`, `client/device.ts`). One-time codes, a
registration under the tenant's lock, the prefix of a device's document numbers, revoking. Hard:
lost answers, two machines with one code, a machine wiped and registered again with its counters
from 1. Correct when no two documents have one number and the limit of devices holds.

**`core/access`: sign-in** (`server/login.ts`, `throttle.ts`, `sessions.ts`, `reset-codes.ts`).
Failures are counted by key in the database and by address in memory, attempts in flight
included; sessions end with a password, a user's status, a device. Hard: attempts run at once and
leave in many ways. Correct when the limit holds within a window and an ended session stays ended.

**`core/access`: PIN sign-in on a device** (`client/pin/local-sign-in.ts`). A lockout that must hold
over restarts, with hashing in between.

**`core/tenancy`**: tenants, departments, signed licenses; on a device the clock guard
(`client/device-license.ts`) with a high-water mark and the license state held for a business
day. Hard: clocks set back and ahead, bundles and server times that come in the middle of a reading.
Correct when setting the clock does not stretch a license, and a locked device is freed by a
contact.

**`core/organization`**: the store profile, document numbering, departments in the back office.
**`core/ledger`**: balanced entries. **`core/audit`**: append-only entries. **`core/config`**:
the module registry and route access, decided at start.

### Modules, packages, apps

**`modules/sales`**: a cash sale on the device (number, document, operation in one local
transaction) and its posting at the server (invoice, number, stock, entry in one transaction).
**`modules/inventory`**: products and stock levels, updated in product order. Correct when a sale
enters the books once and whole, or not at all, and two postings cannot wait in a circle.
**`packages`**: decimals, ids and dates (`kernel`), SQLite (`local-db`), key storage, printing,
widgets, texts, and `testing`, whose simulated network is where the faults of the models come
from. **`apps`**: composition and screens. **`tools`**: build-time checks.

### How they interact

A device's round calls the server three times: push, pull, bundle. Each call may be lost on
either side of its work, and a call the device has given up may go on. Handlers of pushed
operations write the same tables as the routes of the back office do, and publish with
`recordChange` in the same transaction; what they publish reaches all devices through the pull,
those that sent it included. All server transactions are READ COMMITTED; what they promise each
other rests on row locks, advisory locks and the unique indexes, and these are what the models
keep.

## The modules

| Module | Models | Composes |
|---|---|---|
| `ExactlyOnce` | what push promises: a book of operations | |
| `PushSync` | push, revoke and wipe of many devices, the network | instance of `ExactlyOnce` (refinement) |
| `SaleBooks` | what the books promise of cash sales | |
| `SalePosting` | the sale on a device and its posting at the server: numbering, stock, ledger | instance of `SaleBooks` (refinement); takes from `PushSync` that operations come in order, once |
| `ChangeLog` | the change log, its writers, the pull | |
| `BundleVersions` | the configuration bundle of one device | |
| `CurrencyRates` | the rates of one pair, at the server and on devices | |
| `DeviceRegistration` | codes, registrations, prefixes, wipes, document numbers | takes from `PushSync` when a device wipes |
| `TenantAdmin` | users, roles and departments, changed by overlapping requests | |
| `SignIn` | attempts, failures, sessions and what ends them | |
| `DeviceLicense` | the clock guard, the state held for the day, sync rounds | |
| `MC...` | instances: symmetry, functions as constants, constraints | the module of that name |
| `...Proofs` | theorems | the module of that name; `AccessProofs` is about `SignIn` and `DeviceRegistration` |

### `PushSync`

An operation is its device and its `deviceSeq`. `outbox`, `deviceSeq` and `phase` are the device's
tables; `toldRevoked` is what the running round heard; `received` and `revoked` are the server's.
`calls` is the set of pushes under way: a record goes through `sent`, `tx` (inside the
transaction of one operation, holding the device's lock), `between` (after one, before the
next) and `done`. A call the device does not await any more stays in the set and goes on.

`Sell` is `enqueueOperation`. `Push` makes a call with the oldest pending operations; a batch may
end anywhere after the first one, because it is also limited in bytes. `Begin` takes the lock and
does every read of the transaction; `AnswerKnown`, `AnswerGap`, `Accept`, `Reject` and
`StoreRejection` are the branches of the ingest. `Reject` only rolls back: the row is stored by a
second transaction that checks everything again, and another copy of the push may run in between.
`RecordAnswer` writes the results and the resend of a gap in one local transaction. `Revoke` takes
the row of the device, not the lock of its operations, so it may commit while one is under way.

Faults: `Lose` (request, answer, or a failing server), `GiveUp`, `Duplicate`, `ForgetRevoke` (the
app restarts) and `LoseTail` (the server returns without a device's last rows; the calls it was
serving are gone, those on the wire are not). A device crash needs no action of its own: what
it loses is its running call, which is `GiveUp` or `Lose`.

`sold`, `lost` and `rowsAtRevoke` are history, read by properties alone.

### `ExactlyOnce`

Three actions: a device makes an operation, the book takes the next one, a device leaves
when the book has all of its operations. `PushSync` implements it with `made <- sold`, `book <-` the outcomes
of `received`, `gone <-` whether the device wiped: the network, locks, retries and outbox all
disappear. It is implemented only while the server loses nothing.

### `SalePosting`

`Sell` is `completeCashSale`: number, invoice and operation in one local transaction. The handlers
of different devices overlap, each in a transaction of its own: `StartPosting` tracks the number
(`numbering.ts`) and audits the gap before it, `Move` updates one stock level under its row's
lock, in the order of the products' ids, `Commit` makes all of it visible with the two lines of the
journal entry. `Reject` rolls back all that the posting did, the tracked number too;
`Fail` is a server error or a crash, after which the operation comes again. One check of the
handler, the number of lines of the schema, stands for all that reject. The next operation of a
device is the first without an outcome: this is what `PushSync` shows.

### `SaleBooks`

Three actions: a device makes a sale; the books enter it, stock, cash and revenue together; or they
refuse it. `SalePosting` implements it with the committed tables: transactions, locks, gaps and
failures disappear.

### `ChangeLog`

A row is how many edits it shows, and a change carries that number, since it carries the full row.
A writer is a transaction: `Write` under the row's lock, `Record` is `recordChange`, which waits
for the row of the counter, `Commit` makes rows, changes and counter visible at once, and is
possible only when everything written was published, as every caller in the source does.
`Abort` stands for refusals, crashes and deadlocks the database resolves. A page is read at
the server by `Pull` and applied later by `Apply`; `PageFails` loses it. `Known` is the set of
entities the version of the app has an applier for.

### `BundleVersions`

A part is the number of commits that changed it; its `Text` is that number modulo two, so
that every other edit restores what it replaced and a digest may come back under a newer version;
only licenses never return. A call of the device is a build at the server, one statement at a time:
the parts in order, the license of the manifest, the row of `bundle_versions`, the
upsert (which holds the row until the commit), the answer. Several builds run at once because the
device may give one up and ask again. Signing and verifying are abstracted to a bundle that
arrives whole or damaged. `signed` is history: everything ever signed.

### `CurrencyRates`

One pair. A request goes through `started`, `paired` (holding the advisory lock of the pair),
`ready` (holding the counter of changes too) and its commit. A save publishes what it
changed (the currency, or anything `other`: the change currency, the threshold, a rounding step,
another currency or the first rate of one) and so takes the counter before the pair of its first
rate; a save that publishes nothing before takes the pair first, as everybody else. The database
ends one of two transactions that wait for each other (`Resolve`). The first step of a save does
all its reads under the settings row's lock, before the pair's. `recorded` is the table, with what the audit
entry of each rate says, in commit order. A device sets rates with its own time, which may be
ahead of the server's, and keeps its own row until the server's row of that id replaces it.

### `DeviceRegistration`

A registration and the device it makes have one name. A request goes through `sent` (or `late`: its
code expired before it came), `coded` (it holds the code's row), `placed` (it holds the
tenant's advisory lock and was checked against the limit), and its commit. `Keep` is the machine storing the answer,
`GiveUp` its loss: the code is used up, the device counts against the limit until it is revoked,
and its prefix is gone. `Wipe` drops the machine's counters with its registration; `Sell` takes the
next number of the prefix. The code reads the prefix before the transaction that takes the number;
a wipe between them takes the cart and the departments too, and the sale is refused. `numbers` counts how often each number was given.

### `TenantAdmin`

A request is let in by the permission of its route (users, roles and departments have one each)
and asked with what its manager's session said, `locked` once it holds the tenant's row,
and `ready` when its checks passed, with the row of a role it gives (shared) or changes
(exclusive). The manager may have lost everything in between, as in the code; what the
request counts and what it gives it reads under the locks. `Refuse` stands for every refusal and
failure. Archiving the default department or the last active one, and taking the role of
owner from the last owner, are refused by the checks as they are in the source.

### `SignIn`

An attempt goes through the steps of `login.ts`: the address checked and the attempt counted, the
user read, the key locked, the secret checked, the session opened; it may leave at each of them,
by an error too (`Drop`). Failures of a key are rows with their times, numbered where the times are
equal, as rows of a table with a key of their own are; those of the address are a list in
memory beside the number in flight, which a `Restart` forgets. Whether a secret or a second factor
is right is a choice. Passwords, status, reset codes, revoked devices and sign-outs end sessions.
Any number of reset codes may be out for a user, rows like the failures; the module has no roles, so
that every active user may be the owner whom a code is issued to.
`prompt` and `endings` are history. The names that the module shares with `DeviceRegistration`
begin with `SignIn` here, because one proof module extends both.

### `DeviceLicense`

Server and device have a clock each; they run equally fast, from any offset, and the device's is
set to any of some values. A reading of the license is two steps, as in the code: the bundle is
loaded (`LoadBundle`), then the transaction observes the clock, evaluates or renews the day and
writes both rows (`Resolve`). A round is `Ask`, `AcceptBundle`, `RecordServerTime`, each of which
may come in between. A license is the four times its states begin at. `since` and `judged` are
history: what happened to the clocks since the last contact, and the device's time that the state
held is of.

## What the runs check

| Run | Instance | Properties |
|---|---|---|
| `push_loss` | 1 device, 3 operations, batches of 2, 1 late call, the server loses a tail once | `TypeOK`, `RecordedOnceInOrder`, `OutboxAgrees`, `WipeLosesNothing`, `FlaggedSinceRevoke` |
| `push_fair` | 1 device, 2 operations, batches of 2, 1 late call, faults that end | `KeepsPromise`, `RevokedDeviceWipes` |
| `change_log` | 2 writers, 1 device, 3 rows (one without applier), 2 edits each, pages of 2 | `TypeOK`, `Gapless`, `LogTellsRows`, `NothingMissed`, `CatchesUp` |
| `bundle` | 2 parts, 2 builds at a time, a part edited and changed back, faults that end | `TypeOK`, `VersionNamesParts`, `PartsMoveForward`, `HoldsCurrent`, `RefusalEnds` |
| `bundle_manifest` | as `bundle`, a license alone is edited | `OneManifestPerVersion`, violated |
| `currency` | 1 user, 1 device, 2 rates, 2 values, 2 times | `TypeOK`, `AuditTellsCurrent`, `DevicesAgree`, `RequestsEnd` |
| `currency_first_rate` | 2 users, 2 rates | `FirstRateIsFirst`, violated |
| `sales` | 2 devices, 3 products, 3 sales each, 4 carts, one of them too long | `TypeOK`, `NumbersAccounted`, `SomePostingMoves`, `PostsWhole` |
| `tenant_admin` | 3 users, the owner's role and 1 other, 2 permissions (users; roles and departments), 3 departments, 2 requests, limits of 2 | `TypeOK`, `AnOwnerRemains`, `ActiveUsersHaveActiveRoles`, `LimitsKept`, `GrantsWithinOwn` |
| `device_license` | 2 licenses, days of 2, a device 3 ahead, its clock set once, to 1 or 4 | `TypeOK`, `GuardKeepsTime`, `DocumentsWithinLicense`, `LocksEnd` |
| `sign_in` | 1 user, 1 device, 2 attempts, limits of 2 and 3, windows of 2, 1 reset code issued at a time | `SignInTypeOK`, `FailuresWithinLimit`, `EndedSessionsStayEnded` |
| `registration` | 2 machines, 4 registrations, 2 codes, 2 prefixes, a limit of 1, 2 sales | `TypeOK`, `NumbersUnique`, `RegistrationsAllowed` |

### What they show

*Push.* `RecordedOnceInOrder` is the table: once each, in order, no hole. `OutboxAgrees` relates
the outbox to it: after any loss, retry or overtaking, what the device was told is what the
server stored, unless the server lost that row. `WipeLosesNothing`: a wiped device's operations
all reached the server. `FlaggedSinceRevoke` pins down the race of a revoke and a running push: an
accepted operation after the revoke is flagged, except that the one under way when it committed
may not be, and none before it is. `KeepsPromise` is the refinement of `ExactlyOnce`, its liveness
included: every operation of a device enters the book. `RevokedDeviceWipes`: it gets to wipe
though it keeps selling.

*Change log.* `NothingMissed` is what the source promises with "a device that has seen `seq` never
later misses a lower one". `LogTellsRows` says that the log ends with the rows as they are, which
fails if a writer publishes what it read before it had the row's lock. `CatchesUp`: page by page,
though pages fail.

*Bundle.* `VersionNamesParts` relates what was signed, the row the server compares with and what
the device holds. `PartsMoveForward`: a build that read the users before a change and counted its
version after it could bring a removed user back; it cannot because a device awaits one request
at a time and a build given up can win only the version row, not the device. `HoldsCurrent`: such
a build may leave an old digest in the row, and the next round puts the current one back.

*Rates.* `AuditTellsCurrent`: the rate an entry names as the one before it was current when the
entry committed, "current" says truly whether the new one took over, and a large move set online
was confirmed against that rate. `DevicesAgree` compares both sides' choice of the current rate
once a device has pushed and pulled everything. `RequestsEnd`: every request ends, although settings
and rates take their locks in opposite orders.

*Sales.* `PostsWhole` is the refinement of `SaleBooks`: a sale enters the books once, in its
device's order, stock, cash and revenue together. `NumbersAccounted`: every number up to the last
the server saw has an invoice or is named by a gap's audit entry, and then the server rejected
it. `SomePostingMoves`: levels are taken in one order, so not all can wait.

*Administration.* The four properties are about what was checked and what holds when it
commits: two owners who demote each other, a role archived while it is given, two requests for the
last place, a role edited between the check and the grant. `GrantsWithinOwn` is about the moment a
role is given: it is active, also if it is given to a deactivated user, and unless an owner gives
it, it holds no more than the manager's session did when it was read. What the manager holds by then
may be less; the code does not read it again. A user who comes back keeps a role that was given
before; of it the property says only that it is active.

*Registration.* `NumbersUnique`: a machine wiped and registered again counts from 1, under a prefix
that was never another device's. `RegistrationsAllowed`: the limit, one device for a code, one
machine for a device.

*Sign-in.* `FailuresWithinLimit` counts the failures recorded at the time their attempt began: no
interleaving, clearing or restart lets more than the limit of them into one window.
`EndedSessionsStayEnded` goes through every way a session ends, and a user brought back.
`SignInTypeOK` says also that the address is charged with exactly the attempts in flight.

*License.* `GuardKeepsTime`: the device's time never falls back by a step of the mark, follows the
server's from a contact on, and a device is found behind only if its clock was set back.
`DocumentsWithinLicense`: it makes documents no longer than a business day past the read-only
date of a license it may have had, and past its offline time. `LocksEnd`: a contact frees a locked
device.

### Bounds, and why they are enough

- *One device* in `PushSync`, `ChangeLog`, `BundleVersions` and `DeviceLicense`: locks, numbers, cursors
  and versions are per device, and nothing relates two. The theorems hold for any set of devices.
- *Three operations in batches of two* make two batches, a gap inside a batch, and a resend
  that starts in the middle. A tail is lost once, at any length.
- *One late call per device* beside the awaited one gives two copies of a push, running
  concurrently and ending in either order. The theorems do not depend on it.
- *Two writers, two edits, pages of two*: a writer waits for the counter behind another that
  waits for a row; a page ends between two changes of a transaction.
- *Two builds* at a time: one awaited, one given up. A third would wait like the second.
- *Two rates*: every pair of a new rate and the one before it, from each two of set, save and
  operation, with equal and different times.
- *Two devices and three products*: two carts hold the same two products in either order, so
  postings meet on both; three sales leave a rejected number between two recorded ones, and last.
- *Three users and two requests*: two owners who change each other and a third who could stay. A
  request is judged against those that hold locks, and two hold the same one never. Two permissions
  tell apart who manages users and who manages the rest.
- *The constraint of `MCTenant`*: users and departments share the tenant's lock and nothing else,
  so a behaviour changes one of them only, while requests about both come and go.
- *The constraint of `MCSignIn`*: failures and sessions meet only where a session's opening or a
  new password clears failures. From a state with both, the run does not go on; each such meeting
  is taken as a step, and what follows it follows from states with one of them alone.
- *Four registrations by two machines, limit one*: a place taken, lost, revoked and taken again, a
  second prefix used up, and a third registration without one.
- *Two attempts, limits of two and three, a window of two*: the second attempt runs through the moment
  the first one reaches the limit, and a window ends while an attempt waits.
- *The clock* runs for three units from an offset of three, with days of two, a tolerance and a step
  of two and a skew limit of three: it is ahead by more than is tolerated, set back within and
  beyond the tolerance, and a business day ends before and after each. The second license
  expires later, so a renewal lifts every state. The theorems hold for all of these numbers.
- Symmetry is used in runs of invariants and action properties alone, over names the module
  never orders or chooses from.
- Deadlock is checked in the change log, bundle, sign-in and administration runs. Elsewhere a bound
  or a goal is reached and nothing is left to do: a wiped device whose network healed, all sales
  posted, the clock at its end.

### Fairness, and why the code justifies it

`syncNow` is called by a timer and by every local write, so rounds follow one another: `Push`, the
steps of a round, `Pull` and `Ask` are weakly fair. The server works on what reached it: weakly
fair. That faults end is what `converge()` of the simulated network does, and is stated as fairness
of `Heal`; without it no message need ever arrive. `Apply` of a page is strongly fair, because
some pages fail, but not all of them; this is weaker than a healed network. So are `AcceptBundle`
and `RecordServerTime` of `DeviceLicense`, whose answers may be lost, but not for ever; its clocks
run (`Tick`). `CurrencyRates` grants locks to those who wait (strong fairness of `Step`) and has the
database end deadlocks (`Resolve`). No fairness is assumed of users, edits, revokes or faults.

A handler that fails on one operation for ever would stop the device's later operations; the
fairness of `PushSync` excludes it, and the hazards list it.

## What is proved

Every theorem is for all values of the constants under the named assumption of its module, which
the runs evaluate too. Each proof goes from an inductive invariant `IInv`, checked by TLC
before it was proved; lemmas say what each operator and each action does, then every conjunct is
kept by every action. What an invariant must add is nearly always the same idea: *what a
transaction read under a lock is still so when it commits*.

| Module | Theorems of what the runs check | Properties |
|---|---|---|
| `PushSyncProofs` | `TypeCorrect`, `OnceInOrder`, `OutboxTruthful`, `NothingLostByWipe`, `FlagsTellTheRevoke`, `PushKeepsPromise` | all of `push_loss`; the safety of `KeepsPromise` |
| `ChangeLogProofs` | `LogTypes`, `LogGapless`, `LogIsTrue`, `CursorMissesNothing` | all invariants of `change_log` |
| `BundleVersionsProofs` | `Types`, `OneContentPerVersion`, `NothingComesBack` | `TypeOK`, `VersionNamesParts`, `PartsMoveForward` |
| `CurrencyRatesProofs` | `Types`, `AuditIsTrue`, `DevicesHaveRates` | `TypeOK`, `AuditTellsCurrent`, `DevicesAgree` |
| `SalePostingProofs` | `Types`, `EveryNumberAccounted`, `NoDeadlock`, `SalesEnterWhole` | all of `sales` |
| `TenantAdminProofs` | `Types`, `OwnerRemains`, `RolesStayActive`, `LimitsHold`, `GrantsHold` | all of `tenant_admin` |
| `AccessProofs` | `SignInTypesCorrect`, `FailuresLimited`, `SessionsStayEnded`; `RegistrationTypesCorrect`, `NumbersAreUnique`, `RegistrationsWithinLimit` | all of `sign_in` and of `registration` |
| `DeviceLicenseProofs` | `Types`, `GuardIsKept`, `DocumentsAreWithin` | all invariants of `device_license` |

Other theorems state what no run has among its properties; TLC checked them before they were proved:

| Module | Theorem | What it says |
|---|---|---|
| `PushSyncProofs` | `LockSuffices` | what a transaction read under the device's lock still holds when it stores |
| `PushSyncProofs` | `NothingIsForgotten` | every committed operation of a registered device is recorded, lost by the server, or pending |
| `PushSyncProofs` | `GapsTellOfLoss` | the server meets a gap only after it lost rows of that device |
| `PushSyncProofs` | `OnlyRevokedDevicesWipe` | a device is told of a revoke, and wipes, only after the revoke committed |
| `ChangeLogProofs` | `CaughtUpHoldsRows` | a device whose cursor is at the counter has the committed rows |
| `ChangeLogProofs` | `RowsNeverGoBack` | no page takes a cursor or a row back, however late |
| `ChangeLogProofs` | `PagesMoveOn` | a device that is behind gets a page, and the page moves its cursor |
| `BundleVersionsProofs` | `AnswersAreOfUse` | an answer is newer than what the device holds, or rightly says that it holds it |
| `CurrencyRatesProofs` | `NobodyIsStuck` | one request can go on, or the database has a deadlock to end |
| `CurrencyRatesProofs` | `OnlyFirstRatesDeadlock` | in a deadlock one of the two is a save that published something before its first rate, and ending either leaves none |
| `SalePostingProofs` | `BooksAmountToSales` | cash, revenue and stock are the sums of the accepted sales |
| `AccessProofs` | `EveryFailureCounts` | every failure adds one to what `FailuresWithinLimit` counts |

Some of them are the safety half of a liveness property: `RequestsEnd` rests on `NobodyIsStuck`,
`CatchesUp` on `PagesMoveOn`, `HoldsCurrent` and `RefusalEnds` on `AnswersAreOfUse`. They say that
a step is possible and moves things on; that it is taken is fairness, and left to TLC.

**`PushSync`.** `RecordedOnceInOrder` is not inductive: a step that stores must know that what its
transaction read still holds. `IInv` adds `TxReads` (the next number and the stored outcome a call
in `tx` read are still so) and `OneTx` (one call of a device is in `tx`), which are the lock;
`AnswersAgree` (an answer under way says what the row says, or the row was lost), which carries the
truth to `RecordAnswer`; and `OutboxComplete` (every operation of a registered device is pending or
has an outcome), which gives `WipeLosesNothing` when nothing is pending. `FlaggedSinceRevoke` needs
two more: the rows at the revoke were counted, and a transaction that began after it saw it.
`PushKeepsPromise` maps every step to a step of `ExactlyOnce` or a stutter, while the server loses
nothing; the fairness of the abstract specification is not part of it.
`GapsTellOfLoss` needs `PushesWhole`: before an operation on its way comes nothing that is neither
on its way with it nor recorded. A batch has it because the oldest pending operations go first
(`BatchIsFirst`) and what is not pending was answered, so recorded; a call keeps it because
it stops at a gap and takes an operation off only when its row is there.
`OnlyRevokedDevicesWipe` needs `CallsTellTruly`: what a call saw of a revoke, or brings word of, was
committed when its transaction read it.

**`ChangeLog`.** `RowLocks` and `CounterLock`: a row is written, and the counter held, by one
transaction, whose changes are numbered from the committed counter on; `SaysWhatItWrote`; `Finite`;
and `PagesWhole`: a page under way has every change from the device's cursor up to its own last
number, *also after* later commits, since a commit adds only higher numbers. `RowAtIs` says what a
device at a number holds of a row: the last edit that a change up to that number tells; with the
counter for the number this is the row, and with a later number it is a later edit.

**`BundleVersions`.** `Counts`: one build writes the row at a time, and it writes the next version.
`OneContent`: of all versions signed, in the row, or about to be signed, those that are equal have
one digest. `Reads` and `Fresh`: the build the device awaits read every part after what it holds
was read; a build given up may be older, but its answer is not taken. `TakesSigned`: what a device
may take was signed. `AnswersAreOfUse` adds `Asked`: the awaited build knows the version that is
held, and since that was signed before, the version it comes to is not lower.

**`CurrencyRates`.** `UnderPair`: a transaction past its check holds the pair's lock, and the rate
it read is current still; one holds it at a time. `OneRecorded`, `OneUnsent`, `OneRequest`: an id
is of one rate, wherever it is. `Holds`: a device has what it pulled and, of its own, what is
recorded later or still to send; with everything pulled and sent the two sets are the same, and
`HasCurrent` says that a set of rates has one that is later than all others. `Locks` says who
has which lock at which step, and that one has it: nobody waits for the pair with the counter but a
save that published something before its first rate. So behind the counter stands one that may
commit, or such a save; and behind the pair one that waits for the counter. The only circle is of
these two, and there is one of it at a time (`OnlyFirstRatesDeadlock`).

**`SalePosting`.** `Halfway`: a transaction has moved the first products of its sale, each from
the committed level, and knows the gap; `RowsLocked`: a product is moved by one of them. The
transaction that has come to the greatest product moved can always go on, and this is the
proof of `NoDeadlock`. `SalesEnterWhole` is the refinement, complete: `SaleBooks` has no fairness.
`BooksAmountToSales` says what the books come to: `Commit` adds one sale to the accepted ones, and
its price to both sums. `Types` follows: a sum of prices is a natural number. The facts about
sums are proved without induction theorems, which the provers cannot use: a set for which
the fact fails has a subset of least size for which it does, and taking one element away
leads to a smaller one.

**`TenantAdmin`.** `Judged`: what a request was checked against - another owner, room under the
limit, an active role within its manager's - still holds while it is `ready`, because whoever
could change it needs a lock that it keeps (`RolesLocked`, and the tenant's row in `TypeOK`).

**`SignIn`.** `Charged`: the address is charged with the attempts in flight, who are finitely many.
For the limit of a key: `OneCheck`, at most one attempt is checked at a time, which is the lock;
`Covered`, no failure of the present window was pruned, so that what `Throttled` counts is all
there is; hence `Judged`, an attempt that time did not pass under is checked with fewer failures than the limit
in the window, and may add one. `Numbered` makes that one a row that was not there
(`EveryFailureCounts`), so the count is not of times but of failures. For sessions `Current`: every one
there is has seen all endings of its user's sessions. What `PruneList` keeps of the list of the
address is a fold; that it keeps a list of times is proved by a least counterexample, as for sums.

**`DeviceRegistration`.** `PrefixesOnce` and `NumbersLeft`: a prefix is one device's for ever, and
numbers past the machine's counter were not given; `CodesOnce`, `MachinesApart` and `Placing` for
the codes, machines and the limit.

**`DeviceLicense`.** `Clocks`: from a contact on, the local clock ran as fast as the server's, or
is ahead of it by what it was set; `Peak`: the mark as written is less than a step behind the
latest time read; `Order`: bundles come in the order they were issued; `Judged`: the state held is
a license's at the time it was judged; `Offline`: a day evaluated since the contact and not found
offline is not so by more than the rest of it. Business days are a division by any length.

**Left to TLC.** Liveness, with the fairness it rests on (`KeepsPromise`'s half of it,
`RevokedDeviceWipes`, `CatchesUp`, `HoldsCurrent`, `RefusalEnds`, `RequestsEnd`, `LocksEnd`):
beyond the prover, as is ENABLED; what the theorems call possible is the conjunction of the
guards. Nothing proved uses a recursive operator.

## Findings

- **Two manifests for one version** (`bundle_manifest`). `core/sync/src/server/schema.ts:161`
  keeps `issuedAt` "so each version signs the same manifest". The digest that decides on a version
  covers the parts; the license reference in the manifest is read after them
  (`core/sync/src/server/bundle.ts:53`). A license installed in between, and a second build of the
  same digest, give one version two manifests. The next build of the new license has a new
  version, so devices recover.
- **A first rate that is not the first** (`currency_first_rate`). `core/currency/src/server/settings.ts:66`
  says that a first rate is only for a currency without one. Which currencies have a rate is read
  at line 99, under the lock of the settings row, which nobody who sets a rate takes; the lock of the
  pair comes with the insert. A rate set in between is followed by a "first" rate
  that nobody compared with it or confirmed, and that is current from then on.

Places where code and text differ, seen while the modules were written; the properties are stated as
the code keeps them, and no run is made of these.

- *The device's time may fall back a little* (`core/tenancy/src/client/device-license.ts:256`, "never
  earlier than the latest local time seen"). The mark is written in steps, so a clock set back
  takes the time back by less than `MARK_WRITE_STEP_MS`. `GuardKeepsTime` says this much.
- *A day may be held for more than one.* ADR-0030
  (`docs/decisions/0030-tenant-licenses-and-configuration-bundle.md:37`) grants "up to one extra
  business day of use". A day evaluated while the clock was ahead, then lifted by a renewal at an
  earlier date, is not evaluated again when that date comes: the comparison is for another
  date, not a later one. `DocumentsWithinLicense` leaves this day out.
- *A contact lifts the offline flag of a day evaluated ahead* in the same way, so that the offline
  limit can be passed on that date.
- *An attempt is judged by the time it began.* One that waited while the key's window ended, and
  another failed, can be one failure more of the old window; `FailuresWithinLimit` counts the others.
- *A session opened after the password changed.* An attempt verified with the old password opens
  its session after `changeOwnPassword` (`core/access/src/server/users.ts:878`, "whoever learnt
  the old password is out") or a deactivation ended the others, and it lives on; after a deactivation,
  until the user is active again. `EndedSessionsStayEnded` is about sessions that were open.
- *A user who comes back is judged once.* A manager who is not an owner brings back only a user whose
  role holds nothing beyond their own (`core/access/src/server/users.ts:339`). `reactivateUser` reads
  what the role holds before it locks the role's row (lines 684 to 690), to see that it is active, and
  not again after: an edit of the role that commits between the two is not seen. `addUser` and
  `changeUser` judge the role under its lock. `GrantsWithinOwn` is about these.
- *Checked, then counted.* For a password sign-in on a device, the check of the address and its
  count are separated by the read of the device, so a burst may pass the check together, against
  `core/access/src/server/throttle.ts:91`. The limit of the key, in the database, still holds.

## What is not modelled

- A reading of the log from its start for entities an older app had no applier for: announced in
  the source, not built. `Known` is constant. Tombstones: no caller writes one.
- A server restored from a backup, for bundles and the pull: an open question of the repository's
  own documents. For push it is `LoseTail`, which the protocol handles.
- A page that cuts a transaction in two: it is in the model, and no property forbids it, since
  nothing in the repository promises devices whole transactions.
- Currency: the values of rounding steps, the change currency, and a threshold that changes; that a
  save publishes them is in the model.
- Administration: the department scopes of users, names and their uniqueness, copies of roles,
  grants of templates, a license that lowers the limits.
- Sign-in: the second factor and its recovery codes (a choice), eviction of counters at their
  maximum, the counter of unknown stores, the expiry of sessions, cookies.
- Registration: a second type of devices, the session bound to the new device, the secure store,
  and the check for pending operations before a wipe, which is in `PushSync`.
- Sales: the flags for negative stock and for arithmetic that differs, price overrides, printing.
- Licenses: their signature, installation and announcement.
- PIN sign-in on the device: see the plan.
- Decimal arithmetic of `packages/kernel`; cryptography (signatures, hashes, sealed secrets); I/O
  (SQLite, key storage, printing).
- The largest part of the source by lines: screens, forms, routes with their schemas, tables of
  texts, widgets and the gallery, tools. They keep no state that outlives a request or a screen.

## Plan

In order of weight; what is done is above.

1. **PIN sign-in on a device** (`PinLockout`): the lockout counted before the hash and read again
   after it, over restarts, with bundles that bring a new PIN or an old one. Known already: an attempt
   checked against an older bundle's PIN may reset the count of a newer one.
2. **The engine's round** (`SyncRound`): the single flight of `syncNow`, the phases shown, and a crash
   between the wipe and `markRemoved`, after which the device does not say why it is empty. It
   would compose the interfaces of the parts.
3. **Sign-in, further**: the second factor with its used codes and steps, and eviction of counters.
4. **Department scopes and names** in `TenantAdmin`: archiving a department that is a user's only one.
5. **Bounded checks of `packages/kernel`**: rounding and allocation against a definition.

Theorems to add: the safety half of the liveness properties that have none yet, `LocksEnd` (a bundle
and a server time that reach a locked device free it) and `RevokedDeviceWipes` (a revoked device
with nothing pending is told so, and may wipe); the order of locks in `TenantAdmin` and
`DeviceRegistration`, which no request takes in a circle.
