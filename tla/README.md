# ziway-oas: specifications, model checks and proofs

This directory specifies the parts of the ziway backend (`src/ziway-backend`) whose
correctness depends on the order of steps of several actors: processes that share a
file, requests that share a table, logins that share a counter, a cache that carries old
values upwards.  Each such part is a TLA+ module, checked by TLC on small instances, and
for the most important properties proved with TLAPS for every value of the constants.

Paths below are relative to `src/ziway-backend` unless they start with `archive/`.

## 1. Inventory

The system is three Go programs over one SQL database, each an HTTP server (gin, one
goroutine for each request) that uses gorm.

| program | what it is |
|---|---|
| `cmd/oas` | OAS, the authority: accounts, logins, tokens, RBAC policies, approvals, keys, audit log, the admin console |
| `cmd/os` | BOS, the operating plane: JWT and RBAC middleware, then a proxy to the services |
| `cmd/ms` | MBS, the services: ams, cms, dms, ems, fms, gms, hms, ims, oms, sms, tms, vms |

| component | state | operations | interacts with | hard behaviour | what makes it correct |
|---|---|---|---|---|---|
| policy authority: `handlers/rbac.go`, `seed.go` | table `rbac_policies`, file `configs/rbac_policy.csv` | create, update, delete, sync, seed at boot, rewrite the CSV | BOS, by the file alone | overlapping requests, errors that are not looked at, crash between table and file | the file says what the table says |
| policy loader: `rbac_enforcer.go` (load, watch), `cmd/os` | rules, time stamp of the file | start, tick every 5 s, load | OAS, by the file | reads torn by a rewrite, equal time stamps, failed loads | it enforces the last version, and nothing that was never authorised |
| RBAC decision: `rbac_enforcer.go`, `middleware.go` | the rules | match path and method, decide | loader, JWT middleware | wildcards, two paths (with and without roles), lost columns | a request passes exactly if a rule grants it |
| login limiter: `pkg/ratelimit`, `handlers/auth.go` | failures and lock of each address and user | check, record failure, record success, clean up | Login, ProxyAMSLogin | check and record are separate steps; clock; clean-up | guesses are bounded, locks last |
| ID generator: `pkg/idgen` | last time, sequence | Next | (no caller in the backend) | wrap of the sequence, clock set back, restart | no ID twice |
| approvals: `handlers/approvals.go` | `approval_requests`, `audit_logs` | create, approve, reject, execute, delete | whitelists in `authz.go` | read, then save the whole row; then audit | a decision is final and attributed, the audit log is true |
| investment cases: `mbs/ims` | `icases`, `icase_approvals`, `investment_positions` | create, update, submit, approve by party, reject | callers in three planes | three writes in a row, errors not looked at, any order of parties | no capital without three sign-offs |
| OAuth: `handlers/auth.go`, `oauth_clients.go` | `oauth_clients`, `oauth_authorization_codes` | authorize, exchange; register, change, suspend, delete a client | JWT issuer, users | code read and marked used in two statements, the client looked up once, expiry, restart | a code is used once, by whom it was made for; a withdrawn client gets nothing new |
| accounts and roles: `users.go`, `roles.go`, `admin_accounts.go`, `seed.go`; `mbs/ams` | `users`, `roles`, `user_roles` (OAS and ams name the same tables) | create, register, enable, disable, update, delete; assign roles; seed at boot | logins, gates | delete then insert, count then delete, whole-row saves from two processes, seeding again | withdrawn assignments are gone, accounts taken out stay out |
| organisations: `handlers/orgs.go` | `organizations`, `user_organizations` | create, update, delete, add member | gates, audit log | children and members counted, then deleted; lookup, then insert | a deleted organisation has no child or member, but in a race |
| keys: `api_keys.go`, `admin_mw.go` | `api_keys` | create, enable, disable, rotate, delete; authenticate | gates, audit log | lookup before a slow comparison; status read outside the transaction; expiry | rotations are bounded by the requests that overlapped |
| nodes: `federation_nodes.go` | `federation_nodes` | create, activate, suspend, change trust, update, delete | audit log | read, then update single columns | a suspension lasts until an activation |
| configuration: `system_config.go` | `system_config` | update, delete | audit log | any error counts as "no row"; unique index over deleted rows | what was acknowledged is stored |
| owner plane: `owner.go`, `ownership.go`, services | `governance_policies`, `domain_registries`, `service_registries` | create, update, heartbeat | gates | whole-row save | |
| gates: `admin_mw.go`, `audit_mw.go`, `users_mw.go`, `orgs_mw.go`, `middleware.go` | none | admit or refuse | routes | what was looked up may be history | each route is open to whom the table says |
| cache: `pkg/cache`, `ams/policy_cache.go` | L1 map, L2 Redis, origin | get, invalidate | OAS's policies, by the database | backfill after an invalidation or a write | staleness is bounded |
| events: `pkg/eventbus`, publisher in vms | subscribers, goroutines | subscribe, publish | vms | a goroutine for each event and handler | every event arrives, until a crash |
| market: `mbs/ems` | stores, applications, products, orders, profiles, inventory; suppliers, supply, shipments | about forty handlers | none | counters in statements of their own, review twice, lookup then insert | counters agree with rows; an approved application has its store |
| value cases: `mbs/vms`, `mbs/oms` | `vcases`, `execution_logs`, budgets, approvals | submit, execute, complete, fail; decide | event bus | status checked by some handlers only; log and event after the save | nothing is executed that was not approved; the log tells what happened |
| incubation: `mbs/sms` | projects, stage records, graduate records, terminals | advance, graduate, activate | none | two tables in two statements | row and record agree |
| other services: fms, hms, cms, dms, gms, tms | one table or a few each | CRUD, approve | none | errors of First not looked at | a status keeps its date |
| BOS orchestrators, pages, libraries, `archive/` | none of interest | forwarding, rendering, I/O | | | |

`PROJECT.json` lists the same components with their files and status, and every
hazard at its line.

Nothing in the backend consults an approval before it acts: the workflow documents
decisions, it does not gate them.  No property here says otherwise.

## 2. Plan

Order: what decides who may do what comes first, then what moves money, then the rest.

1. Done: `PolicySync`, `RbacDecision`, `LoginLimiter`, `OAuthCode`, `Accounts`,
   `ApprovalFlow`, `InvestmentCase`, `Snowflake`.
2. Done: the console, `OasConsole`, composed of `ApiKeys`, `FederationNodes`, `SystemConfig`
   and `Organisations` over `ConsoleRequests`.
3. Done: the MBS process, `MbsProcess`, composed of `ServiceRows`, `StoreMarket`,
   `EventBus` and `PolicyCache` over `Requests`; `BoundedLag`, the abstract specification
   that `PolicyCache` implements.
4. Done: proofs of every safety invariant, action property and refinement the passing runs
   check, and of what the two violated ones and `EventsReach` leave: what holds once requests
   do not overlap, and that no event is lost on its way.  Section 5 gives the arguments.
5. Left: the gates as one decision for a route; a restart in the limiter.

Modules are written to be proved about: parameters are CONSTANTS with named assumptions,
one action for each operation or statement, no RECURSIVE operator.

## 3. The modules

A gorm handler is a sequence of statements, each a transaction of its own, with no
transaction around them.  So a handler that reads, checks and writes is modelled as
one action for each statement that touches shared state, and requests of other
workers run in between.  A guard that a handler evaluates on a row it has just read is part of the
action that reads.  Statements whose errors the code drops have a `...Fails` action
that goes on; statements whose errors it answers have one that stops.  In every module
a budget bounds the requests and the crashes and failures; when it is spent nothing has
to happen, so the runs do not check for deadlock where the system may be idle for good.

**PolicySync** (`handlers/rbac.go`, `seed.go`, `rbac_enforcer.go`, `cmd/os`).  Two
processes.  OAS: a thread accepts a request (`CreateRBACPolicy`,
`UpdateRBACPolicy_First`, `DeleteRBACPolicy`, `SyncRBAC`), changes the table, then goes through
`RegeneratePolicyCSV` in three steps: `Regenerate_Find` (the SELECT),
`Regenerate_Truncate` and `Regenerate_Write` (the two effects of `os.WriteFile`).  The boot
thread runs `StartOAS` and `SeedRBACPolicies`.  BOS: `StartBOS`, `Reload` (the tick),
`LoadPolicy_Stat`, `LoadPolicy_Scan` and `LoadPolicy_Publish`, the scan being two reads with writers in
between.  A line of the file is a number, its rank in the export's ORDER BY, so that
"up to some byte position" is "all lines below k".  Two writers of one file each write
from offset 0, so the longer text shows through behind the shorter (`Overwrite`), with one
line possibly cut (`Torn`).  A reader whose file was rewritten between its reads sees a
tail of the new text (`NextRead`).  `FineClock` says whether every write gets a time stamp of
its own: it is so in the runs, and it is the hypothesis of `ReloadCorrect`; of two writes with one
time stamp BOS does not notice the second.  Columns other than subject, resource, action and status are left out;
primary keys are not used again; fields contain no comma and no line break.

**RbacDecision** (`rbac_enforcer.go`, `middleware.go`).  `RBAC`, `Enforce`, `EnforceWithRoles`,
`matchResource`, `matchAction` as operators over the loaded rules; `matchSegments` is the
code's recursion over suffixes of pattern and path, as a recursive function of the pattern's alone:
`matched[j]` are the positions from which the path matches the pattern from its `j`-th segment on.  A path is its segments after
the leading slash.  The export and the load of all lines are one step (`Reload`), since
`PolicySync` is about how the file gets across.  `Covers` is the reference: a path can be
cut into one piece for each segment of the pattern.

**LoginLimiter** (`pkg/ratelimit`, `Login`, `ProxyAMSLogin`).  Each limiter call is one action,
since it holds the mutex; a login is `Begin` (with `Check`), the verification during which
other things happen, and one of `RecordFailure`, `RecordSuccess`, `AccountDisabled`.  `Cleanup`
may run at any time: its ticker's phase is arbitrary.  `fails` and `lockedAt` are
history; a failure is its time and its number among those of that time (`Failure`).  Time is in units; the ratio of lockout and idle time is the code's (15 to 30 minutes).

**OAuthCode** (`AuthorizeCode`, `OAuthToken`, `oauth_clients.go`, `SeedDefaultOAuthClients`).  An
authorization is two steps, the lookups (`AuthorizeCode`) and the INSERT; an exchange is
the lookup of the client with the comparison of its secret (`OAuthToken`), the lookup of
the code (`OAuthToken_Code`, `OAuthToken_Refused`), the UPDATE that marks it used
(`OAuthToken_Mark`, or `..._MarkFails`, whose error is dropped), and the lookup of the user with
the answer (`OAuthToken_Issue`, `OAuthToken_NoUser`).  A console handler writes columns that do
not depend on what it read, so it is one step.  A secret is the number of times it has
been changed.  A presented secret is the current one: the others are refused without a
change.  `issued`, `holders`, `owed`, `tokens` and `consents` are history.  Left out: the failure of the
JWT issuer, which answers with no token, and a crash in the middle of the seeding.

**Accounts** (`users.go`, `roles.go`, `admin_accounts.go`, `SeedTestUsers`; `Register`, `UpdateUser` and `CreateRole` of ams).
An account is its username and a role its code, because the unique indexes count
deleted rows: a name is never used for a second row.  `UpdateUserRoles` and `CreateUser` share
the loop `Grant_First` (lookup of the next role), `Grant_Create` (INSERT).  The three requests on
an administrator's row are `ReadRow` and `Save`; gorm's Save writes every column and inserts
the row again if it is gone, `deleted_at` included.  The models of ams and OAS name the same tables
(`internal/mbs/ams/ams.go:72`, `internal/oas/model/model.go:163-223`), so ams's handlers are requests of this
module: `Register`; `UpdateUser`, which reads the row of any account, and `UpdateUser_Save`, which writes
all columns that ams has (`role_code` is not among them) with the status of the body; and `CreateRole`, the same INSERT
as OAS's.  Assumed of ams's callers: a body of `UpdateUser` does not carry the key or the username of another account,
and no other status than active and disabled.  A crash of ams before its Save leaves what a failed Save leaves
(`Save_Fails`); one of OAS ends the requests of OAS only.  `DeleteRole` counts and then deletes.  The seeding at
boot is one step, computed by `SeededRoles`, `SeededUsers` and `SeededGrants` in the order of
`SeedTestUsers`, since OAS serves no request before it ends (a request of ams that falls between its
statements is modelled before or after them); the keys of the
assignments are left out, so which of an account's is the first one is left open.  `may`, `raced` and `out`
are history: what an account may be assigned since its roles were last withdrawn, the
assignments made while their role was being deleted, and the accounts taken out.  A restart adds to `may` exactly what
the seeding assigns (`Reassigned`), and to `out` the accounts that it freezes, but for one that a request of
ams is about to save as active.  Left out: the
gates and whitelists, which refuse without a change, `UpdateRole`, which changes no code, the
row of `disabled_user`, and a crash in the middle of the seeding.

**ApprovalFlow** (`approvals.go`).  Each handler up to its write is one action that ends with
the row it is going to save in `req`; `Write` is Save or Delete, `Audit` the INSERT after it.
Who may do what is the handler's own check (`WhitelistB`, `OUAU`).  A request made with an API key has a username
and no `user_id` (`AdminAuth`), so a key's approval stores an empty `approver_id` (`ApproverOf`, `Anonymous`).
`done` is history.

**InvestmentCase** (`mbs/ims`).  `Request` reads the case and computes the row, `Record`,
`OpenPosition` and `Save` write in the handler's order.  `BodyFields` names the columns callers put
into the body of POST and PUT: the code binds the body over the row, so with `"status"`
in it a caller deploys a case by hand.  `requested` and `unopened` are history: the approvals asked for, and the
cases of which the INSERT of a position has failed, an error the handler does not look at.

**Requests** is what every gin process has: workers, each idle or at a statement of a
handler, what they have read, and the budget.  `Start` is a request's first statement,
`Proceed` another one, `ProceedFailed` one that fails without anybody looking, `CrashRequests`
the end of them all.  **ConsoleRequests** adds what the console's handlers share: the
audit row INSERTed last.  `Requests` is below the modules that follow.

**ServiceRows** (`vms`, `oms`, `sms`, `hms`, `fms`, `gms`, `tms`, `cms`, `dms`; `ems` except
what is in `StoreMarket`; `CreateAccount` of `ims`; `owner.go` and the service registry of OAS).  These services have some seventy handlers
that write, and they are alike: First, perhaps a look at the status, a new status and
date, Save, perhaps a second INSERT and an event.  So a handler is a record with what is
its own (`CreateVCASE` to `CreateAccount`: the table, the statuses it accepts and sets, the dates it
stamps, the record it writes before or after, whether it looks at the error of First),
and `Insert`, `Read`, `ReadMissing`, `Save`, `SaveEmpty`, `Trail`, `Record`, `UpdateColumn` and `Delete` are the
statements.  The status is the column the handler is about: `status`, `decision` (oms),
`stage` (sms projects, NPI).  Each table is written by one service and by nothing else, so a behaviour
exercises one; the tables that ams shares with OAS are in `Accounts`, and hms's `organizations` is treated as
its own (section 4, on disagreements).  Save
writes every column and brings back a row that has been deleted meanwhile; with an
empty row (the error of First was dropped) it INSERTs, once, since the generated number is
unique.  An INSERT that is refused changes nothing and is a stuttering step.  Assumed of
the callers: a body bound over a row carries the row's own key, keeps its dates, and sets
the statuses listed with the handler (for `UpdateVCASE` approved, rejected or executing: no
handler of vms approves a case); a graduation code may come from the body of
`UpdateProject`.  `happened`, `setBy` and `disturbed` are history.

**EventBus** (`pkg/eventbus`, `publish` of vms).  `Emit` starts the goroutine, `Publish` is its reading
of the subscribers, `Deliver` the end of one handler's goroutine.  No code under `src/`
subscribes: `Subscribe` stands for what a program does before it serves, and topics are named by the
status of the case.  Marshalling a case does not fail.

**StoreMarket** (`mbs/ems`, stores).  Five sections of one store: products, orders,
applications, profiles, inventory.  A handler's INSERT, its counter's UPDATE, its
whole-row Save are statements of their own.  `MAX(product_count - 1, 0)` is a function of
SQLite; PostgreSQL has no such scalar and refuses the statement, so on it
the counter is never lowered.  A number made of nanoseconds modulo 10000 may be
taken (`InsertRefused`).  Product bodies keep the status.  `CreateStore`, which only INSERTs a
store, is a handler of `ServiceRows`.

**PolicyCache** (`pkg/cache`, `ams/policy_cache.go`).  A `Get` is up to five steps (L1, L2, origin, fill
L1, fill L2), each with its failure; entries age by ticks; a request may hold a value
for at most `MaxHold` ticks.  A version stands for a set of policies.  `main` gives the cache
no Redis, and the type it caches could not be stored in one as it is; `redis = TRUE` is the library's cache for a
value that can.  **BoundedLag** is what a reader may rely on: the answer is a set of policies that
was replaced at most `limit` ticks ago.  `Lag == INSTANCE BoundedLag WITH limit <- Staleness`
is the refinement: the levels, the requests and the invalidations are hidden, and `Staleness` is the two lifetimes and two
holding times less the ticks in which an entry expires.  The bound is tight: the same
instance with `Staleness - 1` is violated.

**MbsProcess** composes these: one scheduler of requests, one bus, one crash.  A behaviour
exercises one area (rows, market or cache), because no handler touches two.

**ApiKeys**, **FederationNodes**, **SystemConfig**, **Organisations** are the console's handlers,
statement by statement: a handler named as in the code is its reads up to the first
statement that writes, `InsertKey`, `SetKey`, `RotateTransaction`, `SetNode`, `SaveConfig`, `DeleteOrgRow` and the like
are the statements.  A request under an API key goes through `AdminAuth` (the lookup) and
`Compare` (bcrypt, which takes its time, and the scopes read before it); a request under a
token has passed its gates already.  A value of the configuration is the number of
the request that sent it.  A foreign key may refuse the INSERT of an organisation
(PostgreSQL) or not (SQLite); both are behaviours.  `enabled`, `orders`, `acknowledged`, `suspect`,
`late` and `untold` are history.  **OasConsole** composes them, one area for each behaviour.

**Snowflake** (`pkg/idgen`).  `SameMillisecond`, `NewMillisecond`, `Woken` are the branches of `Next`; the
spin holds the mutex, so the generator serves nobody meanwhile.  `SeqSize` is 4096 in the
code and small in the check.  A restart falls into a later millisecond.

## 4. The runs

| run | what it shows | bounds, and why they are enough |
|---|---|---|
| `policy` | BOS has the file's lines whenever it sees no newer time stamp; nothing is enforced that was never active; table and file agree, BOS catches up with the file in spite of a crash or fault, and with the table without one | one admin thread and the boot thread, two requests, two lines, two rows, one crash or fault at any point: enough for a create, update or delete before or after a load, and a torn load. `TypeOK`, `ReloadComplete` and `NoForeignRule` are proved for any number of threads, `CsvMatchesAuthority` for one besides the boot thread, any rows and rules |
| `policy_race` (violated) | two overlapping requests leave a deleted policy in the CSV | two admin threads, one request each |
| `limiter` | between two successes a key takes at most (maxFail - 1) + maxFail + (threads - 1) failures in a lockout period; locks last | one address, two users, two logins at a time, maxFail 2, six units of time against a lockout of 2: a lock, its expiry, the clean-up and the next lock |
| `snowflake` | no ID twice before the clock is set back | two machines, wrap after two IDs, three milliseconds, at most seven calls |
| `approval` | a decision is attributed to the account that took it, or to nobody if an API key did (`DecisionAttributed`), and the audit log is true, with interleaving, a failed statement and a crash; the log is complete without the last two | an OU and an SU account, an API key and an account without the right to approve; two approvals, two requests at a time, four in all: each decision against each other |
| `approval_race` (violated) | rejected becomes approved | one approval, two requests at a time |
| `icase` | three parties before capital moves; a deployed case with an account has its position, unless the INSERT of one failed (`DeployedHasPosition`) | one case (cases share nothing), two requests at a time, five in all: create, submit and the three sign-offs, or any other mix |
| `oauth` | a code is exchanged once for each exchange that had already found it, at most; a withdrawn client gets tokens only for exchanges under way; tokens match what was authorized | two codes, two clients, two URIs, one user, two requests at a time, four in all (two authorizations and two exchanges of one code), one console change, one failed statement, one restart, a code's life of one unit in three |
| `accounts` | withdrawn assignments stay withdrawn, unless they are made again (`WithdrawnRolesGone`); a role assigned to somebody is not deleted, but in a race; accounts taken out stay out | an administrator and a test account that are seeded, a third account, one governing and one frozen role; two requests at a time, three in all: two that race and one before or after; one failed statement, one restart |
| `rbac` | the matcher equals its reference; decisions are by rule | every pattern and path of up to four segments over two words, star and parameter; every pair of policies over three patterns |
| `services` | the records and events of a case or shipment tell what happened and are complete when nothing crashed, a project's stage record is never missing (`TrailFaithful`); project and graduate record agree (`GraduationRecorded`); nothing is executed that was not approved (`ChainKept`); a status has its date (`DatesMatchStatus`); counters are exact unless one of the listed accidents happened (`CounterExact`); an approved application has its store (`StoreTraceable`); upserts are bounded by overlap (`UpsertBound`); every event arrives (`EventsReach`); the cache implements `BoundedLag` (`AnswersBounded`) | two requests at a time, four in all (create, and three that race or follow: draft, approved, executed), one failed statement, one crash; one row of one table (rows do not interact), three items of one store (two creations and a deletion twice), five sections, both databases; one topic with one handler; both lifetimes two ticks, one tick of holding, one change of the policies, five ticks: enough for a value to pass through both levels, and `Staleness - 1` is violated within them |
| `console` | the audit log tells of every statement when nothing failed (`AuditTells`); a key has no more successors than requests that overlapped, for each time it was enabled (`SuccessorBound`); suspensions and trust levels are as last ordered, deleted nodes stay deleted (`SuspensionStays`); an acknowledged value is stored (`ConfigAcknowledged`); no orphans but by a race or a failed count (`NoOrphans`) | two requests at a time, three in all: two that race and one before or after; one failed statement, one crash; four keys (one and its possible successors), two nodes, a plain and an encrypted setting, two organisations (a parent and a child) and one user; requests are symmetric |

The two violated runs are disagreements between the code and what its comments say;
`PROJECT.json` quotes the lines under "findings".  More were met and have no run:

- A policy whose effect is deny grants: the exported line has no effect (`internal/oas/seed.go:78`), while
  `configs/rbac_model.conf:16` decides by `p.eft == allow`.  `RbacDecision!Exported` drops the effect as
  the code does.
- A case can be deployed without having been at the stage `sms_approved`, a draft or a
  rejected case too, because the ims branch looks at the flags alone (`internal/mbs/ims/ims.go:258`);
  lines 86-87 give a chain of stages.  `TripartySign` holds nevertheless.
- A star matches no segment at all, too: the loop of `matchSegments` starts at 0
  (`pkg/middleware/rbac_enforcer.go:218`), while the comment at line 217 says "one or more remaining
  segments".  `Covers` says what the code does.
- The approval of an API key is stored with an empty `approver_id` (`internal/oas/handlers/admin_mw.go:88`,
  `approvals.go:210`), a column that `internal/oas/model/model.go:189` describes as a business code; nobody can be
  read off the row.  The audit record names the key.  `DecisionAttributed` says so.
- `UpdateUserRoles` withdraws assignments, but a login of OAS puts the `role_code` of an account that has one into the token,
  whatever is assigned (`internal/oas/handlers/auth.go:74`, 217, 617, 721): the role of an administrator's account is not
  withdrawn by that handler.  `WithdrawnRolesGone` is about the assignments alone: what ams puts into tokens, and OAS for
  accounts without a `role_code`.
- A restart assigns a test account its seed role again after an administrator withdrew it
  (`internal/oas/seed.go:340-405`); `WithdrawnRolesGone` allows it.  What it excludes is that the seeding assigns anything else.
- ams's `UpdateUser` saves rows of `users` whole (`internal/mbs/ams/ams.go:282`), with a status from the body and
  without the console's gates: a second way to enable an account or bring a deleted one back.  `StaysOut` counts it as
  an order to enable if the body says active, and as a request under way if it does not.
- hms's `Organization` names OAS's table `organizations` when both run on one database; its INSERT carries no code, which
  OAS's column requires, and would be refused there.

And one more has no model: ams inserts an audit row for each login into a table that no migration creates
(`internal/mbs/ams/ams.go:177`, the error is dropped), so no such row is ever stored.

In the modules of the console and of the MBS process the properties say what the code
guarantees, and name its exceptions: where a counter, a record or a count may be wrong,
the property lists what must have happened before it is (`drift`, `disturbed`, `late`, `suspect`).

A run has a type invariant where one is worth its while.  `LoginLimiter` and `RbacDecision`
keep sets of records and numbers only; the types of `ApprovalFlow` are a theorem
(`ApprovalFlowProofs!TypeCorrect`); those of the MBS process and the console are part of the
proved invariants of their areas (`CacheInv`, `RowsBase`, `MarketInv`, `KeysInv`, `ConfigsInv`, `OrgsInv`).

**Fairness.**  In `policy` the liveness properties are under `FairSpec`: weak fairness of the steps of a request
that has been accepted (a goroutine runs its handler to the end), of the seeding (main
runs on), and of the watcher (a ticker that never stops).  Nothing makes a process
start, a request arrive, or a fault or crash happen; the properties therefore assume
that BOS is eventually up for good.  A failed load is not followed by a fair retry of its
own: it is the tick that must pick the file up again, which is what
`WatcherCatchesUp` is about.  In `services`, `EventsReach` assumes weak fairness of the goroutines
of the bus, of publishing and of delivering: the Go scheduler runs a goroutine that is
ready, and these wait for nothing but a read lock nobody holds for long.  Requests need not
be finished, nor come.

Each property of a passing run has a mutant: a definition changed the way a plausible
bug would change it, kept in the module next to the original and named for the bug.

## 5. The proofs

| theorem | statement | argument |
|---|---|---|
| `PolicySyncProofs!TypeCorrect` | `Spec => []TypeOK` | action by action |
| `PolicySyncProofs!ReloadCorrect` | `FineClock = TRUE => (Spec => []ReloadComplete)` | `ReloadComplete` is not inductive: a load under way must be known to hold a beginning of the file it started on, or to have an older time stamp. `LoaderInv` says for each place of the loader what it holds if the file's time has not moved; every write moves it |
| `PolicySyncProofs!NoForeignRuleCorrect` | `Spec => []NoForeignRule` | `ForeignInv`: file, snapshots, what the loader holds and the active rows are all within `authored`, up to `Torn` |
| `PolicySyncProofs!CsvMatchesAuthorityCorrect` | `OneAdministrator => (Spec => []CsvMatchesAuthority)` | `CsvInv`: the thread that moves is alone, so until something fails what it has read is still what the table holds, and at the write the file is empty. Without the hypothesis the run `policy_race` violates it |
| `PolicySyncProofs!EnforcedIsStoredCorrect` | `FineClock = TRUE /\ OneAdministrator => (Spec => []EnforcedIsStored)` | the two results above together: what BOS enforces, when neither side has anything to catch up with, is what the table holds; the safety half of `EnforcedMatchesAuthority` |
| `LibraryProofs!LockLastsCorrect` | `Spec => []LockLasts` | inductive with the types and with lock times not in the future |
| `LibraryProofs!GuessBoundCorrect` | `Spec => []GuessBound` | `GuessInv`: while a key is locked, its recent failures and the logins under way that may add one are bounded together, for no login begins on a locked key; when the lock has expired, every recent failure is younger than the lock and was counted; when the clean-up forgets a count, it was below the limit |
| `LibraryProofs!EveryFailureCountsCorrect` | `Spec => EveryFailureCounts` | failures of one instant are numbered in turn (`Numbered`), so the history of `GuessBound` misses none |
| `LibraryProofs!EncodeInjective`, `IdsTypeCorrect`, `AlwaysNewCorrect` | fields to numbers is one to one; `IdSpec => []TypeOK`; `IdSpec => AlwaysNew` | invariant: before the clock is set back, each generator's issued IDs lie at or before its last time, and at its last time at or below its sequence |
| `LibraryProofs!SegmentsMatched`, `ResourceMatched` | for all sequences `path` and `pattern`: `matchSegments(path, pattern) <=> Covers(path, pattern)`, and the same of `matchResource` | the set of positions from which the reference covers the rest (`Reference`) satisfies the equations of the recursion, because cutting goes segment by segment (`CoversFromStep`); the equations have one solution (`SolutionUnique`): of the positions where two solutions differ, take the last in the pattern, by the least-element theorem for numbers |
| `LibraryProofs!GlobReferenceCorrect`, `DecisionByRuleCorrect` | `RulesSpec => []GlobReference`, `RulesSpec => []DecisionByRule` | from `ResourceMatched`; the rules that are loaded have well-formed patterns (`RulesTypeCorrect`) |
| `OAuthCodeProofs!TypeCorrect` | `Spec => []TypeOK` | with what a request carries at each statement |
| `OAuthCodeProofs!SingleUseBoundCorrect` | `Spec => []SingleUseBound` | `CountInv`: pairs issued plus exchanges that can still issue are at most the holders plus the failed statements; a code marked used is found no more |
| `OAuthCodeProofs!SerialisedUsedOnce` | `Spec /\ []OneHolder => []UsedOnce` | while no two exchanges hold a code, `holders` is at most 1; then `SingleUseBound` |
| `OAuthCodeProofs!WithdrawnBoundCorrect` | `Spec => []WithdrawnBound` | `OwedInv`: the exchanges under way on what was withdrawn are at most what is owed |
| `OAuthCodeProofs!TokenMatchesGrantCorrect` | `Spec => []TokenMatchesGrant` | `GrantInv`: codes, requests in flight and tokens all agree with a consent; a code's row never changes but for `used` |
| `AccountsProofs!TypeCorrect` | `Spec => []TypeOK` | with what a request carries at each statement |
| `AccountsProofs!StaysOutCorrect` | `Spec => []StaysOut` | `OutInv`: no row about to be saved would make an account of `out` active |
| `AccountsProofs!WithdrawnRolesGoneCorrect` | `Spec => []WithdrawnRolesGone` | `MayInv`: not only the assignments, but also the roles that requests under way are about to assign, are within `may`; whoever replaces the roles of an account is left with what others were about to assign (`Pending`), and nothing else comes back |
| `AccountsProofs!AssignedRoleKeptCorrect` | `Spec => []AssignedRoleKept` | `RacedInv`: the assignments to a role that is about to be deleted are in `raced`, and a role about to be assigned once existed |
| `ApprovalFlowProofs!DecisionAttributedCorrect`, `AuditTruthfulCorrect` | `Spec => []DecisionAttributed`, `Spec => []AuditTruthful` | for accounts and API keys alike; strengthened by `InFlight`: the row a request is about to save is itself properly decided, counting the request's own action, and a request at its audit step has taken effect |
| `ApprovalFlowProofs!AuditCompleteCorrect` | `Spec => []AuditComplete` | `AuditInv`: in an undisturbed run what took effect is in the log or with a request at its audit step; a budget that was spent stays spent |
| `ApprovalFlowProofs!SerialisedDecisionsFinal` | `Spec /\ []Serialised => DecisionFinal` | `Fresh`: what a request is about to write is a legal move from what is stored by now; only a write of the same row could change that. Without the hypothesis the run `approval_race` violates it |
| `ApprovalFlowProofs!TypeCorrect`, `InvestmentCaseProofs!TypeCorrect` | `Spec => []TypeOK` | with what a request carries; the second for every `BodyFields` |
| `InvestmentCaseProofs!TripartySignCorrect` | `BodyFields \subseteq {"account_id"} => (Spec => []TripartySign)` | strengthened by `JobBacked`: every flag in a row in flight has been asked for, and a row in flight that deploys, or a position about to be opened, has all three |
| `InvestmentCaseProofs!DeployedHasPositionCorrect` | `BodyFields \subseteq {"signs"} => (Spec => []DeployedHasPosition)` | `PositionInv`: a request that is about to save a deployed row with an account has opened the position before, or its INSERT has failed; positions are never withdrawn. After any other failed statement the property still holds. A body that sets the status, or the account of a deployed case, would break it, hence the hypothesis |
| `OasConsoleProofs!AuditTellsCorrect` | `Spec => []AuditTells` | `AuditInv`: while nothing failed or crashed, what was executed and is not in the log is what some request at its audit statement holds |
| `OasConsoleProofs!SuccessorBoundCorrect` | `Spec => []SuccessorBound` | `KeysInv`: the successors of a key and the rotations that have found it active are, together, at most the requests served at once for each time it was enabled, and once more; an active key has not used up the last round |
| `OasConsoleProofs!SuspensionStaysCorrect` | `Spec => []SuspensionStays` | inductive by itself: however old the row a request has read, its statement writes no more than the columns it was ordered to, over the row as it is by then |
| `OasConsoleProofs!ConfigAcknowledgedCorrect` | `Spec => []ConfigAcknowledged` | `ConfigsInv`: a request about to create a key is the only one to do so, or the key is in `suspect`; what is saved is what is acknowledged |
| `OasConsoleProofs!NoOrphansCorrect` | `Spec => []NoOrphans` | `OrgsInv`: what is attached to an organisation that is deleted, or has been counted empty and is about to be, is in `late`; memberships and the requests about to insert one are counted together |
| `MbsProcessProofs!CacheInvHolds` | `CacheSpec => []CacheInv` | `CacheInv` bounds the age of a value at each place: held by a request that read the origin, in L2, held by one that hit L2, in L1; each is the age at the place before plus the ticks spent at it |
| `MbsProcessProofs!CacheRefinesBoundedLag`, `AnswersBoundedCorrect` | `CacheSpec => AnswersBounded`, `Spec => AnswersBounded` | every step of the cache is a change, a tick, an answer within the bound (by `CacheInv`) or a stutter of `BoundedLag` |
| `MbsProcessProofs!RowsInvHolds` | `Spec => []RowsInv` | the invariant of the rows in parts, each kept by every statement of every handler: `RowsBase` (what a request holds is a row of its table with its handler's stamp), `ChainInv`, `DatesInv`, `TrailInv`, `CodesInv`. What is proved of the handlers is proved of the catalogue once (`Catalogue`, `HandlerOfRight`) and then used by name |
| `MbsProcessProofs!ChainKeptCorrect` | `Spec => []ChainKept` | `ChainInv`: a request that holds an executing row, or is to make one, has seen the approval; `happened` only grows |
| `MbsProcessProofs!DatesMatchStatusCorrect` | `Spec => []DatesMatchStatus` | `DatesInv`: every row, stored or about to be saved, has the date of its status |
| `MbsProcessProofs!TrailFaithfulCorrect` | `Spec => []TrailFaithful` | `TrailInv`, while nothing failed: a record written first precedes the row that a request is about to save, one written after it is due as long as its request is at that statement |
| `MbsProcessProofs!GraduationRecordedCorrect` | `Spec => []GraduationRecorded` | `CodesInv`: row and record carry one code, or a request is between the two, or the project is in `disturbed` |
| `MbsProcessProofs!EventsAccountedCorrect` | `Spec => [](EventsAccounted /\ OnlyEmitted)` | `BusInv`: each step of the bus hands an event on; a handler cannot subscribe after an event was emitted, because no request is served before the last subscription (`ServedLater`). With it, `EventsReach` is left with nothing but that the goroutines run |
| `MbsProcessProofs!MarketInvHolds` | `Spec => []MarketInv` | by section: `AppsInv`, `UpsertInv`, `CounterInv`; the other sections stay as they began |
| `MbsProcessProofs!StoreTraceableCorrect` | `Spec => []StoreTraceable` | `AppsInv`: every application that is stored or held by a request is linked to a store that was opened for it, or to key 0, what is left in the row when the store's INSERT failed |
| `MbsProcessProofs!UpsertBoundCorrect` | `Spec => []UpsertBound` | `UpsertInv`: the live records of a key and the requests about to insert one are at most the workers |
| `MbsProcessProofs!CounterExactCorrect` | `Spec => []CounterExact` | `CounterInv`: until a listed accident, the counter and the requests still to raise it are as many as the live items and the requests still to lower it (on PostgreSQL: and the deleted items, for there it is never lowered) |

The assumptions are the named ASSUMEs of the modules (sizes, finiteness, disjointness, what
the whitelists contain), which TLC evaluates on each run, and the hypotheses in the table:
a clock fine enough for the file (`FineClock`), one administrator at a time
(`OneAdministrator`), and callers that leave the status, and the flags (`TripartySign`) or the account
(`DeployedHasPosition`), out of their bodies (`BodyFields`).  The code guarantees none of these three; without them the properties fail.

`Serialised` and `OneHolder` are hypotheses on a behaviour: they say what a lock of the row from
First to Save, or an UPDATE that is conditional on what was read, would guarantee.  The code has
neither; the theorems show that nothing else is missing.  That it is missed shows in the run
`approval_race`; of codes, `SingleUseBound` says how far overlapping exchanges can go.

The counting proofs share a form: what is bounded is counted together with the requests
that have passed the check and not yet written, because only the sum is
inductive.

Only model-checked are the liveness properties `WatcherCatchesUp`, `EnforcedMatchesAuthority` and `EventsReach`: fairness is
about ENABLED, which is outside the proof system.

The matcher is the one place where a proof is about a recursion over data of any length.  No
induction theorem is used for it, only the theorem that a set of numbers has a least element.

## 6. Not modelled

With status `not_modelled` in `PROJECT.json`, for good: the rendering of pages, read-only
queries, configuration, logging, cryptography (password hashes, JWT signatures), the BOS
proxies, which keep no state, and the archived AMS, which nothing starts any more.  Of the
gates, those that are one lookup and a refusal (`AdminRoleGate`, `OwnerGate`, `UsersAuthz`, `OrgsAuthz`,
`AuditLogsGate`, `RequireUsers`, `DomainFilter`): requests of the models have passed them.  The Kafka adapter has no
user.  `RemoveOrgMember` has no route.  `Login` of ams is left out: it stamps `last_login_at`
and issues a token.
Within the modelled parts: formatting of audit details, other columns of a row, the
contents of titles and notes, pagination, and the restart of OAS in the limiter (it forgets
all counters, the code keeps them in memory only).  The database is taken to execute
each statement atomically and durably.
