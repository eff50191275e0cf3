# Verification of the multi-tenant subscription platform

TLA+ models of the backend's concurrent protocols, of the decisions about who
may do and see what, and of the browser that drives them; TLC instances that
check the models, and theorems about them checked by TLAPS. Paths below are relative to
`src/backend/` unless they begin with `src/`; "ARCHITECTURE" is
`src/docs/architecture/ARCHITECTURE.md`.

## 1. The system

Seven NestJS services behind a gateway, a React single-page application, one
PostgreSQL database per data owner (`core_db` is shared by user-service and
subscription-service), Kafka for events, Redis for rate limits, the token
denylist and idempotency claims.

| Component | State it keeps | Operations | Talks to | Correct when |
|---|---|---|---|---|
| user-service (`apps/user-service/src/users`, `invitations`, `subscriptions`) | `users.users`, `users.invitations`, the seat columns of `subs.subscriptions` | invite, acceptInvitation, revokeInvitation, updateRole, removeUser | auth-service (HTTP), Kafka | `used_seats` stays in `0..max`, equals the holders; an invitation is used once; an admin remains |
| expiry sweep (`sweep`) | the same | hourly: mark expired invitations revoked, release their seats | the same rows and locks | every expired invitation is released |
| organization-provisioned consumer (`events`) | `users.users` | create the first admin | Kafka | the founder gets exactly one row |
| subscription-service | `subs.subscriptions`, `plans`, history | assignDefaultPlan, changePlan, storage reconciliation, missing-subscription alarm | Kafka, tenant-service | a plan never undercuts what is used |
| tenant-service (`onboarding`, `organizations`) | `organizations`, `onboarding_sagas` | signup, resume, markFailed | auth-service, subscription-service (HTTP), Redis, Kafka | the saga never loses or repeats a step; no orphan; retry completes |
| auth-service | `credentials`, `refresh_tokens` | createCredentials, login, refresh, logout | user-service (role lookup), Kafka | email unique; refresh tokens rotate once; reuse ends the session |
| resource-service | `resources`, `plan_limit_cache` | create, remove, update; consume plan changes | Kafka | stored bytes stay under the ceiling and equal the sum of the files |
| audit-service | `audit_events`, `security_events` (append-only) | sink of all topics, paged reads | Kafka | each event recorded once, tenants see only their own |
| api-gateway | Redis denylist, rate counters | authenticate, sign the internal context, throttle, proxy, logout | all services | a denied token is refused; limits count |
| `libs/kafka` | `consumed_events` per service | publish after commit; dedupe, retry, dead-letter | broker | at-least-once, effect once |
| `libs/database`, `libs/tenant-context` | `app.current_org` of a pooled connection, the async context | scoped and global transactions, signed internal headers | PostgreSQL policies | a statement sees the rows of the caller's organisation only |
| `libs/authorization` | none | CASL abilities | | the permission table |
| `src/frontend` | access token, one in-flight refresh | 401 retry, cursor pagination, signup form | gateway | one refresh for many 401s |

What makes it hard: row locks taken after unlocked reads; lock order that
differs on one path; remote calls between two transactions; effects that are
not idempotent under retry; events that are published after the commit and may
be lost, repeated or late; a per-connection setting that row-level security
depends on. The hazards are listed one by one, each at its line, in
`PROJECT.json`.

## 2. Modules

| # | Component | Modules | Proofs |
|---|---|---|---|
| 1 | the seat limit and the people of an organisation | `SeatLedger` (abstract), `Seats`, `SeatsProps`, `MCSeats` | `SeatsProofs` |
| 2 | the signup saga across three services | `OnboardingSaga` (abstract), `Onboarding`, `OnboardingProps`, `MCOnboarding` | `OnboardingProofs` |
| 3 | the event bus | `AtLeastOnce` (abstract), `KafkaConsumer`, `KafkaConsumerProps`, `MCKafkaConsumer` | `KafkaConsumerProofs` |
| 4 | the storage limit, on top of the event bus | `Storage` (extends `KafkaConsumer`), `StorageProps`, `MCStorage` | `StorageProofs`, `StorageUsageProofs` |
| 5 | the sessions: auth-service, gateway and browser together | `Sessions`, `SessionsProps`, `MCSessions` | `SessionsProofs` |
| 6 | who may do what, and which rows a statement sees | `Permissions`, `Access` (extends it), `AccessProps`, `MCAccess` | `AccessProofs` |
| 7 | paged lists: the keyset query and the page | `Paging`, `PagingProps`, `MCPaging` | `PagingProofs` |

A component's properties and its inductive invariant are in its `Props` module,
so that TLC can evaluate what the proofs use. Definitions named `Name_What` are
plausible mistakes in `Name` ("Mutant:"); each property comes with one that
breaks it, listed under "mutants" in `PROJECT.json`.

`Storage` composes two services with the bus between them; `Sessions` composes
a browser tab, the gateway and auth-service; `Access` composes the pages, the
gateway guards, the services' abilities, the connection pools and the policies
of the database. What would extend the project further: a second browser tab in
`Sessions`, `Seats` on top of the bus, and the rate counter.

## 3. Seats

`Seats` models the transactions of one organisation. Its rows are sets:
`created`, `expired`, `accepted`, `revoked` are the invitations with the
corresponding timestamp; `members`, `removed`, `admins` are the user rows with
their status and role, named by email (auth-service mints one id per email);
`used` and `max` are the two seat columns; `creds` are the emails known to
auth-service.

Each concurrent request is a worker with a place `pc`, its argument `arg`, what
it read under the lock (`seen`) and the ids a sweep selected (`ids`). Under READ
COMMITTED the points where another transaction can be noticed are the reads
that take no lock, the waits for row locks, and the commit. So a step is one
unlocked read, one lock acquisition (with the read it makes), or the rest of
the transaction with its commit; writes before the commit are invisible and
belong to it. Actions follow the handlers: `StartRevoke` (the unlocked
`findById`), `LockSub`, `RevokeCommit`; `StartAccept`, `AcceptPeek`,
`AcceptCredential` (the remote call), `AcceptLockInvitation`, `LockSub`,
`AcceptCommit`; and so on. `CheckAbort` is a transaction that a CHECK refuses,
`DeadlockAbort` PostgreSQL's 40P01, `Crash` a lost process or connection,
`AcceptCredentialLost` a remote call whose answer is lost.

`again` is auxiliary: it counts the seats that were given back for a row that
held none any more. Revocations, removals and sweeps give seats back by
`Release`, which says what the code does, decrement by the number of rows it was
asked about, and how many of these had lost their seat since they were read.

`RlsForced` says whether the tenant policy hides `subs.subscriptions` from the
query with which the sweep enumerates organisations. It is TRUE in the
repository, and no transaction of the sweep is ever begun: `seats_sweep_blind`
says what follows. `seats_all` alone sets it to FALSE, because the sweep's
transaction would not be part of the interleavings otherwise; it states nothing
about the enumeration, and its safety properties hold all the more when no sweep begins.
What is proved is proved for either value.

Bounds. Two handlers are enough for every race of two transactions, and each
takes up new requests without limit; one of them may die in the middle.
`seats_all` has two invitations to one address, so that an invitation may be
revoked, swept or accepted and the address invited again, and plans of one and
two seats, so that the ceiling and the floor bite; the runs with a
counterexample add a second person. TLC bounds nothing else: invitations are
finite, so the state space is.

| Run | Shows |
|---|---|
| `seats_all` | every operation against every other, revocations and removals among them: the counter is exact but for `again`, checked reads are never stale, one accepted invitation per person, `Seats` implements `SeatLedger`, and every request ends in spite of deadlocks |
| `seats_last_admin`, `seats_remove_race`, `seats_sweep_blind` | counterexamples to statements of the documentation, see section 11 |

`CanRun` distributes the operations over the handlers: in `seats_all` the first
has all, the second all but the plan and the roles, each of which needs no more
than to meet everything else.

What is exact. The counter is not simply the holders: the code gives a seat back
twice when a row that a release is about loses its seat between the unlocked
read and the lock. `SeatsExact` says that this is the only way the counter goes
wrong, in every interleaving: used = holders - the founder - `again`. It fails
as soon as an invite, an acceptance, a sweep or a rejected request moves the
counter by anything else. `SeatLedger` says the same of the steps: its drift grows
in a release and nowhere else. `NeverOversold`, what the documentation promises
of the same counter, is what `again > 0` breaks (`seats_remove_race`).

Fairness (`FairSpec`): row locks are granted in the order of the requests, so a
worker that is enabled again and again proceeds (strong fairness per worker);
the deadlock detector runs; the cron job is started again and again. Nothing is
assumed of callers, of the clock or of crash-prone workers.

Proved in `SeatsProofs`, for any finite sets of people and invitations and any
workers, plans and distribution of operations (`ASSUME`s of `Seats`, no other
condition): `SeatsTypeCorrect`, `BackstopNeverUsed`, `CounterExact`
(`SeatsExact`), `NoPhantomSeats`, `AcceptanceConsumesPending`,
`OnePersonOneInvitation` and `SeatsRefineLedger`, the refinement of
`SeatLedger`. They rest on the inductive invariant `SeatsInv`: `SeatsExact` needs
that what a worker read under the lock is still the row (`SubLocked`), that a worker about to accept holds its
invitation's lock and finds it pending (`InvLocked`), that a new id is fresh
(`FreshIds`) and that the founder is there before anybody calls
(`CallersExist`). The counting argument is a handful of cardinality lemmas
(`SameCount`, `TakeOut`): a release takes out of the holders exactly the rows it
does not add to `again`. `NoPhantomSeat` follows from `SeatsExact`, since `again` is
no less than zero. `OneInvitationPerPerson` rests on `PeopleInv`: an acceptance that has passed
auth-service knows its email to have a credential, and no other acceptance of
the address gets that far (`CredentialFirst`).

## 4. Onboarding

`Onboarding` models `OnboardingService.signup`: `saga` is the row of
`onboarding_sagas` per idempotency key, `org` the status per slug, `cred` the
credentials by email, `subs` the subscription rows, `inbox` and `users` the
event and the row of the first administrator; `unsent`, auxiliary, are the
events that never reached the topic. A request walks from `claim`
through `publish` to `respond`, the read for the answer (`onboarding.service.ts:110`),
which lies inside the `try` like the steps before it; `orgId` and `adminId` are the local variables it carries,
which is what matters when another request with the same key changes the row
under it. `FaultKinds` names what may go wrong: `error` (no effect), `lost` (a
remote effect without an answer), `late` (the transaction after a remote effect
fails), `crash`, `publish` (the broker refuses the event), `redis` (the claim
throws); `MaxFaults` bounds how often. `StepFails` is a step inside the `try` that throws, `MarkFailed` the
failure path with its transaction, `Escapes` what throws outside (the first
read, the insert, `markFailed` itself). After an answer the user may submit again.

| Run | Shows |
|---|---|
| `onboarding_overlap` | three signups contending for a name and an email, two at a time, two faults of any kind: state is earned, nothing orphaned, active means whole, a completed organisation is active or its saga says that it failed, and `Onboarding` implements `OnboardingSaga` |
| `onboarding_retry` | two overlapping requests with one form, failures before effects and lost events: retrying completes, and the administrator arrives unless the event was never published |
| `onboarding_lost` | counterexample: one lost answer and retrying never completes, see section 11 |

The overlap run gives each key one form, as a retry of "the same request" does
(two names under one key are in section 11). Two requests suffice for every race on one key
or one constraint, two faults for a failure during the recovery from another.
Fairness (`FairSpec`): requests proceed, the consumer reads its topic, and the
user resubmits until the saga is complete, which is what the answer asks for.

`CompleteOrFlagged` is what is left of "a completed organisation is active": the
code marks one `provisioning_failed` when an overlapping request fails late or
when the read for the answer throws. It never does so without `failed_at` in the saga,
and no later step wipes that out; both need that nobody
advances a completed saga. `RetryCompletes` is checked where a
remote call fails without effect; `AdminArrives` names the one reason, an
event in `unsent`, for which the first user may never appear.

Proved in `OnboardingProofs`, for any requests, forms and faults:

* whatever is submitted under a key: `OnboardingTypeCorrect` and
  `NothingEverDangles` (`NothingDangles`): sagas, credentials, subscriptions and
  first users refer to what exists, and no organisation gets two sagas. The
  invariant is `FootingInv`: what a request carries exists, and what it is
  about to record has an organisation and an administrator (`Backed`, `SagaBacked`);
* if a key is always submitted with the same form (`OneFormPerKey`):
  `StateAlwaysEarned`, `OnlyWholeOrgsEverActive`, `AdminAlwaysReal` and
  `CompleteOrFlaggedAlways`. The inductive invariant `SagaInv` adds what makes a
  stale local variable harmless: between a remote effect and its record a saga
  stands exactly where the request that caused the effect left it (`Knows`),
  only that request will record it (`SoleRecorder`, a consequence of the unique
  email and the unique subscription), and a saga is about the organisation and
  administrator of its form (`SagaOfForm`). `Advance` overwrites whatever state
  it finds; `SagaInv` is why it never moves a saga backwards.

`NoOrphans` and the refinement `SagaSpec` are model-checked only. They hold of
one form per key and say most about the case that this condition excludes,
where the code does create a second organisation; a theorem under it would
suggest more than the code gives. `NothingEverDangles` is what is proved of that case.

## 5. Event bus

`KafkaConsumer` models `EventPublisher` and `BaseKafkaConsumer`. `log` is what
the broker holds of each topic; a publish (`Publish`) either appends or is lost
(`lost`), because the publisher only logs a failure and there is no outbox. A
consumer group reads one topic. Its step is one await of `processMessage`: look the event
up in `consumed_events`, run the handler (`Handle`, a transaction of its own),
insert the marker (`Mark`, another), commit the offset; a failure of any of the
last three leads to `Retry`, which does not look the event up again, and after
`MaxRetries` to the dead-letter topic. A crash loses `phase`
and `attempt`; the group comes back at its committed offset or, if it
never committed one, at the end of the topic (`fromBeginning` is off; `origin` says where).
`UniqueEffect` are the groups whose handler inserts under `UNIQUE(event_id)`,
as audit-service's does: there a second application is a constraint violation
that the handler meets.

`delivery` checks a service and the audit sink on one topic with two events, two
retries instead of the three of the code, and two failures of any kind: a failure
and one more during its recovery is what the properties distinguish, and two
retries are enough for a failure within a retry that has a retry left. It checks
`NothingSkipped`, `ReplaysCostFaults` (each repetition of a handler is paid for
by a failure), `DedupeHolds` (a marked event is applied again only by the
retries of the very delivery that marked it), `EventSettles` and the refinement
of `AtLeastOnce`. Fairness (`FairBusSpec`): a group that can proceed does, which
is kafkajs's poll loop and the orchestrator's restart; failures and publishes are not
fair. The system may stop when all events are consumed, so deadlock is not
checked here (nor in `storage` and `sessions`, for the same reason, nor in
`seats_sweep_blind`).

Proved in `KafkaConsumerProofs` for any topics, groups, retries and faults:
`BusTypes`, `NeverSkips`, `ReplaysArePaid`, `Dedupes` and `KeepsPromise` (the
refinement). The inductive invariant `BusInv` adds what each place of
`processMessage` knows of the event it is at (`PlaceKnows`), that nothing beyond
the current event has been applied (`AheadUntouched`), that an event has one
place (`PublishedOnce`), and that a group about to handle an event has as many
failures behind it as applications (`HandlePaid`).

## 6. Storage

`Storage` extends `KafkaConsumer`: the handlers of its two groups do something.
subscription-service has the plan and the displayed usage (`plan`, `display`),
resource-service the enforced ceiling and usage in `plan_limit_cache`
(`ceiling`, `used`) and the files (`live`, `deleted`). Requests create under the
row lock, remove (reading the resource before the lock, as the code does), assign
and change plans, and publish after their COMMIT. `RefreshCeiling` is the upsert with
its `GREATEST`; `ReadUsage`, `WriteUsage` and `WriteUsageRefused` are the
reconciliation, which reads without a lock and writes an absolute value that a
CHECK may refuse.

`storage` runs a signup, a change of plan or a creation, a second creation and
two removals, with plans of 1 and 2 units (2 the default), files of 1 and 2, one retry and
one failure: a file fills the default plan exactly or half, does not fit the
smallest, and while one file stays another can be removed twice, so that the
ceiling, the clamp, a downgrade below the usage, the refused display write and
the double removal that succeeds all happen. The two removals are alike, which the symmetry
uses; no property of the run is a temporal one. `StorageExact`: whatever is late, repeated or lost, the counter is the
bytes stored less exactly what removals of one resource by two requests took off twice.
`UsageNeverBuried`: without failures a usage event is dead-lettered only if plans
were lowered under the handler more often than it retries. `DisplayConverges`:
the display meets the enforced usage when nothing was lost, lowered or reordered,
and (by the counterexamples that made each condition necessary) not otherwise.

Proved for any plans, sizes, requests, retries and faults. In `StorageProofs`: `StorageTypes`
(`used` stays in `0..ceiling`), `CreateDecides` (the CHECK is never reached by a
creation that fits), `CeilingSold` (the enforced ceiling was sold by somebody)
and `StorageUsesBus`: every step of `Storage` is a step of `KafkaConsumer`, so the
theorems of section 5 hold here. Invariant: `StorageInv`, which adds
`LockKnows` (what was read under the lock is still so) and `EventsOfChanges` (events about plans are
those of committed changes).

In `StorageUsageProofs`, the properties about bytes and history. A sum of
sizes is stated as the number of bytes, each a pair of its resource and its
position (`ByteSet`), so that the lemmas about cardinality do what an induction
over sums would.

* `StorageCountedExactly` (`StorageExact`), from `BytesInv`: the counter is what is stored
  less what was freed again (`UsedIsStored`), because a commit is of one request
  (`CommitsAre`), a resource is live until the first removal of it commits
  (`ResourcesAre`) and a removal frees what its resource takes (`RemovalsAre`).
  `NothingUnsold` follows: no more is stored than some plan ever sold and what was
  freed twice.
* `BuriedByLowerings` (`UsageNeverBuried`), from `AttemptsInv`: without failures the
  handler has failed at most once for each plan lowered, and a usage
  that was read under a plan since lowered has a failure to spare.
* `DisplayMeetsUsed` (`DisplayConverges`), from `DisplayInv`: as long as nothing was
  lost, lowered or reordered, the display is the usage after as many commits as
  events were read (`DisplayFollows`), each of which was within the plan
  (`WithinPlan`), and no event is delivered twice (`SeenInOrder`).

## 7. Sessions

`Sessions` models one user's refresh tokens, the denylist, and tabs. The server's
`refresh` is three steps without a lock between them (`FindToken`, `Rotate` after
the role lookup, or `RevokeFamily` for a revoked token). In the tab, all 401s
share one `refreshPromise` (`HandleUnauthorized`), a request is replayed once,
and giving up is a navigation (`Redirect`, then `Leave`) that other answers may get
ahead of. `SignOut` sends the refresh token of that moment in its body;
`LogoutDeny` and `LogoutRevoke` are the two halves of a logout.

`sessions` uses one tab, two requests at a time (two 401s together, or a request and a logout),
two refreshes under way, three tokens and one failure (a reload or a
lost answer). In ordinary use (no failure) a login has one live token
(`OneLivePerLogin`) and only a logout that races a refresh can raise the
theft alarm (`NoFalseAlarm`, which excepts it because the code does raise it,
section 11). `LoggedOutStaysOut` is stated of logouts that met nothing of their login under way.
`QueriesSettle` assumes that servers answer (weak fairness
of `CallStep` and `QueryStep`) and that a page told to navigate goes (`Leave`);
users do nothing they do not want to.

Proved in `SessionsProofs`, for any number of tabs, requests, refreshes under
way and tokens: `SessionsTyped`, `SingleUse` (`OneLivePerLogin`), `AlarmIsTrue`
(`NoFalseAlarm`) and `LogoutIsFinal` (`LoggedOutStaysOut`). One live token a login is
not inductive: a late answer, a logout with an old token or a second refresh might make
another. The invariant `SessionsInv` (`InvHolds`) says where tokens can be. What
is handed out was minted (`MintedFirst`); a tab has one refresh under way, made with the
token it still has or has given up (`OnePromise`); all a tab has is of one login and
no other tab has anything of it (`OneFamily`), which is sessionStorage being the tab's
own; a login that ended has nothing live, stored or under way (`EndedIsOver`).
`Orderly` adds that in ordinary use whoever may use a token next (the refresh
under way, or else the tab) has the only one of its login that can be live, and
`Innocent` that it is live while nobody has signed out. `QueriesSettle` is
model-checked only.

## 8. Access

`Permissions` has three tables: which gateway guard and which abilities each operation
needs, what the abilities of each role are (CASL: the last matching rule wins), and what each page
loads and each button calls (`Offered`, per role, and for visitors). `Access` sends requests
through them: a call takes a connection of its service's pool, sets
`app.current_org` as `TenantAwareDataSource` does (`Scope`), finds the rows the
policies let through (`Found`), and gives the connection back with the setting
that COMMIT or ROLLBACK leaves, the empty string rather than none. The SECURITY
DEFINER lookups read across organisations, as the migrations define them. An operation that found
nothing probes whether the id is another tenant's.

`access` has four people (an admin and a member, a member of another organisation,
a platform admin), one resource in each organisation, and one connection a
service so that requests must share it. The first request asks for anything, as anybody or nobody;
the second removes resources meanwhile. Requests begin again without limit. `SeesExactlyOwn` compares
what a statement finds with what its caller is owed: nothing of another tenant,
and nothing missing. `ForeignLooksMissing`: an id of another organisation is
answered as a missing one is, and only the alarm tells them apart.
`OfferedIsPermitted` compares the three tables with each other; its exceptions
are the two offers section 11 lists.

Proved in `AccessProofs`, for any people, organisations, resources and
connections: `AccessTypes`, `TenantIsolation` (`SeesExactlyOwn`),
`NoExistenceOracle` (`ForeignLooksMissing`) and `PagesKeepToPermissions`
(`OfferedIsPermitted`). The invariant `AccessInv` says that
a free connection carries no organisation (`FreeIsClean`), one in use its
user's (`HeldIsScoped`), and that a request has one (`OneEach`); for the oracle,
`ForeignKept` follows a request for a foreign id along the only way it can go. For
the tables, lemmas evaluate the rules of each role for what its pages ask
(`AdminAdmitted`, `MemberAdmitted`, `PlatformAdmitted`), and `Travels` says that
what a request still asks for belongs to its operation, so that no service sees
a call no page offered. `OfferedIsPermitted` is about every answer a request
ever gets, not only about the tables: a refusal in the middle of a transaction counts, too.

## 9. Paging

`Paging` models the keyset query of resource-service (`ListPage`: one row more than
fits, ordered by value and id descending, the cursor with its milliseconds) and
the page: the stack of cursors, the cache of answers with
`keepPreviousData` and invalidation, the filter chips. Staleness is a
choice: a cached answer may or may not be old enough to be fetched again.
`trail` and the `present` of an answer are kept for the properties only. The
other lists are the same with fewer filters.

`paging` has three files, two in one millisecond and two of one size, pages of
one row, two orders (`all`, `largest`) and two changes by this user or others.
One row a page makes every boundary a cursor; two of the three files are there
at first, so that one can come before, between or after pages. `NothingTwice`
and `NothingMissed` are about the walk from the first page to the one on the
screen. Both need that Next is off while a page is fetched and that a chip
resets the stack. The second excepts files of the millisecond of a cursor, which
the code does skip.

Proved in `PagingProofs`, for any files, sizes, times, page size and number of
changes: `ShownOnce` (`NothingTwice`) and `ShownAll` (`NothingMissed`). The
invariant `PagingInv` (`PagingHolds`) ties the walk together: an answer in the
cache or on the screen was read by its own key (`Answers`, `Shown`), each page
of the walk gave the cursor of the next (`Trodden`), later cursors are further
on (`Descending`), and up to each cursor a file that was there all along was
shown or is still ahead (`Covered`). `PageFrom` is the query over any set of
rows, `ListPage` over those of the moment. A finite set has a last row by
`FiniteSetTheorems`; the assumption that `None` is no cursor is the null of `nextCursor`.

## 10. What is proved, what is only checked, what is not modelled

Proved for every value of the constants: the theorems under "theorems" in
`PROJECT.json`, from the named `ASSUME`s of the modules alone. Only the four about
the saga's states take a further condition, `OneFormPerKey` (section 4). Every
invariant and every action property of the passing runs, and every refinement,
is stated by a theorem but for `NoOrphans` and `SagaSpec` (section 4).
Each inductive invariant is defined in a `Props` module and was checked by TLC on the
component's instance before it was proved; listing it under INVARIANTS of the
component's .cfg repeats that.

Only model-checked: `NoOrphans` and `SagaSpec`; liveness (`EveryRequestEnds`,
`RetryCompletes`, `AdminArrives`, `EventSettles`, `QueriesSettle`) and the
absence of deadlock, which are out of the prover's reach.

Hazards without a property, or whose property is about the rest, say why at
their entry in `PROJECT.json`: where the code goes wrong every time, a property
can only say what else could not (section 11 lists these).

Not modelled: throttling (one counter, four Redis commands; its hazard is
listed); the alarm for organisations without a subscription (it logs); the shape
of DTOs, validation, rendering and module wiring; severity, filters and the
projection of metadata in the audit lists; hashing and tokens as bits; clocks (an
expiry is an event that may happen at any time); HTTP status codes beyond those
the callers tell apart. A topic has one partition, as the broker of
docker-compose creates it. The component list of `PROJECT.json` gives the state
of each part.

## 11. Where code and documentation disagree

Four are runs that TLC ends with a counterexample; the quotations are in `PROJECT.json`.

* `seats_remove_race`: revokeInvitation reads the invitation, and removeUser the
  user, before the lock and does not check again. A seat is given back twice
  (the counterexample revokes an invitation that is accepted meanwhile; two removals of one user do
  the same), after which one more person than the plan sells is admitted.
* `seats_last_admin`: two requests that each remove or demote an admin both count
  two admins, and none is left.
* `seats_sweep_blind`: the sweep's enumeration runs unscoped against a table
  with a forced tenant policy and finds nothing.
* `onboarding_lost`: the answer of auth-service is lost, the email is taken from
  then on, and retrying, which the answer asks for, fails for ever.

Seen while modelling and visible in the modules, without a run of their own.

Seats and onboarding:

* an acceptance interrupted after `createCredentials` can never be repeated (the
  unique email refuses it), while `users.service.ts:153-158` calls the window a
  race of less than a second;
* the founder's seat is not counted (`FounderSeat`);
* two concurrent submissions with one key and two names create two
  organisations, of which the saga keeps the second (`onboarding-saga.entity.ts:21-24`);
* a completed organisation is shown as `provisioning_failed` after the late failure of an
  overlapping submission (`onboarding.service.ts:228`) or of the read for the
  answer (`:110`), and a retry only answers; an assignment of the plan that took effect without
  being recorded (`:183`) is in the way of every retry as a credential is;
  `SlugTaken` does not ask whose the slug is;
* the organisation stays `provisioning_failed` from a failed step until COMPLETE
  although the saga's `failed_at` is cleared by the next success;
* a publish that fails leaves a completed organisation without its first user;
  signup fails when Redis is down (`Claim`), where the documentation says the
  database is the fallback.

Events and storage:

* the dedupe does not mean that a handler "never runs twice for the same event"
  (`organization-provisioned.consumer.ts:34-36`): a failed marker or offset
  commit runs it again (`ReplaysCostFaults` bounds how often);
* the header of audit-service's migration 0002 says that every consumer of the
  service shares one group; `base-consumer.ts:44-57` gives each topic its own;
* the displayed usage never recovers from a lost or repeated event, where
  `storage-reconciliation.consumer.ts:24-28` says eventually consistent; a ceiling clamped to the usage stays there when the usage
  falls, since nothing applies the plan again (`plan-limit-cache.repository.ts:85-96`
  speaks of a window);
* two removals of one file both subtract its size when something else is stored
  (`resources.service.ts:194`), after which more is stored than the plan sells with the lock and the
  CHECK at work, where the migration `1700000000001-CreateResourcesAndPlanLimitCache.ts:89-92`
  says both must fail for that;
* the INCR and PEXPIRE of the throttler are two commands.

Sessions:

* a logout whose access token has expired is refreshed first and then replayed
  with the old refresh token in its body: the new one stays live (ARCHITECTURE:363);
* a refresh answer that arrives after sign-out or after the redirect stores
  tokens again;
* a replayed request that answers any error, a 404 or 409 included, falls into
  the `catch` of the refresh and redirects to the login (`src/frontend/src/services/api.ts:104-115`
  against the comment at 131-134);
* a logout that races a refresh raises `refresh_token_reuse` and revokes every
  session of the user; a reload during a refresh gives two live successors or the
  same alarm; a refresh does not ask for the credential's status;
* the role cached in the browser is not updated by a refresh.

Access:

* a platform admin's audit and security lists see only rows without an
  organisation, so a cross-tenant attempt, recorded under its actor's
  organisation, never appears in `GET /audit/security`, which
  `audit.service.ts:72-79` describes as "cross-tenant attempts across all orgs";
* `resource_exists` counts deleted resources, so reading one's own deleted
  resource is reported as an attempt on "some other organisation" (`resources.service.ts:236`);
* members are offered the deletion of any resource and the audit page; both are
  answered 403 (the exceptions of `OfferedIsPermitted`);
* the table of ARCHITECTURE:871-908 lets a member read no user but itself and a
  platform admin only security events; the code lets members read the whole
  organisation's users and the platform admin both lists;
* the gateway has four public routes (refresh is the fourth, `auth.controller.ts:47-69`)
  where `gateway-routing.spec.ts:235` says exactly three;
* `/internal/usage/aggregate` has no check in the service, only the signed
  context; `subscriptions.current` by a platform admin asks for `organizationId:
  null`, which the ORM drops, and the policy alone keeps it from a tenant's row.

Paging:

* rows created in the same millisecond as the last row of a page, but after it in the
  order, are skipped (`Blurred`);
* deleting the last row of a later page leaves an empty page without a Previous
  button (`DataTable.tsx:71`), and the resources page does not reset its cursors
  after a deletion, which `useCursorPagination.ts` promises for any mutation.
