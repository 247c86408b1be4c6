# Nexustal: models, checks and proofs

Nexustal is an API-collaboration server: a C++20 engine on the drogon framework, PostgreSQL
behind it, Redis beside it. This directory holds TLA+ modules of the engine's own logic
(`src/backend`), the TLC configurations that check them, and TLAPS proofs
about every component that keeps state.
The user interface (`src/frontend`, `src/desktop`), packaging and third-party code are not
modelled.

- [1. The system](#1-the-system)
- [2. The modules, and what of the code they stand for](#2-the-modules-and-what-of-the-code-they-stand-for)
- [3. The runs](#3-the-runs)
- [4. What the runs show of the code](#4-what-the-runs-show-of-the-code)
- [5. The proofs](#5-the-proofs)
- [6. What is not modelled, and why](#6-what-is-not-modelled-and-why)
- [7. Plan](#7-plan)

## 1. The system

### 1.1 How it runs

`main.cpp` reads the environment, creates one PostgreSQL pool with **one** connection
(`main.cpp:62`), tries to create one Redis client (a failure leaves the cache null), runs the
migrations, builds the services and starts drogon with its default of one IO thread. Three facts
of this wiring matter below and are constants of the modules:

- one handler thread by default: `Workers` with one member. Handlers are synchronous from their
  first statement to their answer, so with one thread they do not interleave. More members stand
  for a configured thread count, or for several engines on the same database and Redis;
- one Redis connection, which executes commands in the order they were sent;
- a pool of one PostgreSQL connection: the migration runner's `BEGIN` ... `COMMIT`, which are
  statements of their own, belong together only because of it, while `update` of an endpoint
  needs two (section 4).

### 1.2 Inventory

| Part | State | Operations | Talks to | Hard | Correct when |
|---|---|---|---|---|---|
| Session (`auth_service`, `jwt_token_service`, `jwt_auth_filter`, `postgres_user_repository`) | `users.token_version`, `user_token_version:<id>` and `user_role:<id>` in Redis, the commands on the Redis connection | login, validation of a token, role resolution, logout | PostgreSQL by synchronous statements; Redis by fire-and-forget SETEX and DEL and a GET that waits | a copy written from a row read earlier; a DEL that is lost or overtaken; statements that fail in the middle of a logout; TTLs; restarts | a token whose version was replaced is refused; a handler is told the role of its user |
| Invitations and membership (`invitation_service`, its repository, `team`, `project` repositories) | rows of `invitations`, `team_members` | send, accept, reject | statements each in a transaction of its own; notifications | two answers to one invitation; a failure between status and membership | accepted means member; an answer is final; no membership without an invitation |
| Roles (`role_service`, `capabilities.hpp`) | `project_role:<project>:<user>` in Redis | getProjectRole, hasCapability | PostgreSQL, Redis | a cached role that is never invalidated; a role read before and stored after a change | decisions by a role the user has or had here; stale copies go |
| Endpoint catalog (`endpoint_service`, controller, repository) | `endpoints` and one table per protocol type | create, update, publish, delete | a pool of connections, transactions, row locks | a lookup outside the transaction; updates of type against updates and deletions; connections that wait for connections | details follow the type, never outlive the endpoint; every update is answered |
| Migration runner | `schema_migrations`, the schema | run at boot | PostgreSQL | engines that boot together; failure or stop between the file and its row; a COMMIT without an answer | each file once, in order, with its row; up means migrated |
| Notifications (`redis_notification_service`, `sse_connection_manager`, `sse_controller`) | the streams of each user under a mutex; the subscription | sendNotification, delivery, opening and closing of streams | Redis PUBLISH/PSUBSCRIBE; the subscriber's thread calls into the table | a thread that delivers while streams open and close; lost messages | own notifications, in order, once; streams do not disturb each other; closed streams go |
| Setup wizard (`wizard_service`) | three members of a process, the table of users | status, configureDatabase, createAdmin, registerCompany | two statements in createAdmin | two requests at once; failed lookups; lost answers; restarts | an administrator is there when the wizard says so, created once |
| Environments (`environment_cache`, its repository) | rows of `environments`, `environment:<id>` in Redis, the commands on the connection | get, set, invalidate, resolveVariables, create, update, remove | PostgreSQL, Redis | a copy put into Redis after a write or an invalidation overtook it; lost commands | what is served was in the row; no stale copy stays; later sources win |
| Request executor (`request_executor`, `dynamic_variables`) | none between calls | execute | environment cache, QuickJS, a transport | substitution in place, in the order of the keys, of values that hold references | it ends; what it leaves can be explained |
| QuickJS sandbox and nt bindings (`quickjs_sandbox`, `nt_api_bindings`) | an interpreter per script with its globals, the arrays that closures hold, a clock | execute, injectVariable, registerFunction, nt.test, nt.response, nt.environment | executor | globals that are set anew under closures; one clock for bindings and scripts | a test judges its own response; a script ends, and not before its time; results are reported |
| Bootstrap (`main.cpp`) | the process | migrate, construct, listen | all of the above | other engines on the same database; a process that dies with its memory | nothing is served on an unmigrated schema |
| Identity use cases | none | header-only interactors, which nothing but tests constructs | - | - | - |

The full list of what can go wrong, each at its line, is `hazards` in `PROJECT.json`.

## 2. The modules, and what of the code they stand for

| Module | Stands for | Proofs |
|---|---|---|
| `TokenSession` | the session, from the first statement of a login or a request to its answer | `TokenSessionProofs` |
| `TokenAuthority` | what the session promises: a session without a cache; `TokenSession` with one worker is proved to implement it | `TokenSessionProofs` |
| `Capabilities` | `capabilities.hpp`; used by the next two | |
| `Membership` | invitations, membership, roles and their cache | `MembershipProofs` |
| `EndpointStore` | the catalog down to connections, transactions and row locks | `EndpointStoreProofs` |
| `Notifications` | from sendNotification to a stream | `NotificationsProofs` |
| `InvitationNotices` | `Membership` and `Notifications` composed | `MembershipProofs` |
| `MigrationRunner` | the bootstrap of the schema by several engines | `BootstrapProofs` |
| `SchemaHistory` | what migrations promise; `MigrationRunner` is proved to implement it | `BootstrapProofs` |
| `SetupWizard` | the wizard and the table it writes to | `BootstrapProofs` |
| `Bootstrap` | `main`: `MigrationRunner` and, in an engine that is up, `SetupWizard` | `BootstrapProofs` |
| `EnvironmentCache` | the rows of environments and their cache | `ScriptExecutionProofs` |
| `EnvironmentHistory` | what the cache promises; `EnvironmentCache` is proved to implement it | `ScriptExecutionProofs` |
| `RequestExecution` | `RequestExecutor::execute`: sources, substitution | `RequestExecutionProofs` |
| `ScriptSandbox` | `runScript`, the sandbox and its bindings | `ScriptExecutionProofs` |
| `ScriptExecution` | `EnvironmentCache` and `ScriptSandbox` composed | `ScriptExecutionProofs` |
| `DataLemmas` | no code: lemmas on natural numbers, rows and texts that the proofs about lists and substitution share | itself |
| `MC...` | instances for TLC: assignments of functions to constants | |

In all of them an action is what happens between two accesses to something another process or
thread may change: a SQL statement, a Redis command, a section under the mutex. `pc[w]` is where
worker `w` is in its handler. `DbFails` lets any statement fail, `AnswersLost` lets a write take
effect although its caller is told that it failed (where that makes a difference to what the
caller does next: the migrations' COMMIT and the wizard's INSERT may always do so), `Restarts`
lets the engine stop at any point and start again with empty memory; what is in the database
stays.

Definitions whose comment starts with "Mutant" are no part of the model: each is a plausible
mistake in the operation that follows it, kept to show that a property notices it.

**TokenSession.** `version` is the column; a token is a user and a version, and a member of
`tokens` is one whose signature verifies and which has not expired. `queue` is the Redis
connection: `Send` appends, the `Exec...` actions execute the oldest command, a GET's answer is
what its worker continues with. Versions are numbers where the code generates UUIDs; each
generated one is new (`generated`). Expiry of keys and tokens are actions, so a TTL may be
over at any time. `rotated` is history: the tokens whose logout replaced the version. `UpdateRow`
has three outcomes: the version is replaced and the DEL follows, nothing happened, or the version
is replaced and the answer is lost (`AnswersLost`), after which `rotateVersion` returns without
the DEL.

**TokenAuthority.** The same session with the user's row alone: a token is issued with the current
version, presented, accepted if and only if its version is current then, and a logout with an
accepted token puts a version in the row that was never there. A handler's steps between two of
these are invisible, and so is Redis. `RequestOf` in `TokenSession` is what a client could say of
the request a worker is handling.

**Membership.** The id of an invitation is its position. `FindPending`, `UpdateStatus`, `AddMember`
and `Notify` are accept and reject; `GetProjectRole`, `FindRoleForUser`, `StoreRole` and `Decide`
are a capability check. `Responders` are the threads that answer invitations: a bound of the
instances, and what the proofs assume a single one of. `SchemaRole` is the CHECK constraint,
`UserRole` the code's enumeration: they share three of their roles. `held` is history. GET and
SETEX of a role are one step each, without the order of commands that `TokenSession` has: a SETEX
may be lost, and that is all the difference it makes to a key that nothing deletes.

**EndpointStore.** `inUse` counts the connections transactions keep; a plain statement needs one
that is free at that moment. `lock` is the row lock an UPDATE takes; `Rewrite` is the rest of the
transaction with its commit or rollback, which is one step because nobody else can see or disturb
it while the row is locked. A foreign key and the primary key of a details table may refuse the
insert, which rolls back. `Content` stands for all fields of details; `Default` is what a
default-constructed struct holds. `disturbed` and `overtaken` are history: workers whose endpoint
was changed by another since they read it, and endpoints written by such a worker.

**Notifications.** A notification is its user and a number. Publishing, the subscriber's
connection, and each section under the mutex are steps. `connections` counts a stream's entries
in its user's vector; `Dispatch` sends once for each entry of the user's streams, in one step
because the mutex is held throughout. A stream closes only after `addConnection` ran to its end:
both run on the stream's own loop. `owed` and `lost` are history.

**InvitationNotices.** `SendAndTell` and `TellInviter` are the handlers' last steps with the
`sendNotification` they call; Redis, the subscriber's thread and the streams run beside the
handlers. `notices` says what the notifications are about. A stop ends both halves. Checks of
roles take no part and are left out.

**MigrationRunner.** A transaction is what `ran` and `rows` hold until `Publish`. A file is the
place of its name among all names by their bytes. `Rank` is the order in which the database's
collation puts the names, which the code relies on being the order of their bytes: `binary_search`
runs over a list the database sorted. All the model assumes of it is that no two names are equal
(PostgreSQL compares by bytes those that a collation takes for equal). Names in the repository are
digits, underscores and lower-case letters, so `Rank` is the identity in the run, the order of the
stems, by which `discover` sorts, is that of the file names, and releases are prefixes of one
another, as they are when files are only added at the end. `Sorted` is what either sort returns;
`LowerBound` is the loop of `std::lower_bound`, a table of what it returns for every rest of the
list. The primary key of `schema_migrations` makes an insert wait for, and then yield to, another
transaction's.

**SetupWizard.** Two statements of `createAdmin`, with failures that are read as a free name
(`FindByUsername`) and INSERTs that take effect although their answer is lost.

**Bootstrap.** `Serve` is a step of the wizard in the engine `Server`, which has to be up;
`Migrate` a step of any engine's boot; `Stop` ends an engine, and with `Server` its wizard.

**EnvironmentCache.** `commands` is the Redis connection, as in `TokenSession`. `Get`,
`AnswerFromRedis`, `FindById`, `Put` and `Return` are `get` with the `set` it calls; a failed
command or statement reads as a miss and as no environment. `Create`, `Update`, `RemoveRow` are
the repository's writers, one statement each, none of which touches the cache; `Invalidate` is the
cache's own operation, at any time. `Values` stands for the name and variables of an environment.

**RequestExecution.** A text is a sequence of pieces: references `{{key}}`, dynamic tokens
`{{$guid}}`, literals. Keys are numbered in the order `nlohmann::json` iterates. `Replace` is one
turn of the inner loop: the next occurrence at or behind `pos`, replaced in place, and the position moved behind
the replacement. One field stands for all of an endpoint, as they are substituted alike and apart.
`written` is history: the text each variable was last given by a script. A script may set the same
variable again; runs bound the calls by `MaxSets`, proofs do not.
Not modelled: the JSON form of values that are no strings, and tokens that only come into being
when the end of one value meets the beginning of other text.

**ScriptSandbox.** Arrays of the interpreter are numbered as they are created; `global` is the one
that `globalThis.__nt_tests` refers to and `closure` the one that `testResults` of the bindings
does. Every `execute` runs `InjectTests`. `clock` is what `interruptHandler` measures, `age` the
time the script has really had. A test asserts one status. One variable stands for all: they are
set and read apart.

**ScriptExecution.** `Resolve` begins an execution with what `get` answered to the thread
`Executor`, or without an environment. Other readers, the writers and Redis go on while scripts
run. `past` is history.

## 3. The runs

| Run | Instance | Checks |
|---|---|---|
| `session_serial` | 2 users (one administrator), 1 worker, 3 versions, nothing fails and no answer is lost | `VerdictIsCurrent`, `RotatedNeverAccepted`, `RoleIsExact`; `RowDecides`, the refinement of `TokenAuthority` |
| `session_two_workers` | 1 user, 2 workers, Redis, statements and engine fail, answers are lost | `CopyBecomesCurrent` under fairness |
| `membership_serial` | 2 users, 1 project, 3 offered roles, 2 invitations, 2 workers of which 1 answers invitations, failures, lost answers and restarts | `MembershipIsInvited`, `DecidedByOwnRole`, `AnsweredOnce`; `RoleBecomesCurrent` under fairness |
| `membership_accept_failure` | 2 teams, failures, 1 worker | `AcceptedIsMember`: **violated** |
| `invitation_notices` | 1 invitation, 2 workers that answer, 1 stream of the inviter, failures, lost answers and restarts | `ToldMeansMember`; `InviterIsTold` under fairness |
| `endpoint_store` | 2 types, 2 workers, pool of 3, failures and restarts | `OnlyOwnTypeHasDetails`, `OwnTypeHasDetails`, `DetailsHaveEndpoint`, `LookupFindsConnection`, `PublishKeepsDetails`; `UpdateAnswered` under fairness |
| `endpoint_pool_of_one` | 1 worker, the pool of one of `main.cpp` | `UpdateAnswered`: **violated** |
| `bootstrap` | 3 files, two engines of different releases, 2 names, 2 requests of the wizard, failures and restarts | `TypeOK`, `UpMeansMigrated`, `ListedIsSkipped`, `AdminIsThere`, `CreatedOnce`, `NeverGoesBack`, `StoredInSchema`; `KeepsHistory`, the refinement of `SchemaHistory` |
| `notifications` | 2 streams, 2 users, 3 notifications, losses and restarts | `OwnInOrder`, `NoGaps`; `OpenStreamIsTold`, `ClosedLeaves` under fairness |
| `request_execution` | 2 keys with every assignment of 4 values in project and environment, overrides, two calls of a script | `LeftoverExplained`, `DynamicExplained`, `FlatIsSimultaneous`, `Precedence`; `ExecutionEnds` |
| `script_execution` | 2 environments, 2 readers, 2 writes, one test, a time limit of one tick, failures and restarts | `ScriptSeesOwnResponse`, `InterruptedOnlyLate`, `ScriptReadsItsEnvironment`; `ServesHistory`, the refinement of `EnvironmentHistory`; `CopyBecomesCurrent`, `ScriptEnds` under fairness |
| `script_tests_lost` | one environment, nothing fails | `TestsReported`: **violated** |

### 3.1 Bounds, and why they are enough

- `MaxVersion` 3: two logouts, so a replaced version can be older than the one before the current;
  what can go wrong with a stale copy needs one replaced version and one copy of it.
  `MaxQueue` 2 bounds the commands left over when a request starts, not those of a request; the
  proofs have no such bound. Two users make a command of one user meet a command of another.
- Two invitations to one user: a second acceptance replaces a role while a check is between its
  lookup and its SETEX. One thread answers invitations, for with two an accept and a reject
  overwrite each other (section 4). That the roles of another project or team never decide is
  proved for any number of them.
- One endpoint of two types: an update finds details of another type than the one it read. Two
  workers are enough for a lookup to be stale when its result is used; every operation in the
  model concerns one endpoint, and endpoints share nothing but the pool. A pool of three leaves
  one connection when both workers keep one. The proofs have none of these bounds.
- Three files and an engine that lacks the last: a search over a list of every length up to three;
  the engines can be at any two points of the bootstrap. Two names and two requests: for one name
  or for two.
- Two streams and three notifications: a gap needs a notification before and after it. In
  `invitation_notices` `MaxPublished` 4 is more than the handlers can send.
- Two keys: a value may refer to itself, to an earlier and to a later key; that any number of keys
  behave the same is proved. Two calls of a script: it sets both variables, or one of them twice,
  so that the last one has to win; any number of calls is in the proof.
- Two environments and two readers with one content: a copy can be of another environment or be
  overtaken by a removal, which is the strongest change. `MaxQueue` 1 lets a SETEX wait while the
  row changes; the proofs have no such bound.

### 3.2 Fairness

- `TokenSession`, `Membership`: weak fairness of every step of a started handler and of Redis, and
  of the end of a TTL. A synchronous handler runs on once its statement is answered, and Redis
  removes a key whose TTL is over. Nothing forces clients to send requests, the engine to restart
  or a command to fail. An UPDATE of the row that the bound `MaxVersion` disables is never started.
- `EndpointStore`: strong fairness of a handler's steps. A step may wait for a connection, which
  others take and give back, or for a row lock; the pool and PostgreSQL serve those who wait in
  the order they came.
- `Notifications`, `InvitationNotices`: Redis serves, the subscriber's thread delivers, the client
  subscribes again after a connection dropped, a stream's own callbacks and started handlers run.
  Weak fairness: none of these, once enabled, is disabled but by a step that disposes of the
  message.
- `RequestExecution`: one thread that goes on; the sandbox interrupts scripts after their time limit, so
  a script ends.
- `ScriptExecution`: readers go on, Redis serves, copies expire; time passes, and the interpreter
  asks its interrupt handler. A script itself need never take a step of its own: it may loop.

Deadlock is checked wherever the system does not stop: `request_execution` stops when a request is
executed, `endpoint_pool_of_one` when the only handler waits for ever.

## 4. What the runs show of the code

Three runs find a disagreement between the code and what the repository says of it.

- **A pool of one connection never answers an update** (`endpoint_pool_of_one`).
  `PostgresEndpointRepository::update` opens a transaction, which keeps a connection, and looks the
  endpoint up through the pool. With `main.cpp`'s pool of one it waits for itself. With more
  connections than workers (`endpoint_store`) every update is answered. What decides is proved for
  every pool: a lookup fails to find a connection only where transactions keep all of them
  (`LookupCorrect`), where as many updates as connections wait for their lookup nothing but a
  restart helps (`StarvedForever`), and on a pool of one that is every update
  (`PoolOfOneNeverUpdates`). Note that simply
  enlarging the pool would break the migration runner, whose `BEGIN`, statements and `COMMIT` may
  then go to different connections.
- **An invitation can be accepted without a membership** (`membership_accept_failure`): the status
  and the membership are two statements without a transaction.
- **No execution reports the results of its tests** (`script_tests_lost`). `installNtApi` runs the
  bindings, whose closure keeps the array that `__nt_tests` is at that moment; the `execute` of the
  test script injects `__nt_tests` again, so the array that the script returns is a new, empty one.
  The repository's own test of this, `request_executor_tests.cpp:160`, returns early in a build
  without QuickJS.

The configurations also tell where a promise ends:

- If the lookup or the UPDATE of a logout fails the route answers success and the token stays
  valid; if the DEL is lost it stays valid until the copy expires, for up to 3600 s. So it does if
  the UPDATE takes effect but its answer is lost: `update` returns false and `rotateVersion` does
  not get to the DEL. `RotatedNeverAccepted` and
  `VerdictIsCurrent` need one worker, no restart, no lost command and no such answer: with two workers, a version read before a logout
  may be cached after it. What remains then is `CopyBecomesCurrent`: no request renews a stale
  copy, so it goes with its TTL.
- `OnlyOwnTypeHasDetails` and `PublishKeepsDetails` exempt what another worker has changed since
  it was read: two updates that change the type leave details of a third behind, and a publication
  writes back what it read.
- `AnsweredOnce` and `MembershipIsInvited` need a single thread that answers
  invitations: an accept and a reject that both found the invitation pending both go through.
  `ToldMeansMember` does not: who reads of an acceptance was right at the time.
  `AcceptedIsMember` needs moreover that nothing fails, that no answer of the UPDATE of an invitation
  is lost (accept then stops before the membership, although the invitation is accepted) and that
  the engine does not stop: where that is so it is proved (`AcceptanceCorrect`).
- Several engines that boot on an empty database do not get in each other's way
  (`KeepsHistory`), but those that lose the race for a row stop, and nothing in the compose files
  starts them again.
- The schema knows the role `owner`, the code `admin`, and the one is refused where the other is
  written: deletion of endpoints is out of every member's reach.
- Creation and update of an endpoint store the status that the payload names while asking for
  EditEndpoints only. No property is stated about it.
- An environment that was changed or removed is served from Redis until its copy expires, also
  after an invalidation that a reader's SETEX overtakes: `EnvironmentHistory` says how far this
  may go. What has been replaced and is kept by nobody never comes back.

## 5. The proofs

All theorems hold for every value of the constants that the named assumptions allow: any sets of
users, workers, streams, environments, any bounds, and, unless a theorem assumes otherwise, any
failures and restarts.

| Module | Theorem | States | Assumes |
|---|---|---|---|
| `TokenSessionProofs` | `TypeCorrect` | `TypeOK` | |
| | `VerdictCorrect` | `VerdictIsCurrent` | one worker, Redis commands do not fail, no restart, no answer of an UPDATE is lost (statements may fail) |
| | `RevocationCorrect` | `RotatedNeverAccepted` | the same |
| | `SessionCorrect` | `Spec => RowDecides`, a refinement | the same |
| | `RoleCorrect` | `RoleIsExact` | statements do not fail |
| `RequestExecutionProofs` | `TypeCorrect` | `TypeOK` | |
| | `LeftoverCorrect`, `DynamicCorrect`, `PrecedenceCorrect` | `LeftoverExplained`, `DynamicExplained`, `Precedence` | |
| | `FlatCorrect` | `FlatIsSimultaneous` | |
| | `SubstitutionAdvances` | every step of the substitution lowers its variant | |
| `ScriptExecutionProofs` | `CacheImplementsHistory` | `CacheSpec => ServesHistory`, a refinement | |
| | `HistoryServed` | the same of the composition | |
| | `EnvironmentsCorrect` | `ScriptReadsItsEnvironment` | |
| | `VerdictsCorrect`, `InterruptsCorrect` | `ScriptSeesOwnResponse`, `InterruptedOnlyLate` | |
| `EndpointStoreProofs` | `TypeCorrect` | `TypeOK` | |
| | `OwnDetailsCorrect`, `DetailsOwned`, `NoOtherDetails` | `OwnTypeHasDetails`, `DetailsHaveEndpoint`, `OnlyOwnTypeHasDetails` | |
| | `PublicationCorrect` | `PublishKeepsDetails` | |
| | `LookupCorrect` | `LookupFindsConnection`, unless transactions keep every connection | |
| | `StarvedForever` | when as many updates wait for their lookup as there are connections, only a restart goes on | |
| | `PoolOfOneNeverUpdates` | no update or publication gets past its lookup | the pool of one of `main.cpp` |
| `MembershipProofs` | `TypeCorrect` | `TypeOK` | |
| | `DecisionCorrect` | `DecidedByOwnRole` | |
| | `MembershipCorrect`, `AnswersCorrect` | `MembershipIsInvited`, `AnsweredOnce` | one responder |
| | `AcceptanceCorrect` | `AcceptedIsMember` | one responder, no failure, no lost answer, no restart |
| | `NoticesCorrect` | `SpecAll => []ToldMeansMember`, of the composition with `Notifications` | |
| `NotificationsProofs` | `TypeCorrect` | `TypeOK` | |
| | `OrderCorrect`, `GapsCorrect` | `OwnInOrder`, `NoGaps` | |
| `BootstrapProofs` | `MigrationTypes` | `TypeOK` of the migrations | |
| | `MigratedBeforeUp`, `StoredInMigratedSchema` | `UpMeansMigrated`, `StoredInSchema` | |
| | `HistoryIsKept` | `SpecAll => KeepsHistory`, a refinement | releases are prefixes of one another |
| | `ListedAreSkipped` | `ListedIsSkipped` | the collation sorts names as their bytes |
| | `AdminCorrect`, `CreationCorrect`, `ProgressCorrect` | `AdminIsThere`, `CreatedOnce`, `NeverGoesBack` | |

### 5.1 The inductive invariants, and why they are needed

**TokenSession, one worker.** `VerdictIsCurrent` is not inductive: a stale version in Redis, or in
a SETEX on its way there, becomes a verdict some steps later. `IInv` is `TypeOK` and `LocalInv`
(what a worker read agrees with the row until it compares; every rotated token is older than its
row), `GetsLast` (a GET is the last command of the queue and its worker waits for it),
`StaleCleared` (unless a DEL is about to be sent, a replaced version in Redis or in a queued SETEX
is followed by a queued DEL of the same key) and `NoCache`. The step that matters is the execution
of a GET: it is the last command, so no DEL is behind it, so by `StaleCleared` the version in
Redis is the one of the row.

**TokenSession, roles.** With any number of workers a GET may be anywhere in the queue.
`QueueExact` says that every SETEX of a role carries the role of its user's row and that every GET
is awaited by the worker and for the user it names; together with the same of the cache and of
`role` (`RoleInv`) it is inductive, for a user's role never changes.

**RequestExecution.** `Gathered` says what the variables are at every step, from the merges of the
sources to the last call of a script, and that no script has run before those are done;
`PassedExplained` that a reference behind the cursor, which is of an earlier
key, or of this key before the position, came with the value of its key or of a later one;
`DynamicFromValue` and `KeysDone` what their names say. The lemmas `SpliceFacts` and
`ReplacedFacts` say what a replacement makes of a text. A replacement preserves `PassedExplained`
because the pieces before are old ones and there is no occurrence between the old position and the
first hit, the inserted ones come from the value of this key, and of those behind only earlier keys
are passed. `LeastElement` gives the first hit.

**EnvironmentCache.** The refinement mapping hands `EnvironmentHistory` the row and, as what may
be served, all that is kept of an environment: the row, the copy in Redis, the SETEX commands on
their way and what readers found and are about to put. `CacheInv` makes the answer to a GET one of
these: `GetsAwaited` (a GET is awaited by one reader, for the environment it names), `FoundToPut`.
Every step then adds to what is kept at most what the row holds, and is `Write`, `Ask`, `Answer`,
`Forget` or `Stop` of the abstract specification. `PastInv` lifts this to the composition: what is
kept has been in the row.

**ScriptSandbox.** `ClockInv`: while a script runs the interpreter's clock is the age of the
script. `ContextInv`: the context that assertions ask is that of the running stage.

**EndpointStore.** `ReadIsCurrent`: what a worker read of its endpoint is still so unless another
changed it (`disturbed`); it gives `Rewrite` the type whose details it may delete.
`ConnectionsCounted`: `inUse` is the number of workers inside a transaction, and `PoolBound`: it is
at most the size of the pool. Then `LookupCorrect` is counting. Those who wait for their lookup
keep a connection each: if they are as many as the pool has, nobody else keeps one, so no worker is
further than the lookup and every other step needs a connection (`StarvedFacts`); with a pool of
one a single worker is enough, which makes `NoUpdatePasses` inductive. `StoreIsCurrent` says of a publication that nobody disturbed
that type and details it is about to write are the stored ones.

**Membership.** For `DecidedByOwnRole`, `RolesHad`: roles in the cache and in the hands of a check
are ones the member had. For the others, `Answered`: between the steps of its single responder
an invitation keeps the status that it was found in or given, and `MembershipIsInvited` holds.

**Invitations with notifications.** `GivenInv`: who is about to announce an acceptance has given its
role. `Delivered`: every message between `sendNotification` and the streams has been sent, and a
stream receives what was sent to its owner. `NoticesTrue`: what was sent is true. It stays true
because an answer changes nothing of an invitation but its status (`NextRows`), and `held` only
grows.

**Notifications.** `WayInOrder` and `WayComplete` say of the messages between `sendNotification`
and the table (the PUBLISH commands and the subscriber's connection) that they are in order and
that nothing sent after one of them is forgotten; `StreamOK` that a stream was sent less than what
is on its way, that what it misses since its last message is on its way or lost, and that it has
one entry in the table. An entry less would be a gap, one more a notification sent twice.

**RequestExecution, the loops.** The variant in `SubstitutionAdvances` (the keys left, then the
pieces ahead of the position) is the part of `ExecutionEnds` that is about data: with the fairness
of the run it makes the substitution end for any values, where the run has four.

**RequestExecution, flat values.** `Simultaneous` of a text replaces every piece by its image at
once. `FlatInv`: while no value refers to a variable, the text in every turn of the loops has the
same simultaneous replacement as the input, for the image of a replaced reference is its value and
a value without references is its own replacement. At the end no reference to a variable is left
(`PassedExplained`), so the text is its own replacement too. That the flattening of a concatenation
is the concatenation of the flattenings is `FlattenConcat` of `DataLemmas`.

**TokenSession, refinement.** Beside `IInv`, `RouteInv`: who is about to be issued a token is
active, and only the logout route rotates. The comparison is the moment at which a token is
accepted or refused, and by `LocalInv` what it compares with is in the row at that moment; the
UPDATE is the moment of a revocation, and what is still to do of a logout then, the DEL, concerns
nobody but Redis.

**Migrations.** `MigrationInv` says of every engine what it has read (`ListsInv`: the versions
listed are recorded, of its own files those that it does not look at any more are recorded, the
rest is sorted) and what its transaction holds (`TransactionInv`: the statements of the file at
hand, then its row; no row that another transaction or the table has), and of the table that each
file in it has taken effect once and no other has. `UpMeansMigrated` needs no more, since being up
means an empty rest; the search may even be wrong, for what it says is recorded is in the list,
and what it misses collides with the primary key. The refinement needs moreover that the file at
hand is the least of the release that is not recorded and that nothing before it is missing, which
is where releases have to be prefixes. Only `ListedIsSkipped` needs the search to be right:
`LowerBoundFacts` says by induction over what is left of the search that all versions before the
bound are smaller and none behind is, if the list is in order.

**Bootstrap.** `WizardInv`: what the wizard remembers and has answered is about names that it
inserted itself. The proofs about the wizard use nothing of the migrations but that they leave it
alone; `StoredInMigratedSchema` joins the two.

**Induction and recursion.** The library's induction theorems take an operator as a parameter and
cannot be used. `DataLemmas` has them for sets: `Induction` (a set of numbers that holds 0 and the
successor of each member holds all) and `Recursion` (a function on `0..n` each of whose values is
made from the values before it exists and is the one its definition chooses). From these it has
what the proofs need of the definitions that TLC evaluates: `RowExists`, that a finite set can be
put in order, and `FlattenTable`, what `FlattenSeq` of the community modules computes.

### 5.2 Model-checked only

- Liveness: `CopyBecomesCurrent` (of both caches), `RoleBecomesCurrent`, `UpdateAnswered`,
  `OpenStreamIsTold`, `ClosedLeaves`, `InviterIsTold`, `ExecutionEnds`, `ScriptEnds`. Fairness and
  `ENABLED` are out of the prover's reach.

Every other property of a passing run is stated by a theorem. `ReleasesArePrefixes` and
`CollationAgrees` are assumptions about the files of a repository and the locale of a database:
the code does not check either, the files in `migrations/` satisfy them.

## 6. What is not modelled, and why

- Passwords, signatures, claims: libraries; a token is what verifies.
- The team branch of `InvitationService::accept`: no route makes an invitation to a team.
- Lists and reads that change nothing, heartbeats, request validation that refuses before anything
  is stored.
- `setGlobalVariables`, one statement without a cache: `RequestExecution` takes any global
  variables.
- The transport behind the executor: an interface without an implementation.
- The interpreter itself: QuickJS is not in the repository. Its memory, among it the value that
  `jsonStringify` duplicates and does not free, the wrappers of `registerFunction`, `expect`, and
  assertions on headers, body and time are left out; the modules have what sandbox and bindings do
  with globals, closures, the clock and the status.
- The identity use cases, which only tests construct.
- The construction of services in `main.cpp`, and Redis that is missing from the start, but for the
  constant `HasCache` of `TokenSession`.
- A stream that closes before it has its close handler, and notifications delivered before the
  ready event: the first depends on drogon's threads, of the second no document says that it
  should not happen.

## 7. Plan

Done: every component that keeps state has a module, an instance and proofs; the compositions in
which components meet (invitations with notifications, migrations with the wizard, the cache of
environments with scripts); three abstract specifications, each with a proof that the detailed one
implements it; a theorem for every property but liveness. What is left, in this order:

1. The safety half of the liveness properties: of a session with any number of workers, that a
   request never lengthens the life of a stale copy (behind `CopyBecomesCurrent`), and of the catalog, that who
   waits for a connection or a row waits for somebody who does not (behind `UpdateAnswered`).
2. An abstract specification of a stream (a subsequence of what its user was sent) that
   `Notifications` implements.
3. The team branch of `accept` and the writer of global variables, once a route reaches them.
