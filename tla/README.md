# A TLA+ model of tiTTY-backend

tiTTY-backend is an identity directory, a challenge-response login and a short-lived
rendezvous for direct chats: one Rust process (axum, async-graphql, sqlx) on one SQLite
database in WAL mode, with shell scripts around it for deployment, backup and reports.
This directory models the parts of it in which several requests, the clock, the clean-up
task and crashes interleave, checks them with TLC on small instances, and proves the
properties that matter most with TLAPS for every instance.

Paths below are relative to the repository.

## Inventory

| Part | State | Operations | Hard because |
|---|---|---|---|
| Direct-chat rendezvous (`src/graphql/mutation.rs` 169-414, `query.rs` 79-100, `db.rs` 47-56, `migrations/0004`) | tables `live_chat_requests`, `blocked_accounts` | send, renew, cancel, block, unblock, list; clean-up at startup, each minute and before reads | no transaction: each handler is a sequence of statements with awaits between them |
| Login (`mutation.rs` 79-167, `auth.rs`, `db.rs` 40-45, `migrations/0001`) | table `authentication_challenges`, SQLite's write lock and snapshots | requestChallenge, authenticate, startup clean-up | one deferred transaction that upgrades from reader to writer; replayed answers; crash around the commit; two time formats compared as texts |
| Rate limiter (`src/rate_limit.rs`) | a map of buckets behind a mutex | `check`, `enforce` | clock read before the mutex; bounded table; fixed windows |
| Account registry (`mutation.rs` 33-77, `query.rs` 21-61, `validation.rs`, `account_id.rs`) | table `accounts` | registerAccount, lookups, availability | three unique constraints, lost replies |
| HTTP pipeline (`src/main.rs` 106-280) | the access log and the lossy channel to its writer | access log, body buffering, rate limit, bearer check, GraphQL execution | order of the layers, early returns, handlers dropped at an await, lines lost with the process |
| Session tokens (`auth.rs` 35-84) | none: a signed token | issue, validate | expiry against clock and leeway |
| Request metrics (`db.rs` 58-89, `migrations/0002`, `0003`) | table `api_request_metrics` | upsert per request | bucket boundaries, the rebuilding migration |
| Binary updater (`scripts/update-binary.sh`, `systemd/titty-backend.service`, `main.rs` 79-147) | installed binary, rollback copies, service, schema version | save, install, restart, probe, roll back; automatic restarts; migrations | a failure between any two commands; systemd and migrations act meanwhile |
| Backup, reports, log culling (`scripts/backup-to-s3.sh`, `generate-*.sh`, `cull-api-logs.sh`) | files on disk and in S3 | snapshot, upload, delete by age | delete only after upload |
| Configuration, provisioning, report layout | - | one-shot | not modelled, see the end |

The parts meet in the database and in the request: the HTTP pipeline asks the rate limiter,
validates the bearer token that the login issued and runs a resolver, and the resolvers of all
parts share one pool of four connections and SQLite's single write lock. The clean-up
task and the handlers run on the same tables. Nothing is kept in memory across requests
except the rate limiter, which a restart empties.

What makes each part correct:

* Rendezvous: leases end by the hard expiry; a retry stores nothing twice; the request
  limit; blocks hold; only the sender renews and cancels; every request leaves.
* Login: one session per challenge; only for the owner of the key; none that a crash can
  undo the consumption of; the write lock is given back; a restart loses no live challenge.
* Rate limiter: bounded memory; no more than twice the limit in a window's span; no refusal
  for its rate that the client did not earn.
* Registry: one account per key and name, whatever the interleaving and the retries.
* Pipeline and metrics: what is logged and counted for each way a request can end.
* Updater: a success was earned by the binary it installed; the last good binary is never lost; an unproven one
  stays only if the run was cut short; what is installed and can start comes back by itself.

## Modules

| Module | Content |
|---|---|
| `LiveChat` | the rendezvous, its properties, its inductive invariant |
| `LiveChatProofs` | theorems about it |
| `LiveChatLimitProofs` | the request limit: an invariant that counts requests and sends |
| `RequestBook` | what the rendezvous promises: a book of requests changed by atomic decisions and effects, without handlers |
| `LiveChatRefinement` | the refinement mapping from `LiveChat` to `RequestBook` |
| `LiveChatRefinementProofs` | the proof that every statement of a handler is a step of the book or a stutter, and what the book alone implies |
| `Authentication` | the login, its properties, its inductive invariant |
| `ChallengeBook` | what the login promises: a book of challenges, each spent once by one atomic step |
| `AuthenticationRefinement` | the refinement mapping from `Authentication` to `ChallengeBook` |
| `AuthenticationProofs` | theorems about the login, its refinement and the book |
| `RateLimiter` | the limiter and its properties |
| `RateLimiterProofs` | theorems about it |
| `Registry` | registration and identity lookup, and their properties |
| `RegistryProofs` | its inductive invariant and theorems about it |
| `HttpPipeline` | the way of a request through the layers, what it leaves in the log and the counters |
| `HttpPipelineProofs` | its inductive invariant and theorems about it |
| `BinaryUpdate` | the update script, systemd and the service's start-up |
| `BinaryUpdateProofs` | theorems about them |
| `MCLiveChat`, `MCAuthentication`, `MCRateLimiter`, `MCRegistry`, `MCHttpPipeline`, `MCBinaryUpdate` | model values and symmetry for TLC |

Some operators come in two forms next to each other, such as `HasRoomOffByOne` before
`HasRoom`. The second is what the code does. The first is a plausible mistake: putting it in
the place of the second makes the property named in `PROJECT.json` ("mutants") fail, which shows
that the property depends on that line of the code.

### LiveChat

`requests` and `blocks` are the two tables. `task` holds, for each request the server is
handling, the statement it is about to run (`pc`) and its local variables: `actor` is the
account of the bearer token, `peer` the other account, `client` the client_request_id, `rid` the
pair of request_id and lease_id, `lease` and `hard` the expiry instants it computed or read.
`up` says whether the process runs.

A handler is one action per SQL statement, in the order of the code: `SendStart`,
`SendExpire` (180), `SendLookup` (193), `SendCount` (206), `SendResolve` (219-233),
`SendCheck` (234), `SendInsert` (245); `RenewStart`, `RenewExpire` (284), `RenewRead` (287),
`RenewStamp` (298), `RenewWrite` (300); `CancelStart`, `CancelRead` (321), `CancelDelete`
(333); `BlockStart`, `BlockInsert` (364), `BlockDelete` (374), `BlockReply` or `BlockVanished`
(382). `Unblock` is one statement. `RenewStamp` is separate from `RenewWrite` because the
clock is read before the UPDATE waits for a connection and the write lock. Accounts are never
deleted by the code, so looking one up is part of the action before the next statement.
`Abort` is a failed statement or a future dropped because the client went away: what was
written stays. `Crash` forgets all handlers, `Restart` runs the clean-up of `main`, `Cleanup`
is the minute task and the clean-up a `liveChatRequests` query runs first; `Visible` is what that query
returns.

Time: the code only compares expiry instants with the current time, so an instant is the time
that remains until it, down to 0, and `Tick` shortens all of them, in the table and in the handlers.
Time is thereby unbounded while the state space is finite. A fresh UUID is an id nothing holds.

### RequestBook and LiveChatRefinement

`RequestBook` is the rendezvous as its clients may think of it. It has the stored requests (`held`), the blocks, and
`mandates`: what the service has decided to do for a caller and has not done yet. Each operation is a decision, where
its rule is checked in one atomic step, and an effect, which spends the mandate: `DecideSend` and `Store`,
`DecideRenewal` and `Renew`, `DecideCancel` and `Cancel`, `Block` and `Clear`. Mandates may get lost, time passes,
expired requests are forgotten, and nothing else changes the tables.

`LiveChatRefinement` reads the mandates off the handlers (`MandateOf`): a send between its block check (234) and its
INSERT (245), a renewal between its SELECT (287) and its UPDATE (300), a cancel between SELECT (321) and DELETE (333), a
block between INSERT (364) and DELETE (374). `ImplementsRequestBook` says that the tables never change but by a decision
of the right kind made earlier for the right caller: the mandates are exactly the places where the code acts on what it
read a statement ago, and the book shows what a client can and cannot conclude from that. A mandate may be spent and
still be there, when two calls made the same decision (`Spend`).

### Authentication

`challenges` is the table as committed. `writer` is the handler whose UPDATE is open: SQLite
has one write lock. `task[t].stale` notes that something was committed since the snapshot
that handler reads from; with it `MayWrite` says what SQLite does for a deferred transaction that
upgrades to a writer: it fails at once when another connection holds the lock or has committed
since (SQLITE_BUSY, SQLITE_BUSY_SNAPSHOT; the five-second busy timeout is not used inside a read
transaction). Statements outside a transaction wait for the lock. `OtherCommit` is any other
write to the database. `tod` is the time of day: rows keep whether the *date* of their expiry has
passed, because that is all the startup clean-up sees when it compares RFC 3339 text with
CURRENT_TIMESTAMP text (`Sweepable`). `owner` and `issued` are history variables: for whom a
challenge was minted and how many sessions it gave.

`AuthRead` is BEGIN and the SELECT (131-141), `AuthCheck` the expiry and the signature (143-150),
`AuthUpdate` (152-163), `AuthCommit` (165), `AuthIssue` the session (166). A signature is
described by the key it was made with and the challenge it was made over.

### ChallengeBook and AuthenticationRefinement

`ChallengeBook` is the login without snapshots, locks and date texts. A challenge is minted (`Mint`) and stored (`Store`);
a right answer is accepted while its challenge has time left (`Accept`); the first accepted answer spends the
challenge (`Spend`), which must be unspent, and what was granted gives one session (`Grant`). `Lose` is everything that ends
or fails, `Sweep` the clean-up, which may take any challenge that cannot be answered any more. The book says where the time is checked and where
it is not: an accepted answer keeps its right past the expiry (the expiry is compared at 146, the UPDATE and the commit may wait), but
not past another answer.

`AuthenticationRefinement` reads the book off the table and the handlers: `accepted` are the answers of handlers between the check (150) and the
commit (165), `granted` those between the commit and the session (166), `pending` the rows between 100 and the INSERT (105).
`ImplementsChallengeBook` says that a login is atomic although its SELECT, check, UPDATE and commit are not: only the commit spends.

### RateLimiter

`buckets` is the map; a bucket keeps the age of its start and its count. `call` is a thread
inside `check()`: `Start` reads the clock, and the critical section is one of `RefuseNewKey`,
`RefuseOverLimit` and `Admit`, which work with the age of that clock read (`lag`). `admitted[k][n]` is a
history variable: how many calls of key k were let through within the last n units of time, for n up to window and lag
(`Horizon`).

### Registry

`accounts` is the table. A registration in progress (`task`) has validated its input and holds the
row it is about to insert, and after `Insert` or `Refuse` the answer (`pc` is "ok" or "taken").
`Reply` brings the answer to the client, `Abort` loses it. Clients are not modelled beyond that: any
of them may register any spelling with any key at any time, so retries after a lost reply are among
the behaviours. The rate limit of five registrations a minute, which only refuses more, is left out.

Names are sequences over a small alphabet with a member or two of each class that
`normalise_identitty` tells apart: upper and lower case letters, digits, the two marks, blanks and
one other character. `Normal` is trim and lower-casing, `Admissible` the length and alphabet checks,
`SameName` the NOCASE collation of the column. An account id is a pair with the key in it: a digest
without collisions. `told` is a history variable: the answers that reached a client.

### HttpPipeline

`request[r].pc` is where a request is: "outer" in `api_access_log` before `next.run`, "routed" inside
it, "limit" and "bearer" in `graphql_handler`, "event", "metric", "body" and "reply" behind `next.run`
in the order of `src/main.rs` 183-228. `Disconnect` drops the handler where it awaits (`Awaits`) and
nowhere else: between two awaits the code runs without a pause. A dropped upsert may still be run by
the database thread. What a client sends is reduced to what the code distinguishes (`Arrival`). The
rate limiter and the resolvers have modules of their own; here the first answers either way, and of
the second only matters that they ran (`executed`).

`queue` is the bounded, lossy channel of `tracing_appender::non_blocking`, `Write` its worker thread,
and `Return` the end of `main`, whose guard drains the channel. (The guard waits about a second for
the worker; a disk slower than that counts as a failure here.) `Fail` is a crash or a kill, which
loses the channel. `fate` and `failed` are history variables; `counted` stands for the upsert of
`record_api_request`, whose buckets are not modelled.

A line can be emitted and yet not be in the log: `Emit` drops it when the channel is full, and `Fail`
takes the channel along. `InLogOrLost` says that those are the only ways, and that a drop comes with at
least the `QueueCap` lines that filled the channel, in it or in the file by now. `AnswersAreLogged` and `CountedIsLogged` are
stated with it. So they do not promise a line for every answer or count: with a channel of one line the second
of two requests may be answered and counted without one, and the run contains that case.

### BinaryUpdate

`target` is the file at TARGET_BINARY, `copies` those rollback copies beside it that are complete (the script can leave a
part-written `.bak` file too; no run but the one that writes a copy reads it, so the module leaves such files out), `svc` the service's process as
systemd sees it ("booting" before the listener is bound, "serving", "failed" and about to be restarted, "dead" when only a
command starts it), `schema` the number of applied migrations. `pc` is the script's next command: `Save` (40), `Stage` (54),
`Swap` (55), `Restart` (57), `ProbeHit` or `ProbeMiss` (65-73), `Table` (85), `Report` (96-97), and for the rollback
`RollbackUnlink`, `RollbackCopy` (both 50: `install` removes the target, writes it and makes it executable last) and
`RollbackRestart` (51). `NoSpace` and `RollbackFails` are failures that end the script because of `set -e`. `Kill` ends
it before any command; the EXIT trap removes the temporary file only. `source`, `saved` and `before` are the given build,
the contents of BACKUP_BINARY and what was installed at the beginning.

The service does what it does meanwhile: `AutoStart` (`Restart=on-failure`), `Migrate` one migration at a time,
`RefuseSchema` when the database has migrations the build does not know (`sqlx::migrate!` fails, `main` returns),
`Listen` once start-up has succeeded, `Crash`, `Break` for a build that is not sound, and `Reboot`, which also ends the
script. A build is told apart by the migrations it embeds (`Level`) and by whether it ever serves (`Sound`).
`answered`, `verified`, `lastGood` and `doubtful` are history variables.

Left out: two runs at the same time or with the same second in the name of their copy, and file contents lost
with the power because nothing is synchronised.

## Runs

| Run | Bounds | Shows |
|---|---|---|
| `live_chat` | 2 accounts and an unknown name, 1 client id, 3 request ids, 2 handlers, lease 2, hard expiry 3, limit 1 | the safety and action properties of `LiveChat`, and that it implements `RequestBook` |
| `live_chat_limit` | as above with 3 client ids, lease 1, hard expiry 2, no blocks | `ActiveBounded`: the limit is exceeded by at most one per further handler |
| `live_chat_live` | 2 request ids, lease 1, hard expiry 2, `FairSpec`, no symmetry | every request leaves; a lasting block takes effect |
| `live_chat_block` | 2 request ids | violated: see Findings |
| `live_chat_renew` | 2 request ids | violated: see Findings |
| `authentication` | 2 accounts and an unknown id, 2 challenges, 2 handlers, life 2, day of 2, `FairSpec`, no symmetry | the safety and action properties of `Authentication`, that it implements `ChallengeBook`, and that the write lock is always released |
| `authentication_startup` | as `authentication` | violated: see Findings |
| `rate_limiter` | 3 keys for 2 buckets, 2 threads, limit 2, window 3, retention 5, lag 1 | memory bound, sliding bound, refusals are earned |
| `registry` | 3 keys and one of a wrong length, 7 spellings of 2 valid names and 3 invalid ones, 2 handlers, names of 2 to 3 characters | the safety and action properties of `Registry` |
| `http_pipeline` | 2 requests, body logging on, a channel of 1 line, `FairSpec`, no symmetry | the safety properties of `HttpPipeline`: which lines may be missing behind an answer or a count, their order, and that lines the channel took are written |
| `http_pipeline_dropped` | 2 requests, body logging off, a channel of 2 lines | violated: see Findings |
| `binary_update` | builds v1, v2, v3 with 1, 2 and 3 migrations, x3 with 3 that never serves, the metrics table in the second migration, 2 probes, `FairSpec` | the safety properties of `BinaryUpdate`, and that a service that can start comes back |

Why the bounds are enough. Every hazard of the rendezvous is a race of two handlers: a send against
a block, a renewal against a cancel, two sends of one client id. Two handlers, with the clock, the
clean-up and unblock as further actors, show all of them; two accounts suffice as a block and a request
relate two, and the third request id lets an id be reused after its row is gone while a handler still
holds the old one. Lease 2 under hard expiry 3 lets a renewal be capped and a lease run out before the hard
expiry. One client id makes all sends retries of each other; `live_chat_limit` drops that and
leaves blocks out (a constraint), which do not enter the count. For the login, two handlers
answer one challenge twice or two challenges at once. A life of 2 in a day of 2 lets a
challenge expire before, at and after midnight. For the limiter, three keys for two buckets make
the table full, and the retention of 5 is just past window and lag. The bounds of `SlidingBound` and
`RefusalJustified` are tight: with one unit more or less TLC finds a violation. A name conflict takes two
registrations and a key conflict two names; the third key lets both happen around an account that exists
already, and names of length 3 have room for a mark between a letter and a digit. Two requests with body
logging hand four lines to a channel of one, so lines are dropped, and one request of each kind can be in
flight while the other ends. For the updater, v1 is too old for the metrics table, so a run can fail there after the service
answered; v2 and v3 give an upgrade and a downgrade, x3 migrates and fails, so its rollback finds a schema that is too new. Runs
follow each other without limit; the number of probes only says how long the script waits, so two suffice.

`MaxLag`, the longest wait between the clock read and the mutex, is the one bound on
behaviour; it must be below the window (`LimiterAssumption`), which 60 seconds justify.

### Fairness

`LiveChat!FairSpec` assumes that time passes, that the interval task keeps firing while the
process runs (`tokio::time::interval` in `main.rs` 86-95) and that systemd restarts the service
after a failure (`Restart=on-failure` in `systemd/titty-backend.service`). Handlers get no fairness: a statement may wait
for ever, and a client may stop at any point. `Authentication!FairSpec` assumes only that a
handler holding the write lock is polled until it commits, or is dropped. `HttpPipeline!FairSpec` assumes only that
the worker thread of the log, which does nothing else, keeps writing what is in its channel. `BinaryUpdate!FairSpec`
assumes that systemd starts a failed unit again (`Restart=on-failure`, `RestartSec=3`, which stays below systemd's default start
limit) and that a sound build gets through its migrations and its start; the script gets no fairness.

### Findings

Four runs show the code departing from what the documents say:

* `BlockedAtReply`: README.md:144 has a block remove the active requests of the blocked sender. A send that
  passed its block check before the block was stored inserts after blockIdentity's DELETE, so the
  blocker sees the request after the reply. `BlockTakesEffect` and `SealedBlockStaysSealed` show what
  does hold: such a request is the last one and goes with its lease.
* `RenewalRenews`: README.md:140 has renewLiveChatRequest renew a lease. It does not look at the
  number of rows its UPDATE changed and answers with a lease for a request that is gone.
* `StartupRemovesExpired`: SYSTEM_DIAGRAM_SPEC.md:174 has expired challenges removed at startup. The
  clean-up keeps those that expired earlier on the same UTC day. `LiveChallengesSurviveRestart` shows that
  it errs in this direction only.
* `EveryExecutionIsLogged`: README.md:156 has one access event per HTTP request. The event comes after `next.run`, and a client that goes away
  while the resolvers run takes the rest of the middleware with it: the mutation may be stored, but is not logged.

Some smaller departures need no run of their own. README.md:156 has the request id in each event, but `api_access_log` is outside the
layer that mints missing ids: without a client's header it logs "unknown" in every run. With body logging on, a `/graphql` request whose body cannot
be buffered is answered 400 before its event (`main.rs` 173): `AnswersAreLogged` shows that this is the only answer for which
no line was emitted. And IDENTITTY_TAKEN ("The identiTTY is already taken", `error.rs` 11) answers any unique violation, also that of a
client that retries a registration whose reply was lost, or registers its key again under a free name:
`RefusedForAReason` is what such a client may rely on. README.md:90 has the updater restore the previous binary when the health check fails. It
restores the file; the database stays where the new binary's migrations left it, and a binary older than that refuses to start. `ServiceComesBack`
is therefore stated for builds that are not older than the schema.

## Theorems

All are proved for arbitrary constants that satisfy the assumptions of the module
(`ParamsAssumption`, `TaskAssumption`, `LimiterAssumption`, `RegistryAssumption`, `PipelineAssumption`, `UpdateAssumption`): any set of accounts,
ids, handlers (finite where they are counted), requests and builds, any durations and capacities.

`LiveChatProofs` proves the invariant `IInv` and from it `TypeOK`, `LeaseWithinHard`,
`OneRequestPerClientId` and the action properties `OnlyTheSenderRenews`, `RemovalIsAuthorised` and
`SealedBlockStaysSealed`. None of the three properties of later statements is inductive alone, because a handler acts on
what it read earlier. `IInv` therefore says what a handler between two statements may rely on: ids of rows are
unique (`IdsUnique`); the id a send has minted is on no row and in the hands of no other handler that would write
to it (`MintedIdsUnused`); the row of a renewal past its SELECT, *if it still exists*, is its
sender's and still has the hard expiry that was read (`RenewalKnowsItsRow`); likewise for a
cancel (`CancelOwnsItsRow`). That ids are never reused while a handler holds them is what makes this
hold, and in the code the randomness of UUIDs.

`LiveChatLimitProofs` proves `ActiveBounded`: a sender's live requests exceed `MaxActive` by at most one for each further handler. The
limit is checked with a count (206) and used by a later INSERT, so the number of requests alone is not inductive. `CountInv` counts
together what is there and what is on its way: the requests of a sender that are live, or expired but in the hands of a renewal
that may still revive them (`Counted`), and the sends past the count (`Sends`). A send joins the second number only when the live requests are below the limit, at which moment every other
handler adds at most one: a send of its own or the one row it may revive. Its INSERT moves it from the second number to the
first. No other step adds to either: a renewal runs the clean-up before it enters the region where it may revive its row, so that
row was live, and counted, when it did.

`LiveChatRefinementProofs` proves `ImplementsRequestBook`, step by step: each statement of a handler maps to one
action of the book or leaves its three variables alone. The steps rest on `IInv`: the id a send inserts is unused in the book because
`MintedIdsUnused`; the row a renewal writes to is the one its mandate names because `RenewalKnowsItsRow`; a cancel deletes
its caller's row because `CancelOwnsItsRow`. What a handler that ends or crashes does to the mandates is always `Lose`.

`LiveChatRefinementProofs` goes on to show that the book is not an empty promise: `SealedBlockStaysSealed`, `RemovalIsAuthorised`,
`OneRequestPerClientId` and `LeaseWithinHard` follow from `ImplementsRequestBook` alone, for anything that implements the book
(`BookKeepsSeals`, `BookAuthorisesRemovals`, `BookKeepsTheTable`). The invariant is now about the book (`BookInv`), and the link is that a block is sealed in
`LiveChat` exactly when the book shows it sealed (`SealsAgree`): the sends that are past their check are mandates.

`AuthenticationProofs` proves `IInv` and from it `TypeOK`, `OneSessionPerChallenge`,
`SessionMeansUsed`, `SessionsAreEarned`, `LiveChallengesSurviveRestart` and, stated in the module but left to the proof, `OnlyTheOwnerUses`. The argument: an open snapshot that is
not out of date, and an open UPDATE, are of a challenge that nobody has spent (`SnapshotsUnspent`); the write
lock is held exactly between UPDATE and commit (`LockMatches`); so the handler that commits is alone with its
challenge until it has answered (`WinnersAreAlone`).

The same module proves `ImplementsChallengeBook`. The mapping needs two facts more than `IInv` (`RefinementInv`): a claim knows the row it read and
the time left to it, because no other statement removes or changes that row while the process lives (`ClaimsHaveRows`), and no handler outlives the
process (`DownMeansIdle`), so the clean-up of a start meets none. Then each action maps to one of the book: the check to `Accept`, the commit to `Spend`, whose
challenge is unspent by `SnapshotsUnspent`, the session to `Grant`, where `WinnersAreAlone` says that one answer leaves `granted`; starting up
to `Sweep`, because a row whose date is past has expired; and what ends, fails or crashes to `Lose`. `BookKeepsPromises` closes the circle: `OneSessionPerChallenge` and `SessionMeansUsed` follow from
`ImplementsChallengeBook` alone, by an invariant of the book (`BookInv`).

`RateLimiterProofs` proves every property of the `rate_limiter` run: `TypeOK`, `BucketsBounded`, `SlidingBound` and `RefusalJustified`.
The first two need only that the buckets are a finite set of keys. The other two relate a bucket to the calls it let through
(`WindowInv`), by age: the calls of its window are younger than the bucket, and none is younger than the bucket less its window and the lag; the calls
of earlier windows are older than the bucket less the lag; and those that passed within a window, less the lag, before the bucket started are one limit at most. A
bucket that has been dropped was older than window and lag, so it leaves nothing that a new one could add to (`DroppedInv`). The history is kept as
running totals because the proof system cannot do induction over a sum. Stating the invariant showed that the history has to
reach back a full window and lag also when the lag is 0, which `Horizon` now says.

`RegistryProofs` proves every property of the `registry` run, for any alphabet and any rules of normalisation: the
proofs never look inside a name. The invariant adds to the properties that the rows are pairwise
distinct in each column (`RowsDistinct`), that ids are derived from keys also on the way to the table
(`IdsDerived`), and that what a handler is about to answer holds (`AnswersHold`), which then stays so
because rows are never changed or deleted.

`HttpPipelineProofs` proves every safety property of the `http_pipeline` run. The first invariant is local to a
request (`RequestOk`): where it is in the pipeline decides what has been emitted, counted and executed for
it. A lemma shows once that no other actor disturbs that (`FrameKeepsOthers`). The second is about the lines (`LinesInv`): the file and
the channel together are one sequence that only grows at its end, except that a failure cuts it to what the file has. A line
that has no fate yet is not in it, so no line enters twice; and a request between its two events has its access line in it, or that
was dropped, so the body line goes behind it. `DropsMeanFull`, a part of it, says that until the process fails the lines that
filled the channel when one was dropped are in it or in the file. Both together give `AnswersAreLogged` and `CountedIsLogged`: what was emitted for a request is in the log, or was lost in
one of the two ways (`EmittedIsInLogOrLost`).

`BinaryUpdateProofs` proves every safety property of the `binary_update` run from `UpdateInv`. `FilesInv` ties the files to the
commands: until the rename the target is what the run found, and from the copy on the saved build is. `ProbeInv` says that
after the restart nothing but the given build runs, so that what answers a probe is that build: the argument for
`SuccessIsEarned`. `GoodInv` keeps the last good build among the copies from the copy to the verdict, while the target may be
anything; `VerifiedInv` does the same for what the run found. That only a booting process migrates, and that it is the only
process, gives `ServesItsSchema`.

Every invariant and every action property of the passing runs is thereby proved. Only model-checked are the liveness properties
`RequestsEventuallyLeave`, `BlockTakesEffect`, `WriteLockReleased`, `TakenLinesAreWritten` and `ServiceComesBack`: they rest on fairness and
ENABLED, which the proof system does not reason about.

## Plan

Done: `LiveChat`, `Authentication`, `RateLimiter`, `Registry`, `HttpPipeline`, `BinaryUpdate`, each with proofs; the refinement of
`RequestBook` by `LiveChat` and of `ChallengeBook` by `Authentication`, with proofs that the books imply the properties. What could still be added, in this order:

1. An abstract specification of `Registry`, a name service of atomic claims, and its refinement.
2. Two update scripts at once, and copies whose names collide within a second.
3. The 15-minute buckets of the request counters against a count of requests.

## Not modelled

Payload contents and sizes, Base64, UUID and date formats except where two formats are compared; Ed25519, SHA-256
and HS256, which are libraries; the GraphQL parser; the session token's expiry, one comparison with the clock; the bucket
arithmetic of the request counters and the migration that rebuilds their table, which run in one statement or once; the
backup, report and culling scripts, straight-line shell around external tools (a snapshot or report whose upload failed is deleted by age
after a later run's upload succeeds, also where README.md:217 says "only after the S3 upload succeeds"); the report generators'
layout; reading the configuration, whose values are the constants; installing the service, Caddy, the firewall and the cloud
templates, which are one-shot scripts or declarations; on-disk erasure (`secure_delete`), which no
state of the service depends on.
