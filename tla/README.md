# proxy2api: models, checks and proofs

proxy2api is an AI gateway: it authenticates requests by gateway keys, chooses an
upstream provider and one of its keys, forwards, bills, and lets administrators
change everything while requests run. This directory holds TLA+ models of its core,
TLC configurations that check them on small instances, and proofs that TLAPS checks
for every value of the constants. Every definition that models code is mapped to its
lines in `PROJECT.json`.

## 1. The system

| Component | State it keeps | Operations | Talks to |
|---|---|---|---|
| Store (`store.go`) | tables: providers, provider_keys, api_keys, rules, schedules, tenants, admin users, audit, billing_txns, prices, usage_records | one SQL statement or transaction per method | everything |
| Runtime snapshot (`server.go`, `types.go`) | one `atomic.Value` | `reloadSnapshot`: five reads, then `Set`; `Get` | ticker, every request, every admin write |
| Request pipeline (`server.go`) | nothing of its own; a request holds copies | `handleProxy`: authenticate, rules, balance check, user limit, select, channel limit, forward, health, charge, usage record | snapshot, store, limiters, sticky map |
| Sticky sessions | map under `stickyMu` | read a binding, write a binding | selection |
| Upstream key pool | `consecutive_errs`, `cooldown_until` of each provider key, in the store | pick, mark success, mark failure | snapshot, store |
| Limiters (`limiter.go`, `redis_limiter.go`) | minute buckets under a mutex, or counters in Redis | `Allow` | pipeline |
| Billing | `balance_micros`, `billing_txns`, price rules | check, deduct, top up, set a price | store, pipeline, admin |
| Schedules | `group_schedules`, parsed in the snapshot | create, update, delete, import; multiplier of now | channel limit |
| Admin (`admin.go`) | tokens and roles in admin users, audit log | login; create, change, delete of each table; export, import, reload | store, snapshot |
| Seeding (`store.go`, `config.go`) | — | `SeedFromConfig` at start | store |
| Compatibility endpoints, middleware, console, statistics | counters | format translation, IP filter, metrics | pipeline |

What is hard here. No two steps of a request are atomic together: it reads the
snapshot up to four times, the tenant and the balance from the store, calls upstream
for any time, and then writes what it computed from what it read first. Reloads run
in several goroutines, unordered, and read five tables outside a transaction. Most
errors of the store are ignored. The process may die anywhere. Clocks are read before
locks are taken, differ between gateways and can be set back. Limits of zero mean no
limit. The full list, each at its line, is under `hazards` in `PROJECT.json`.

What makes each component correct:

- *Key pool*: a key is held back only after enough failures, never for longer than
  configured, and no health write undoes an administrator.
- *Snapshot*: what is published is between the store at the call and the store now;
  it becomes the store when writes stop.
- *Routing*: every decision of a request is explained by something published while it
  ran; a session moves only for cause; the draw follows the weights.
- *Limiters*: no window is charged above a call's limits, and what is refused is
  refused for a reason.
- *Billing*: money leaves a balance only with its ledger entry and only if it is
  there.
- *Schedules*: the texts mean what they say, and throttling never loosens.
- *Admin*: a change is made only by a request that stood for the role it takes; tokens
  change by login, accounts by owners; the audit log names who did what.
- *Start*: seeding is all or nothing, and a used database starts again.

## 2. Modules

| Module | Models | Notes |
|---|---|---|
| `KeyPool` | selection of a key, upstream outcome, health write, admin writes of keys, reload, restart | clock with readings inside a second, because `cooldown_until` is whole seconds |
| `KeyPoolProofs` | | five theorems |
| `Wallet` | what billing promises | abstract |
| `Billing` | estimate, check, serve, deduct, usage record, top-up, upserts, price changes | `int64` wraps at `2 * WordHalf` |
| `MCBilling` | symmetry for TLC | |
| `BillingProofs` | | five properties, one invariant, the refinement among them; what a cost is |
| `SnapshotReload` | `reloadSnapshot` statement by statement, its callers, the ticker, the export | content of a table is its version |
| `AdminStore` | accounts, tokens, login, roles, changes, audit, seeding at each start | |
| `WindowQuota` | what a rate limiter promises | abstract |
| `MinuteLimiter` | the in-memory `Allow` | implements `WindowQuota` |
| `MinuteLimiterProofs` | | three properties, one invariant, the refinement among them; the bounds on a minute |
| `RedisLimiter` | the Redis `Allow` and its script | implements `WindowQuota` |
| `Routing` | authentication, tenant, rules, sticky lookup, weighted draw, binding | the limits' answers are left open |
| `MCRouting` | four configurations to publish | |
| `RoutingProofs` | | seven properties, one invariant; a draw always decides |
| `AdminStoreProofs` | | eight properties, one invariant |
| `SnapshotReloadProofs` | | three properties, one invariant; the safety half of convergence |
| `RedisLimiterProofs` | | three properties, one invariant, the refinement among them; the bounds on a minute |
| `Throttle` | schedules from text to effective limit | |
| `MCThrottle` | requests and clocks | |
| `ThrottleProofs` | | three properties, one invariant |

How a model corresponds to the code. One action is one stretch of code that no other
goroutine can observe the inside of: a statement of the store, a critical section, a
load of the snapshot. Local computation and early returns belong to the action that
reads the data they use. `pc` says which stretch comes next; `held`, `req`, `call`,
`view` are the locals that survive it. An error path the code has is an alternative of
the action (`StoreMayFail`), a crash is `Restart`, which drops the locals and keeps the
tables. Variables marked *history* exist for the properties only and guard nothing.

Composition. Each module takes from the others only what they promise: `KeyPool` and
`Billing` contain the reload in as many steps as matter to them (two, and one),
`SnapshotReload` takes it apart; `Routing` sees a key pool as the second from which it
has a live key, which is what `KeyPool` explains; it leaves the answers of limiters and
balance check open, which `MinuteLimiter`, `RedisLimiter` and `Billing` model.

### The models, one by one

**KeyPool.** `rows` is the table, `snapshot` the published copy, `view[w]` the copy a
reload has read, `held[h]` what a request carries from selection to its health write.
`Select` is `pickProviderKey`; `ForwardOK` and `ForwardFail` are the outcome of
`forward` and compute the health to write from the *held* error count, as
`markProviderKeyFailure` does; `WriteHealth` is the `UPDATE`. Administrators update,
create (with gorm's replacement of `enabled = false` by the column default) and delete.

**Billing.** A request goes through estimate, check, serve, price, deduct, reload,
record. The check reads the live balance and reserves nothing; the deduction is one
conditional `UPDATE` and a ledger row in a transaction. Prices may change between the
two. `Wallet` is the promise; the refinement maps a missing key to a balance of zero.

**SnapshotReload.** `ReadTable` is one `List` call; `Publish` the `Set`. Every table has
a version that commits increase, so "older" and "newer" content is a comparison.
`GET /admin/config/export` is one more goroutine that reads the tables in that order and
answers instead of publishing. Nothing holds the tables still meanwhile, so a snapshot or
an export can mix two configurations; `NeverOnlySecondHalf` says which mixes the order of
the reads rules out, for the two transactions that change two tables: content without a
deleted provider is without its keys, content with imported rules has the imported
schedules. The opposite mixes occur and nothing in the code prevents them.

**AdminStore.** `users` is the table, by id; ids are given in order and never freed. A
handler goes through `requireAdmin` (`Begin`), `requireAdminRole` (`CheckRole`), the
change (`WriteConfig`, `WriteManage`, `WriteOwn`, one for each set of roles the handlers
ask for) and `AddAudit`, and looks its credential up anew each time; a top-up starts at
the second step, provider and rule handlers skip it and are not audited. Between these
steps other requests rename, demote, disable and enable accounts, and logins rotate
tokens: `LoginRead` and `LoginWrite` are the two statements of `AdminLogin`. `was[h]`
collects what the credential of a request has stood for since it began, so the properties
can say that the code explains each change by *some* moment of the request, and no more.
`Start` is `SeedFromConfig` on whatever the administrators and crashes have left:
`SeedWanted` is its look at the providers table, `Conflict` a unique column that a
configured row meets, `refused` the `log.Fatalf` that follows. One configured
administrator, an owner, as `fillDefaults` gives.

**MinuteLimiter, RedisLimiter, WindowQuota.** A window is a minute of one run of the
process, or a minute as named by the gateway's clock. `WindowQuota` charges a call to
a window only while it fits what that window has left under the limits of the call, so
the refinement says that no race, late caller, clock step, expiry or repeated command
lets a minute be charged above the limits. `MinuteLimiter.stamp` is the minute read
before the mutex is taken. `RedisLimiter` has skewed gateways, a script that runs once
or again with nobody listening, callers that give up, and expiry. It assumes
`Minute + CallTimeout + MaxSkew <= TTL`: with 60 and 65 seconds, network delay and clock
spread have five seconds to share. The code does not enforce that; outside of it the
promise does not hold.

**Routing.** `world` is what is in force: configuration, time, enabled tenants.
`seen[r]` is the set of worlds request `r` has run in, and the properties demand of each
decision a world in `seen[r]` that explains it. The decisions of one request may be
explained by different worlds: that is what the code gives.

**Throttle.** Rows keep byte sequences; `ParseHHMM` wraps like Go's `byte`;
`MultiplierAsWritten` compares the arithmetic with the alphabetical order of the texts,
a definition that shares nothing with it. Multipliers are fractions instead of
`float64`, so rounding of products is not covered. A window whose end is before its
start never matches, in the code and in the reference alike.

## 3. Runs

| Run | Question | Bounds, and why they are enough |
|---|---|---|
| `key_pool` | Is every cooldown earned, limited and harmless to administrators? | one key (keys share nothing but the tables' reload), two requests, one more goroutine that reloads or administers, threshold 2 so that one lost failure matters, four seconds of two readings: two whole cooldowns |
| `key_pool_failure_counts` | Does every failure count? *violated* | two requests and a reloader |
| `billing` | Does money move only as the wallet allows? | one key, two concurrent requests, three in all; word of 16 values so that products wrap; unit 2 so that division truncates; prices and balances on both sides of a cost |
| `reload` | Is what is published recent, and does it converge? | ticker, one request, one administrator, two commits, one error: three reloads, or two and an export, overlap in any order |
| `reload_immediate` | Is an immediate reload lasting? *violated* | same, without errors |
| `minute_limiter` | Does the mutex version implement the quota? | two callers, two minutes, two runs, limits reached after two calls or three tokens |
| `redis_limiter` | Does the Redis version? | two callers, minute 2, TTL 4, skew and timeout 1: the assumption holds with equality; three minute names |
| `routing` | Is every decision explained? | two requests, one session and none, two models, two providers, four configurations that enable, disable, delete, cool, force, deny and restrict, two changes of the world |
| `throttle` | Do texts mean what they say? | two rows, six requests (defaults, office hours, disabled, overnight, two malformed), clocks on and next to each boundary |
| `throttle_zero` | Does throttling leave a limit? *violated* | same |
| `admin_store` | Is every change, token and audit entry explained, on tables that change? | two requests or logins, two accounts, two names so that a name changes hands, three tokens, two changes, any number of crashes and starts; one configured and one other provider, one other configured row |
| `seed_only_empty` | Does a start seed only an empty database? *violated* | one request, three changes |

All runs check deadlock. The clock of `MinuteLimiter` and the counters of each
model are capped by constants named in the modules as bounds for TLC.

**Fairness.** Only `reload` needs it, and only of the ticker's goroutine. `WF(Tick)`:
`time.Ticker` fires and `loopReload` returns to its receive. `WF(ReadTable \/ Publish)`:
a statement of the store returns and `atomic.Value.Store` does not block. Nothing is
assumed of requests and administrators, whose reloads may stay unfinished for ever and
still publish late; errors are bounded: `Converges` is a promise about a store that works
in the end.

### Disagreements with the documentation

1. *Failures are lost* (`README.md:18`). `markProviderKeyFailure` counts from the copy
   selected before the call and overwrites: concurrent failures count once, and a late
   one can erase a cooldown.
2. *An immediate reload can be undone* (`README.md:138`). Reloads are not serialised;
   one that read earlier may publish later.
3. *Throttling can lift a limit* (`README.md:23`). `int(limit * multiplier)` becomes 0
   for small limits, and 0 is no limit.
4. *Seeding looks at one table* (`README.md:132`). With the last provider deleted, the
   next start inserts the seed over gateway keys, rules and accounts that are still
   there: it fails on a unique column and the gateway does not come up, or, with none of
   the configured names left, it resets the configured administrators.

Two more observations have no text to disagree with and stay hazards: gorm's `Create`
stores `enabled` as true when it is false, so importing an exported configuration
enables its disabled rules and schedules; and `POST /admin/api-keys` writes balance and
tenant it never decoded.

## 4. Proofs

Proved by TLAPS for all values of the constants that satisfy the modules' named
assumptions (any number of keys, requests, prices, word sizes, clocks):

- **KeyPool** (`PoolAssumption`): `TypeOK`, `ErrsBelowThreshold`, `CooldownIsEarned`,
  `RecoversInTime`, `AdminOwnsKey`. The invariants speak of copies; none is inductive,
  because a held count becomes a copy only later. `KeyPoolInv` says of *every* copy and
  of every held health that its count is backed by failures and its cooldown by enough
  of them, recent enough. Stability lemmas carry that through failures and time; a write
  then only moves a sound copy.
- **Billing** (`BillingAssumption`): `TypeOK`, `CreditBacksBalance`,
  `UncontestedChargeSucceeds`, `UsageCoversCharges`, `ImplementsWallet`. `BillingInv` adds `Covered`: from the
  check on, through the whole upstream call, the balance covers the estimate of a
  request nobody raced. Arithmetic lemmas bound wrapping and truncating division.
  `UsageCoversCharges` is inductive over `BillingInv` and `ChargedSound`:
  `ChargedMoves` gives the three ways a request's step moves the set of requests that
  were charged and have not written their record, and with it the sum. `CostIsExact` and
  `CostIsMonotone` say what the arithmetic does where no product overflows: a cost is the
  true one rounded down and grows with the tokens. Both need that hypothesis, and the code
  does not check it; where it fails, `TypeOK` says only that a cost is some `int64`.
- **MinuteLimiter** (`LimiterAssumption`): `TypeOK`, `DeniedForCause`,
  `ImplementsQuota`. `LimiterInv` says the bucket is the ledger of its minute and later
  minutes are uncharged; that is why a late caller, whose minute is over, is counted in
  the bucket it finds, and why the comparison it makes is with what that minute was
  charged. `RequestsBounded` and `TokensBounded` draw from the refinement what an operator
  relies on: with limits of at most `n` no minute is charged more than `n`. They assume
  that every caller has such a limit: a call limited only in the other quantity is counted
  but not held back, and one with no limit at all is not even counted. Each goes by `StepCharges`: a step leaves a window alone or charges it one call
  that fits.
- **Routing** (`RoutingAssumption`): `TypeOK`, `RoutedAsPublished`,
  `UnavailableForCause`, `RulesObeyed`, `AdmittedAsConfigured`, `StickyMovesForCause`.
  The properties look at a request as it is sent or refused, several steps and perhaps
  several snapshots after the decisions were taken. `RoutingInv` therefore says what a
  request relies on at each stage: its key, tenant, verdict, view and provider are each
  those of a world in `seen`. Worlds are only added to `seen`, so a decision once
  explained stays explained (`SoundStable`); a request about to bind keeps the evidence
  against the binding it replaces until someone else binds the session. `GreatestElement`
  and `LeastElement` settle the `CHOOSE` in the walk of the rules and in the draw.
  `PickIsProportional` is about the draw alone: `SumsExist` shows that the recursive
  function of the summed weights exists, `AccGrows` that it grows with every item,
  `PickIsBetweenSums` that the draws of an item are those between two neighbouring sums, so
  there are as many as its weight says. `DrawAlwaysDecides` adds that for a request with a
  candidate the range of the draw is not empty and the loop returns before it ends.
- **AdminStore** (`AdminAssumption`): all its checked properties. `AdminInv` says that a
  request under way remembers what its credential stands for *now* (`Current`), that one
  about to make its change remembers a role that allows it (`Admitted`), and that one
  about to write a token has read an account that is still there (`LoginsSound`). What is
  remembered is never forgotten while the request runs, so a role that was asked for
  before a demotion still explains the change after it. `StandingIsLookup` makes
  `adminRole` and `adminActor` two halves of one lookup; `OwnChangeSound`,
  `CreateByNameSound` and `LoginSound` say what each statement leaves alone of every
  account. `NoEntryWithoutChange` is inductive over `AdminInv`: `AuditingMoves` gives the
  three ways a step moves the set of requests about to audit.
- **SnapshotReload** (no assumption needed): `TypeOK`, `PublishedIsRecent`,
  `NeverOnlySecondHalf`. `ReloadInv` says of every goroutine, at any point of its reads,
  that what it has read of a table is between the table as it was at the call and the
  table as it is (`ReadsSound`), and that once it has read the second of two tables
  written together, a new first half there comes with a new second half
  (`HalvesSound`). `FirstIsReadFirst` is where the order of the reads enters: with the
  tables read by name, as in the run's mutant, it is false. Three more theorems are the
  safety half of `Converges`, with no fairness and for any number of goroutines. `Stale`
  is who holds older content than the store. While nothing is written it only shrinks, and
  a publication that departs from the store takes its goroutine out of it
  (`DeparturesRunOut`), so there are at most as many departures as stale reloads; without
  any, a snapshot that is the store stays it (`SettledStays`); and a reload called after
  the last commit publishes the store (`QuietReloadPublishesStore`). What TLC adds is that
  the ticker does come round.
- **RedisLimiter** (`RedisAssumption`): `TypeOK`, `NothingElseCounts`, `ImplementsQuota`.
  `Deadline(m)` is when nothing can be charged to minute `m` any more. `LimiterInv` says
  that until then its counters live and hold at least what was granted
  (`CounterCovers`). `CallMeetsDeadline` is the arithmetic behind the script's 65
  seconds: whoever counts in a minute read a clock in it, so what it writes expires no
  earlier than the deadline, because `Minute + CallTimeout + MaxSkew <= TTL`; and an
  answer in time comes before the deadline. After it the counters may vanish and be
  counted up again by late runs, which is why the invariant stops there.
  `RequestsBounded` and `TokensBounded` are those of the in-memory limiter, over all
  gateways, and for what was granted: a run nobody heard of may still be counted on top.
- **Throttle** (`ThrottleAssumption`): `TypeOK`, `MultiplierAsWritten`,
  `ThrottledWithinLimit`. `ThrottleInv` says that the snapshot is what parsing made of the
  published rows and that each row was written by a handler, so its multiplier is
  positive. From there the proofs are about data. `OrderIsAlphabetical` compares the
  parsed minutes with the texts, digit by digit (`FromTheLeft`). The product is a fold over
  a set of rows, which TLA+ takes as any function on its subsets that satisfies the fold's
  equation: `UnfoldsExists` and `UnfoldsAgree` show that there is one, `SameProduct` that
  it depends on the multipliers only, `ProductBounds` that a product of shares of at most
  one is such a share.

`PTL` closes each temporal theorem from `Init => Inv` and `Inv /\ [Next]_vars => Inv'`.

Induction over data has no tactic here: the induction theorems of the library take an
operator as a parameter. Where a proof needs it (sums of weights, products over rows, the
`CHOOSE` of a first or last index) it argues by the smallest counterexample instead, which
`LeastElement` provides for numbers and `SmallestSubset` for finite sets.

Only model-checked: the liveness property `Converges`, which is out of TLAPS's reach like
all liveness under fairness. The properties of the four runs that expect a violation are
false and there is nothing to prove of them.

## 5. Not modelled, and why

- The JavaScript engine, gorm, go-redis, `net/http`: external; modelled by what the code
  relies on.
- Body formats of the compatibility endpoints, model rewriting, usage parsing, console:
  formats without state.
- Middleware, statistics, model list, usage summary: stateless or read-only.
- Price rules by prefix: `Billing` takes the resolved price.
- Passwords and request signatures of administrators: a login or a request that fails
  them changes nothing. The contents of tenants and prices in `AdminStore`.
- Two gateways that start on one empty database at the same time.
- The order of the limiters and the choice of a provider in one request, and what a
  refused request has used up by then: each is modelled, their composition is not.
- Loss of the Redis data set; memory growth of the bucket and sticky maps.
- Time zone changes and `float64` rounding in schedules.

## 6. Plan

Done in this order, the behaviour that matters most first: `KeyPool`, `Billing`,
`SnapshotReload`, the limiters, `Routing`, `Throttle`, `AdminStore`, and the proofs of
each. Next: the composition of the limiters and the choice of a provider in one request,
that is, what a request that is refused late has used up by then (`server.go:363`).
