# Nous in TLA+

Nous extracts commitments from text with a language model, scores at every tick
how likely each is to be missed, and suggests interventions that people (or
Praxis) then accept, reject or execute. It is one Go process: a background
worker, an HTTP gateway and a gRPC service share one store and three adapters to
the sibling services Mnemos (memory), Chronos (temporal signals) and Praxis
(actions).

This directory holds TLA+ models of that process, TLC configurations that check
them on small instances, and proofs (TLAPS) of the most important properties for
every value of the constants. `PROJECT.json` lists the components, the runs, the
mutants that show each property can fail, the source lines of each definition,
the hazards the properties are for, the findings and the theorems.

Run a model with `tlc -workers 2 -config X.cfg M`, where M is the run's module in
`PROJECT.json` (an `MC` module where the instance needs definitions, otherwise
the component's own: `Adapters`, `CircuitBreaker`, `Process`), and check a
proof with `tlapm XProofs.tla`.

## 1. Inventory

| Component (source) | State | Operations | What is hard | What makes it correct |
|---|---|---|---|---|
| Circuit breaker (`internal/circuit`) | state, failures, nextTry, halfOpenRequests | `Call` | the lock is dropped three times inside one call; nextTry is read without it; late results | timeout and half-open budget hold; it recovers |
| Rate limiters (`internal/transport/http/ratelimit*.go`) | one bucket per key | `Allow`, `Cleanup` | fractions of tokens, deletion of buckets | the rate bound over every window; no unjustified refusal |
| Interventions (`internal/domain/intervention.go`, both transports) | rows with status and resolved_at | save, get, resolve | read-modify-write by concurrent handlers | the status lifecycle |
| Risk and intervention engines (`internal/risk`, `internal/intervention`) | none | score, decide | clamping, boundaries of windows and thresholds | scores in range; overdue outweighs due soon |
| Evaluation pipeline (`internal/pipeline/evaluate.go`) | commitments, decisions, interventions tables | `Evaluate` by worker, HTTP, gRPC | overlapping runs, one clock reading per run, failures of single store calls, cancellation | every score and intervention can be explained; no row skipped; overdue rows noticed |
| Background worker (`internal/worker`) | cancel, WaitGroup, ticker | `Start`, `Stop`, loop | Start and Stop from several goroutines, a tick pending at cancellation | after Stop nothing runs; Stop returns |
| Extraction pipeline (`internal/pipeline/extract.go`) | commitments, decisions | `Extract` | partial failure, a swallowed error, counters | the audit trail adds up and covers the rows |
| Domain lifecycles (`internal/domain`) | status of commitment, task, goal, plan, assignment | `New`, `Transition` | terminal states, stale writers | only a stale writer brings a row back onto the worklist |
| Stores (`internal/store/{memory,sqlite,postgres}`) | five tables each | `Save`, `Get`, the lists, `UpdateRisk`, migrations | three backends meant to be interchangeable: upserts, NULLs, orders, limits, JSON columns; restart | same answers; repeatable migrations |
| HTTP gateway and gRPC service (`internal/transport`) | none of their own beside the limiters | handlers, middleware | the order of authentication and two limiters | the bounds hold per address and per owner |
| Authentication (`internal/auth`, middleware) | active and previous key | `Issue`, `Verify`, `RotateNow`, `Run` | rotation late, failed, or racing verification | live tokens verify; old keys are retired |
| Adapters (`internal/adapters`) | a breaker and a health each | remote calls, `Health` | which errors count as an outage; health written after the breaker's lock is gone | refusals are no outage |
| Coordination kernels (`internal/coordination`) | none | `Execute` | a lost answer and a retry | the action is performed once |
| LLM extraction (`internal/llm`) | A/B router's last variant | extract, parse, route | concurrent routing, partial output | |
| Process (`cmd/nous`) | context, store, servers, worker | start, serve, shut down | each start step may fail; the order of stops; handlers at work | nothing of the worker's uses a closed store; a signal ends the process unless an RPC never returns |
| Configuration, validation rules, observability, MCP | – | – | – | – |

Interaction: the transports and the worker call the pipelines; the pipelines
call the engines, the repositories and, through the adapters and their breakers,
the three services. The repositories are the only state shared between
goroutines apart from breakers, limiters, the rotator and the A/B router.

## 2. Plan

Built in this order; all of it but the last item, and what the one before it leaves, is here.

1. `CircuitBreaker`, `RateLimiter`: the shared concurrent objects.
2. `DomainStatus`, `InterventionLifecycle` (abstract), `Interventions` (detailed).
3. `Risk`, `Evaluator`: engines and pipeline over the shared tables.
4. `Worker`.
5. `Migrations`: opening a database across crashes and restarts.
6. `Adapters`: composes the breaker with the three clients, their reported
   health and the kernels that execute an intervention through Praxis.
7. `Sql`, `MemoryStore`, `SqliteStore`, `PostgresStore`, and `Stores`, which
   composes them with the resolve handlers of `Interventions`, the extraction
   pipeline, the evaluator's writes and clients that move the stored aggregates,
   all at work on the same tables.
8. `Process`: composes the worker with start-up, the servers and shutdown.
9. `Gateway`: composes two rate limiters with authentication and key rotation.
10. Theorems: every safety property that a run checks is proved (section 5).
    Still worth proving: monotonicity of the risk score in time, and that the
    evaluator's writes in `Stores` are those of `Evaluator`.
11. Models still worth writing: the A/B router and the parser of model output.

## 3. Modules

| Module | Models | Constants |
|---|---|---|
| `CircuitBreaker` | `Breaker.Call`, one action per critical section or unlocked read | Callers, MaxFailures, Timeout, MaxRequests |
| `Adapters` (extends `CircuitBreaker`) | the clients of Mnemos, Chronos and Praxis over a breaker, their errors and health; `Execute` of both kernels, retried at will | SuggestedKey |
| `RateLimiter` | `Allow`, `Cleanup`, with an observer's window | Keys, Capacity, Cost, Rate, MaxAge |
| `Gateway` (extends `RateLimiter`, and instantiates it for owners) | the way of a request through authentication and both limiters; `Issue`, `Verify`, `RotateNow`, the rotator's loop | OwnerKeys, Period, Lag, Lifetimes, ... |
| `DomainStatus` | `CanTransitionTo` of interventions, commitments, goals and tasks | – |
| `InterventionLifecycle` | what a row's status may do (abstract) | Ivs |
| `Interventions` | the table and the resolve handlers | Ivs, Handlers, Targets |
| `Sql` | what INSERT, upsert, foreign key, WHERE, ORDER BY and LIMIT mean | – |
| `MemoryStore`, `SqliteStore`, `PostgresStore` | every method of the five repositories of one backend, as operators on a database value | Nil |
| `Stores` (extends `Interventions`) | the three backends under one history of calls; `Extract`; the clients of commitments, goals and tasks | Cs, Goals, Tasks, Decs, Movers, ... |
| `Risk` | both engines, as operators | weights and thresholds |
| `Evaluator` (extends `Risk`) | `Evaluate` by any number of overlapping runs | Commitments, Runs, Limits, Cancellable, ... |
| `Worker` | `Start`, `Stop`, `loop` | Callers, Visits |
| `Process` (extends `Worker`) | `run` of `main.go` with its deferred calls, both servers and their handlers | Main, MaxReqs |
| `Migrations` | `Open` and `runMigrations` of both SQL stores, by processes that crash and restart | Procs, Backends, Last, Repeatable |
| `MC*` | TLC instances: symmetry sets, limits, quotas | |
| `*Proofs` | theorems; `AdaptersProofs` holds those of `CircuitBreaker` too, `ProcessProofs` those of `Worker` | |

Abstractions. In the breaker time is relative (nextTry counts the ticks left), so
the clock needs no bound. In the limiter a token is `Cost` units and `Rate` units
flow in per tick: the float64 arithmetic is taken to be exact. In `Risk` scores
are ten-thousandths and confidences hundredths, which makes the product exact; at
the boundaries the default weights meet (0.3 + 0.2 and 0.6 + 0.1 + 0.15) the
floating-point sums equal the exact ones. In
`Evaluator` the tables hold rows by content: two interventions alike in
commitment, type and time are one. A commitment's due time and confidence never
change after `Extract` saved it (no code of the repository does), so the row
stands for a run's copy; every commitment is pending, hence active. Fetching
memories has no effect on the score; the Mnemos mirror of a decision and the
Praxis dry run have none on the tables. In `Migrations` a file is a number and has
one property, whether it may run on a schema that has it already (`Repeatable`, read
off the SQL in `MCMigrations`); an error of the connection ends the start like a
crash does. 

In `Adapters` the service is reachable or not and accepts or refuses what it is
asked; which of that the breaker sees as a failure (its `up`) is `Fails`, different
for each adapter. A behaviour follows one adapter; the goroutines call one and the
same intervention's execution as often as they like, through either kernel. The
kernels are exported and tested, but `main` wires neither; axi-go and Praxis are
external, and Praxis is taken to honour the idempotency key it is sent.
`FailureCap` ends the counting of failures at the threshold, past which the code
does not tell them apart. A request that is cancelled or runs into its timeout
(`praxis/grpc.go:222-229`) is a moment of unreachability, and the path of an answer
that cannot be decoded is left out. The late "degraded" that a goroutine may write
over another's "healthy" (`praxis/grpc.go:231`) is in the model (`AfterCall` is a step
of its own) and has no property: it stays until the next call succeeds, and nothing
in the program promises a next call.

The history variable `late` of `CircuitBreaker` remembers that a success was reported
to the open breaker: with it `SomeoneDecides` says for every threshold and budget what
can leave a half-open breaker unattended. No breaker the repository builds has a
budget that covers its threshold (5 and 1 for Mnemos and Chronos, 3 and 0 for
Praxis), so the exception is one they all live with.

In `Gateway` an owner's key stands for what `ratelimit_owner.go` makes of a
request: the owner its query, header or body names, or its address. `MaxPassed` bounds the
requests between the two limiters and `MaxAsks` those made while keys rotate,
since keys and limiters meet only in `AskIP`. `main` never calls `Cleanup`; the model
does, whenever it likes. `Issue` models the documented use, one `NewIssuer(Snapshot())`
per signing (`rotator.go:103`, `rotator_test.go:56`); an `Issuer_` that is kept signs
with the `KeySet` it was built with (`jwt.go:45-53`), and after two rotations nothing
would verify its tokens. `main` wires no issuer.

In `Stores` one call goes to three databases, so that their answers can be
compared at every moment; an answer with ties is the set of the orders an engine
may choose. A unit of time is at least the microsecond PostgreSQL keeps. The
evaluator's writes come in any order here (their order is `Evaluator`'s), at the clock
of any run so far and for any stored commitment: a run may have listed it as active
before a client completed it. This allows a little more than the code, which lists
a commitment before it leaves the worklist and not after.

Everybody works on the same tables in one behaviour: `Extract`, the evaluator, the
resolve handlers and `Movers`, the clients of commitments, goals and tasks. A mover
takes a row from `Get` (`Read`), and later hands `Save` the row `Transition` made of it
or gives up, when `Transition` refuses or `Save` fails. The repositories make each call
atomic and not the pair, so a mover saves stale copies as a resolve handler does.
`MaxCalls` bounds the goroutines between a Get and its Save at a time, and the
extractions with them. No production code calls `Transition` on a commitment, a goal
or a task yet: movers use the domain API the way the ports' comments and the tests do.

A decision's inputs and outcome are a Go map when they are saved (`form` is "go").
Memory clones the map and hands the same values out again; the SQL stores keep JSON
and scan it into what JSON decodes to, numbers as float64 and slices as []any ("any";
`store_test.go:200`: "JSON backends decode numbers as float64; memory keeps the
original int"). The three are therefore not interchangeable in the sense of ADR 003
("three storage backends with identical behavior") for whoever reads those maps in Go.
`SameAnswers` demands that the two SQL stores agree as they are and that memory agrees
with them after `decisionToJSON`, the response of `GET /v1/decisions`. The gRPC
service does not pass that: `decisionToProto` prints the values with `fmt`, so that
there a list of risk factors looks different from a memory store and from a SQL one.
The memory store keeps nil and empty slices as they are where JSON columns do too;
the transports show no difference.

In `Process` goroutines other than main's may call the worker as well, which is
more than the program does. Handlers of both servers may take for ever: a Mnemos or
Chronos call carries no deadline. What a handler does is in the other modules.

History variables (marked so where they
are declared) only record; no guard reads them.

Mutants are operators with the name of the mutated definition and a suffix, kept
above the definition they mutate.

## 4. Runs

| Run | Bounds | Shows |
|---|---|---|
| adapters | 2 callers, threshold 5, budget 1 (`DefaultConfig`), timeout 2 | half-open budget, timeout, threshold and order of states in every interleaving of two callers; refusals never open Praxis's breaker; the action is performed once whatever is lost and retried; a spent budget has a probe in flight unless a success came late |
| breaker_wedge | 2 callers, threshold 2, budget 1 | *violation*: half-open for ever |
| gateway | 2 addresses, 1 owner, bursts 2 and 1, half a token per tick, 6 ticks; period 2, lag 1, lifetimes 1 and 7 | window bound per address and per owner, justified refusals, honest Retry-After; short tokens verify across late and failed rotations, long ones are retired |
| interventions_concurrent | 1 row, 3 handlers, 2 times | executed only after accepted; terminal rows change only through an old read |
| interventions_lost_update | 2 handlers | *violation*: a rejected row becomes accepted |
| stores | 2 commitments, interventions and decisions, a goal and a task, 2 movers and 1 handler, 2 calls at a time, targets accepted, executed and an unknown one, 2 times, 3 writes | the three backends answer alike; what the resolve handlers save is what each shows; serial refinement of `InterventionLifecycle`; the extraction audit adds up; only a stale copy returns a commitment to the worklist |
| evaluator_concurrent | 2 commitments, worker and request once each, limits 0 and 1 | scores and interventions explained, no row skipped |
| evaluator_liveness | 1 commitment, endless worker, one request | overdue is noticed and stays noticed |
| process | main and 2 other callers, 2 commitments, 1 handler per server | Stop is final and returns; at most one late write; the worker is gone before the store; a graceful shutdown leaves no handler; a signal ends the process or leaves it waiting for an RPC that never returns |
| process_drain | main alone, 1 commitment, 1 handler per server | *violation*: `GracefulStop` has no bound |
| migrations | 3 processes, 2 files, both databases | whoever gets a connection finds the whole schema; PostgreSQL replays no migration, refuses no start, and nobody waits for ever |
| sqlite_restart | 1 process, SQLite | *violation*: the second start of a database is refused |

Why the bounds are enough. Two callers let one trip and one probe, or one report
late what the other's probe has overtaken; a third, which can pass the deadline
late beside both, is covered by the theorems, which hold for any number. Six ticks
let a bucket empty, refill, idle past `MaxAge` and be used again, and let three
rotations happen; with a period of 2 and a lag of 1 a token of lifetime 1 is as
long as one may be that a rotation must not invalidate, and a token of lifetime 7
outlives two. Three handlers let two overwrite a third's
result. Three writes are the least that put two rows in one table and change one of
them, or save a commitment, its intervention and a second row; two movers with the
same copy, one of which completes the commitment, are what reopens it (with the
exception taken out of `OffTheWorklist` TLC finds that). The targets leave out
"rejected", "expired" and "pending", which the interventions runs have. Two times tell
sorted rows from tied ones. Two overlapping runs are enough for a stale write; two times, one before
and one after the due time, are what the score distinguishes; two commitments
make the order and a limit of one matter. Two commitments per evaluation are the
least that could show a second late write; one handler on each server is what
shutdown can find at work or not. Three processes let one hold the
migration lock, one wait and one crash; two files, the number the repository has,
let a crash fall between them. The process run does not check for deadlock: a
process that exited stops.

### Findings

The four *violation* runs state what a comment or a document says and show the
code doing something else; `PROJECT.json` quotes each line. With two concurrent
callers and the default budget the breaker can stay half-open, refusing all calls,
until the process restarts (a success that was slow resets the failure count while
the breaker is open, the single probe then fails, counts as the first failure, and
the budget is never renewed). A SQLite database file can be opened once only, because
every start runs `002_decision_weights.sql` again and its `ALTER TABLE ... ADD COLUMN`
fails on the column that is there (the tests open `:memory:`, which is new each time).
A resolve handler overwrites another's result. And the drain of ten seconds that
`docs/DEPLOYMENT.md:38` promises for gRPC and HTTP is HTTP's alone: `GracefulStop`
comes first and waits for every RPC, without a bound.

One disagreement is a theorem instead of a run. `Config.MaxRequests` says "(0 = 1)"
(`breaker.go:30`), `New` gives it no default, and the Praxis adapter leaves it 0
(`praxis/grpc.go:89`). `ZeroBudgetRefusesForEver`: such a breaker, half-open with no
call in flight, stays so whatever happens.

Met while modelling, and not given a run of their own:

* A token without a key id is rejected until the first rotation, because
  `case keys.PreviousKID` with its empty id comes before `case ""`
  (`internal/auth/jwt.go:141-150`), whose comment says such tokens "are accepted as
  a convenience". `TokensLive` carries the exception.
* The previous key is kept until the next rotation, not for `Overlap`
  (`internal/auth/rotator.go:28-31`): the field is stored and never read.
  `RotationRetires` states the two periods the code does give. With a lifetime equal
  to the period, a late tick invalidates a token that is still live.
* `fetchSignals` never sets a scope (`internal/pipeline/evaluate.go`), so that
  `GetSignals` fails inside the breaker and Chronos is reported unhealthy although it
  was not asked.
* A server error, and an HTTP server that cannot be set up, return from `run` with the
  other server still serving while the store is closed (`abrupt` in `Process`).
* The address limiter also limits `/v1/health` and `/metrics`; only the owner limiter
  exempts open paths (`ratelimit_owner.go`).
* `Dropped` also counts drafts whose `Save` failed, and a decision that cannot be saved is
  left out without an error (`internal/pipeline/extract.go`): `silent` in `Stores`.
* Validation rules are evaluated for `Extract` over HTTP and not over gRPC; HTTP answers
  404 to any error of `Get`.

### Fairness

`CircuitBreaker!FairSpec`: callers keep calling and are scheduled, `fn` returns, time
passes; nothing is assumed of the remote service. That is more than the program
guarantees (Mnemos and Chronos calls have no deadline, Praxis is asked only about
automations), and only the violated `AutoReset` is checked under it: even with such
callers the breaker does not recover. `AdaptersSpec` has no fairness.

`Evaluator!FairSpec`: goroutines are scheduled and store
calls return (weak fairness of every step); the worker's ticker starts runs; a
store call the worker repeats for ever succeeds at times (strong fairness of a
successful `FindActive` and of a successful `UpdateRisk` per commitment), without
which a store that always fails would refute anything. The worker's run is not
cancelled in that run: cancellation is shutdown. `Worker!Fairness`: scheduling,
and strong fairness of the context branch of `select`, because Go chooses among
ready branches at random. `TickerFires` and the callers' next calls are not
assumed. `ProcessSpec` adds that `run` takes the step it can take and that `Shutdown`
returns at its deadline; nothing is assumed of handlers, of the arrival of signals or
of requests. `ShutdownEnds` therefore has two ends: the process exits, or it waits in
`GracefulStop` for an RPC that never returns, which `DrainIsBounded` shows to happen.
`Gateway` and `Stores`
state safety only. `Migrations!FairSpec`: processes are scheduled, the database answers, and
PostgreSQL grants the advisory lock in the order it was asked for (strong fairness
of `Lock`); nobody has to start, and anybody may crash.

`OverdueNoticed` thus assumes that the calls a run makes to Mnemos and Chronos return,
although they carry no deadline; one that hangs stops the worker. Its single
commitment says nothing about a worker whose `Limit` cuts the list.

`Quota` bounds how often a goroutine runs `Evaluate`; `Rest` is the state in
which nobody does.

## 5. Proofs

All theorems hold for every value of the constants allowed by the named
assumptions (`BreakerConfig`, `CallersFinite`, `SuggestedKeyIsKey`, `LimiterConfig`,
`GatewayConfig`, `ResolveInputs`, `StoreInputs`, `EngineConfig`, `EvaluatorConfig`,
`WorkerConfig`, `ProcessConfig`, `MigrationConfig`), which TLC evaluates in the runs.
Seven theorems have a hypothesis besides: a `Cleanup` that waits for a full
refill (`SafeMaxAge`, `OwnerSafeMaxAge`), a token a second (`TokenASecond`: the
constant of the `Retry-After` header promises no less), a single handler, or, for
`ZeroBudgetRefusesForEver`, the budget of 0 it is about. The instances of the runs that
check these properties satisfy them. The breaker's theorems hold for 5 and 1 and for 3
and 0 alike.

* **Circuit breaker.** `TypeOK` is inductive and so is the threshold property.
  `NoCallInsideTimeout` needs `FreshDeadline`: what a caller that entered after
  the last trip knows about the deadline at each of its steps (the value it
  loaded is at least the ticks left). `ProbeBudget` and `SomeoneDecides` rest on
  `Episode`, which relates the budget spent to the calls still unreported: they
  are equal unless a failure was counted, and then the counted failures make up
  the difference and are still below the threshold. `SomeoneDecides` also needs
  `Tripped`: since a trip the count has stood at the threshold, unless `late` says that
  a success cleared it, so that without one the first failing probe reopens the
  breaker.
* **Adapters.** `AdaptersImplementBreaker`: whatever a client, a kernel or a service
  does is a step of the breaker or none, which carries the breaker's theorems into the
  three clients (`AdaptersKeepBreaker`). `PerformedOnce` needs `Performed`: the action
  was performed under the kernels' key only, and a reply "done" comes with it; the
  kernels set a key whenever the suggestion has none (`SameKey`), which is why a retry
  does not act twice. `RefusalIsNoOutage` needs `Calm`: on a service that was always
  reachable nothing was counted and nobody is on the way to report an error.
* **Rate limiter.** `WindowBound` is not inductive: the invariant adds what is
  still in the bucket (grants plus level are within burst plus inflow). It
  assumes that `Cleanup` waits until an idle bucket is full again.
  `RefusalsJustified` rests on the balance of the bucket since it was last full.
  `RetryAfterHonest` needs no more than the range of a bucket. The products of
  constants with time are kept behind lemmas (`Inflow`, `Price`, `InflowSplit`).
* **Gateway.** It implements `RateLimiter` twice: for addresses, which inherit its
  theorems (`GatewayKeepsLimits`), and for owners (`GatewayImplementsOwner`), whose
  requests have passed the first limiter before. A theorem cannot be cited through
  an INSTANCE, so `OwnerRateIsBounded` repeats the argument of `RateIsBounded` for
  the owners' buckets. `TokensLive` and `RotationRetires` rest on `Rotation`: the two
  keys are the last two made, one a tick at most (`KeyBook`), the token was signed with
  a key of the rotator (`Signed`), and how often that key has been rotated since says
  how long ago the token was issued at least (`Aged`) and, unless a rotation failed,
  at most (`Recent`).
* **Interventions.** `ExecutedWasAccepted` needs `Traceable`: every copy a
  handler holds has a status its row once had, so an executed copy was accepted.
  `StickyOnceQuiet` needs `OneEdge`: what a
  handler saves is one legal edge from what it read.
  `SerialImplementsLifecycle` proves the refinement for one handler, from
  `InStep`: the copy of the only handler agrees with the row.
* **Stores.** `Mirror` relates a memory database to a SQL one: the same keys, each row
  in the encoding of its table, no dangling reference. Encoding and scanning back is
  the identity (`*RoundTrip`), for a decision up to the form of its inputs and outcome, the two SQL stores are the same functions (`Postgres*`),
  and every Save keeps `Mirror` (`Saves*`) provided that the columns outside its SET
  clause do not change and its references exist. That this is so when a resolve
  handler saves a copy read long ago is the hard part of the inductive invariant
  `StoresInv` (`Holding`): the columns an upsert leaves alone are never written again,
  so even a stale copy has them right. `SameAnswers` then follows from `Mirror` list by
  list, and decision by decision from `DecisionsAsJSON` (what each store hands out becomes
  one and the same JSON): both stores select the same keys, and Go's comparison is the lexicographic
  order of the ORDER BY (`WorklistOrder` for the four columns of `FindActive`); the
  answer is the same set of orders, ties and limits included. `StoresShowTheRow` is the part of
  `StoresInv` about the table of `Interventions`, whose theorems carry over by
  `StoresImplementTable`; with one handler so does the lifecycle. `AuditAddsUp` needs
  `Extracting` (drafts still to look at, saved and dropped add up to those
  considered) and `Booked` (what no decision tells of is in the running call or in
  `silent`). Movers hold copies too: `Moving` says that each is a row (`Carried`) whose
  columns outside the SET clause are still those of the table, which holds because a
  table only grows (`Grows`). `OffTheWorklist` (`OnlyStaleCopiesReopen`) follows: a row
  that leaves a terminal status was saved by a mover, `Transition` made it active from
  the status of the mover's copy, and so the copy was active; the evaluator, whose
  UPDATE names the risk columns only, and `Extract`, which saves under new ids, are not
  among those who can.
* **Evaluator.** `ScoreExplained` follows from two facts about single steps: a
  decision about to be recorded stays as it is until it is recorded or lost, and
  a row changes only together with such a decision. `InterventionExplained` needs
  `Recorded` (a run asks the policy only after its decision was recorded or
  lost); `NoRowSkipped` needs `Covered` (each listed commitment is still to be
  visited or has left a trace).
* **Worker.** `Counted` ties the WaitGroup to the loop and the loop to the one
  Start; `Late` says a late write ends the visit it belongs to.
* **Process.** `ProcessImplementsWorker`: every step of the process is a step of the
  worker or none, so that the worker's theorems hold in it. `StoreOutlivesWorker`
  needs `Deferred`, which says at each place of `run` what is known of the worker: no
  loop before `Start`, a started worker from then on (so that main's `Stop` has
  something to cancel and to wait for), and at the last deferred calls a `Stop` that
  returned or no loop ever. `Drained` needs `Drains`, the same for the servers.
* **Migrations.** `SchemaComplete`, `NoReplay` and `PostgresStarts` follow from
  `Bookkept`: on PostgreSQL the bookkeeping table equals the schema, whoever is
  between `Check` and `Apply` holds the lock (so what it read is still true) and
  has only committed files behind it. The proof covers any number of files,
  repeatable or not.

Every safety invariant and action property of a passing run is proved. Model-checked
only: the liveness properties (`OverdueNoticed`, `StopReturns`,
`ShutdownEnds`, `OpenReturns`), since the prover does not handle fairness. The violated
properties are of course not provable. The proofs take time, kept within the bounds
of the models (`MaxTime`, `MaxWrites`, `MaxDrafts`), for any value of those bounds.

## 6. Not modelled

* Plans and assignments: a transition relation each, with no store, handler or
  pipeline that applies it.
* The read-only handlers of both transports: request parsing, the mapping of rows
  to messages and of errors to codes. The reads they make are in `Stores`.
* The language-model providers (HTTP clients of external services), the parser of
  their output and the A/B router. To the pipeline they are a source of drafts. The
  router's `LastVariant` is written and read by concurrent calls
  (`internal/llm/ab_prompt.go:94-97`); only tests read it.
* Generated protobuf code, CEL evaluation, metrics, logging and tracing,
  environment parsing and the MCP tool definitions carry no state whose
  interleaving or failure matters to the rest.
* Float rounding, the SQL engines, gRPC and `net/http` are taken as correct; a
  use of the store's pool after `Close` is an error of the driver and is not followed.
