# Verification of roq-cpp-samples

TLA+ models of the sample programs in this repository, the TLC runs that check
them, and TLAPS proofs of the results that matter most. The samples are small
event-driven programs against a client library (`roq-client`) that is not part
of the repository; they look simple and are hard to test, because what makes
them right or wrong is the order in which acks, order updates, fills, timers,
downloads and disconnects arrive, from one gateway or from two.

Paths below are relative to `src/roq/` of the repository unless they start with
`src/`.

## 1. The system

| component | state | operations | interacts through | what makes it correct |
|---|---|---|---|---|
| `samples/strategy-1` | two `Leg`s (`state_`, `price_`), the request and the retry timer each has under way | market handlers, order updates, failure and success callbacks, retry timers | `strategy::Bridge`, `strategy::Order` (external), a shared rate limiter | one order per leg at the wanted price; a fill reprices the other |
| `samples/maker` | `Strategy`, two `Quote`s, `Shared` (order ids, position, rate limit history) | every handler of `client::Handler` that changes state | `client::Dispatcher` | one order per side, position, request rate |
| `samples/polling` | one state, a deadline, an order id | `refresh` in the dispatch loop, event handlers, signals | `client::Poller` | one order at a time, nothing left behind, it ends |
| `samples/example-3` | `Instrument` (cached market state, position), `Model` with two averages, the working order | event handlers, sampling on a timer | `client::Dispatcher` | readiness and position are current, no signal before warm-up |
| `samples/algo-proto`, `algo/strategies`, `algo/framework` | routes, sources, order ids; readiness per instrument; an order manager | configuration, construction, routing, readiness, target price | `client::Poller`, several gateways | one order, at its gateway, at the last target |
| `samples/io-context` | sessions, marks for removal, subscribed symbols | accept, request, text, disconnect, garbage collection, publishing | `io::Context`, the web server | a session outlives its connection and not for ever |
| `samples/rest` | connection state, time of the next request | timer, callbacks of the web client | `web::rest::Client` | requests keep their distance |
| `samples/example-5` | a thread and a flag | start, stop and join, enqueue | a second thread | stop returns |
| `samples/example-2` | two instrument caches, each with an average | event handlers | two gateways | averages do not mix connections |
| `samples/example-7` | matrix, version | top of book, download | `client::Dispatcher`, sends that fail | the matrix is the history |
| `samples/example-8` | countdown, time of the next request | prices, download | `client::Dispatcher` | orders keep their distance and number |
| `samples/minimal` | `ready_`, `max_order_id_` | connection and download | several gateways | ready means safe to send |
| `samples/depth` | two books | book updates, reconnect | | the small book is the top of the large one |
| `samples/import`, `event-log`, `vwap` | sequence number and file; reader; books | write, tail, read once | files, separate processes | the stream keeps what its settings say; the reader misses nothing |
| `example-1`, `-4`, `-6`, `-9`, `bridge`, `metrics`, `republish`, `python` | none that a decision depends on | log, count, hand on | | not modelled |

All handlers of a sample run on one thread and to completion, so an action of a
model is a whole handler. What is hard:

* **ordering**: the answer to a request and the updates of the order are
  different events; a fill can be seen before the answer to a modify or cancel
  that it crossed;
* **loss**: a disconnect loses the requests and events under way, a download
  follows the reconnect, and the gateway cancels the orders of the client;
* **retries and timeouts**: rate limits are answered by delayed retries, and an
  answer may come after its request was given up;
* **stale state**: flags, ids and positions cached across all of this;
* **several streams**: gateways whose events interleave, a second thread, a
  process that reads a file another one still writes.

`PROJECT.json` lists the hazards at the lines where they bite, with the
properties that would catch them.

### What is assumed of the gateway

It is external, and modelled from how the samples use it:

* requests are processed in the order they were sent, each is answered once;
* order updates of an order arrive in order. Whether an order update may
  overtake an ack is a constant (`Reordered`), because the comments in the code
  disagree about it (`maker/main.cpp:25`, `strategy-1/strategy.cpp:293`);
* a disconnect loses everything under way in both directions, and the gateway
  cancels the orders of the client, as each `Config::dispatch` asks it to
  (`OrderCancelPolicy::MANAGED_ORDERS`, `BY_ACCOUNT`);
* a send without a connection throws `NotConnected`;
* after a connect come two downloads, each from its `DownloadBegin` to its
  `DownloadEnd`: the market's, without an account, and the account's, with the orders in
  any order, the position and the highest order id. Whether the account's lies inside
  the market's or follows it is the constant `AccountInside` of `Example3`, the one
  sample whose correctness depends on it; the repository does not say (the log in
  `samples/example-1/README.md` shows the market's only).

## 2. The modules

| module | models | proofs |
|---|---|---|
| `Strategy1` | `strategy-1/strategy.cpp`, `controller.cpp` | `Strategy1Proofs`, `Strategy1EndProofs` |
| `RateLimit` | `Shared::is_blocked`, `Shared::rate_limit` of `maker/main.cpp` | `RateLimitProofs` |
| `Maker` | `Quote` and `Strategy` of `maker/main.cpp` | `MakerProofs` |
| `Polling` | `polling/strategy.cpp` | `PollingProofs` |
| `Example3Model` | `example-3/model.cpp`, `ema.cpp` (operators, no state) | |
| `Example3` | `example-3/strategy.cpp`, `instrument.cpp`; extends `Example3Model` | `Example3Proofs` |
| `AlgoProto` | `algo-proto/bridge.cpp`, `route.hpp`, `config.cpp`, `algo/strategies`, `algo/framework` | `AlgoProtoProofs` |
| `OrderSlot` | abstract specification that `Maker`, `Polling`, `Example3` and `AlgoProto` implement | |
| `Sessions` | `io-context/controller.cpp`, `session.cpp` | `SamplesProofs` |
| `RestClient` | `rest/controller.cpp` | `SamplesProofs` |
| `Producer` | `example-5/producer.cpp`, `strategy.cpp` | `SamplesProofs` |
| `Averages` | `example-2/instrument.cpp`, `strategy.cpp` | `SamplesProofs` |
| `DepthBook` | `depth/strategy.cpp` | `SamplesProofs` |
| `MatrixPublisher` | `example-7/strategy.cpp` | `SamplesProofs` |
| `Countdown` | `example-8/strategy.cpp` | `SamplesProofs` |
| `Minimal` | `minimal/main.cpp` | `SamplesProofs` |
| `EventStream` | `import/processor.cpp`, `event-log/processor.cpp`, `vwap/processor.cpp`, three processes over one log | `SamplesProofs` |

`MCx.tla` gives `x` its constants for TLC. `MCSamples` holds `RateLimit` and the nine
small samples: it extends the first, instantiates the others, and its variable
`program` says which one runs in a behaviour, so that one run checks them all
without multiplying their states. Definitions whose name ends in a
description of a mistake (`handle_retry_off_by_one`, `frees_slot_always`, ...) are
wrong variants of the definition that follows them; no specification uses them.
Each names a plausible bug that a property must be able to notice.

### Strategy1

`leg[l]` is the C++ object together with what it has handed out: `requests` not
yet processed and armed `timers`. A method is an operator that returns the set of
its outcomes, `[leg, halt]`; `halt` says that the process died (`log::fatal`, a
failed assert, undefined behaviour). The closures `handle_retry`, `handle_failure`
and `handle_success`, which the code writes twice, take the kind of the request as
a parameter. Whether the external rate limiter is ready is a free choice.
`handle_failure` uses `handle_retry` through a dangling reference: the model lets
it do what was meant or end the process.

Prices are multiplied by 3, so that the 1/3 retracement is an integer. `NDEBUG`
selects the debug or the release build. The actions `AddMarket`, `Ready`,
`MarketStatus`, `MarketData`, `OrderAck`, `OrderUpdate`, `Timer` and `Signal` are the
program; `Accept`, `Reject`, `Fill`, `Cancel`, `Disconnect` and `Connect` are the
gateway and the exchange.

### RateLimit

Time is an integer; `Send` is a call of `rate_limit` whose callback sends, `NotSent`
one that is refused or whose callback throws. `sent` remembers all requests and
`onEdge` whether one was sent exactly `MONITOR_PERIOD` after the oldest entry of a
full history. In that case the code goes wrong: `is_blocked` lets the request
through (`<`), the loop pops nothing (`<`), the history has `REQUEST_LIMIT + 1`
entries, and from then on the test `size == REQUEST_LIMIT` is false and nothing is
blocked until the history shrinks. The properties are stated up to that event.

### Maker

A handler of `Quote` is an operator on the quote record; `quote_timer` works on a
*world* of quotes, requests and ids, since one timer event drives both quotes and
both take ids from `max_order_id`. The verdict of the rate limiter is a free
choice. Prices are in quarters of a tick. Order 1 is left from an earlier
session. `Quote::State::MODIFY` is never entered by the code and is left out. A one-sided book
has no mid price (`NaN`). An order may trade in parts (`PartialFill`): the update says
that it is working still, and only an update that says `COMPLETED` is counted, with the
whole quantity. The gateway may reject a cancel because the order is done, which is
tolerated, or with another error, which is fatal.

### Polling

`due` stands for `now >= next_update_`. `Advance` is one step of `refresh` along the
table `advances`; `CreateOrder` and `CancelOrder` are the two states that also send.
An answer that comes after the timeout is still handled and takes the program
from `DONE` back to `WORKING`, as in the code.

### Example3Model and Example3

The model sees only comparisons of the weighted prices and their averages, so a
pair of prices is a pair of four levels, bid below ask; the first sample starts the averages and
later ones may move them anywhere, which includes every `ema_alpha`. The
instrument is a record of its flags and its position. The connection delivers a
queue of events: `Connected`, the market's download, the account's download
(`AccountDownload`: the orders in any order, the position, the highest order id), then
live updates. Both downloads call the same handlers, and the instrument ignores the
account's begin and end (`of_market`; the empty account of the source is written
"none"), the strategy takes the highest order id of either. Market data comes at any
time after the market's download was announced (`Announced`). Quantities are
cumulative, so partial fills matter. `exposure` is the true position of the account,
`Held` at first. The settings are `enable_trading` and no price inversion.

The position is taken only while the market's download is on
(`example-3/instrument.cpp:225`), so the code works only where the account's download
lies inside it. `AccountInside` says so openly: the properties and theorems that need
it name it, and `ReadyIsCurrent` and `TradesWarmedUp` do without.

### OrderSlot

What an exchange may expect of every program that places orders: per slot at most
one order that rests or whose create is still under way, and an id that no one
has used before. Nothing in it mentions states, flags or acks. In each mapping
`held[s]` is the set of resting orders and of creates under way of slot `s`, and
`used` are the ids up to the larger of the client's counter and the highest id a
gateway has seen; the ids of earlier sessions are among them. The slots are the
two sides in `Maker`; the others have one. The properties
`OneOrderPerSide`, `OneOrderAtATime`, `OneWorkingOrder` and `OneOrder` are `Slot!Spec`.

### AlgoProto

`Init` chooses a configuration file; `Parsed`, `create_routes`, `factory_create` and
`Created` are the constructors, which may refuse it. Each gateway has a cache
(`cache::Gateway`, external) and a queue of requests and of events. A market's
source is discovered from the first event about it (`intercept`), and readiness is
refreshed as in `Base`: per source, and only if a cache reports a change. The first
instrument and the second are on different gateways, which connect, download,
lose a stream and disconnect independently. `set_target` sends a create once and
modifies afterwards; the acks and updates of the order change nothing
(`order_manager_event`), as the two `XXX` comments in the code say. `UnsetTick` chooses
whether a tick size that never came is zero or NaN in the library's cache, which
the source does not show. Orders of earlier sessions, of this program or of another
one, may have used the ids up to any number, which leaves at least one for the
strategy.

### Sessions, RestClient, Producer

`Sessions`: `Timer` starts the io context and `Drained` ends it and collects garbage, so
what the web server calls happens between them; `conn[id]` is the connection of a
session, which may call it until it has told it `Disconnected`. `due` stands for
`now >= next_garbage_collection_`. A datagram that is too large is fatal in the send, an
error of the socket while the io context is drained (`SenderError`). `RestClient` has a
clock of its own; `pending` are the requests whose callback is still to come. In
`Producer` each shared access of the two threads is a step: `Test` of the flag,
`Enqueue`, `Wake`; `Stop` and `Join`.

### Averages, DepthBook, MatrixPublisher, Countdown, Minimal

`Averages` models a price by the connection it came from, and an average by the set
of connections of its samples; the sizes and the multiplier of the reference data may be
missing or zero. `DepthBook` models the library's book as quantities
per price and its depth update as the difference of two extracts. In
`MatrixPublisher` the rows start out `indeterminate`, since `data_` has no initializer, and
all symbols that match the setting (`Matched`) share the rows and the version.
`Countdown` keeps the receive times of the events. `Minimal` has several gateways;
`cancel_all_orders` is a request (`cancels`), and whether the gateway cancels the orders or
refuses (`GatewayCancelAll`, `refused`) the code does not look at.

### EventStream

`process` writes the five messages of `import`, each of which may fail; after the
file is closed an external tool appends them one by one to a log. `Test`, `Handle`,
`NoUpdate` and `Wake` are the two nested loops of `event-log`. `vwap` calls its reader
once, and the reader hands over what the log holds by then: `vwap_dispatch` is one
message of that call, and `printed` keeps the update and the book behind each line.

## 3. The runs

Passing runs:

| run | instance | shows |
|---|---|---|
| `strategy1` | release build, reordering, cancels from outside, 2 retries, 1 disconnect, fairness | `TypeOK`, `OneDriver`, `OneOrderPerLeg`, `RestingAtWantedPrice`, `StartTogether`, `NeverSelfCross`, `PendingIsDriven`; action property `FinishedIsFinal`; liveness `OtherRepriced` |
| `maker` | events in order, ids up to 3, partial fills, 1 disconnect, fairness | refinement `OneOrderPerSide`; `IdleHasNoOrder`, `KnowsItsOrder`, `PositionIsCompleted`, `WaitIsDriven`; liveness `RequestsEnd` |
| `polling` | release build, ids up to 4, 2 disconnects, fairness | refinement `OneOrderAtATime`; `CleanExit`; liveness `Terminates` |
| `example3` | warm-up 4, lot 2, position 1 at first, account's download inside the market's, ids up to 3, 1 disconnect | refinement `OneWorkingOrder`; `ReadyIsCurrent`, `KnowsItsOrder`, `PositionKnown`, `PositionLimited`; action property `TradesWarmedUp` |
| `algo_proto` | 2 gateways, 10 configurations, ids up to 2, 1 outage | refinement `OneOrder`; `ReadyIsCurrent`, `RoutedToOwner`, `RestingAtTarget` |
| `samples` | the rate limiter (limit 2, period 3) and the nine small samples | `WindowRespected`, `SessionAlive`, `RequestsSpaced`, `AverageIsCurrent`, `DepthIsTop`, `RowsAreHistory`, `OrdersPaced`, `ReadyIsSafe`, `StreamKeepsItsWord`; liveness `ZombiesRemoved`, `StopReturns`, `LogIsRead` |

A lost connection ends some promises for good, because the code does not recover
from it: `PendingIsDriven`, `OtherRepriced`, `PositionIsCompleted`, `WaitIsDriven` and
`RequestsEnd` are stated up to the first one, and so is the second half of
`RoutedToOwner`. The others hold across it.

Runs that end in a violation, each a disagreement between the code and a line of
the repository (quoted under "findings" in `PROJECT.json`):

| run | what happens |
|---|---|
| `strategy1_asserts` | a fill crosses a modify; `assert(state_ == State::CHANGING)` in `handle_failure` fails in a debug build |
| `strategy1_captures` | a request rejected for its rate calls a closure that captured a dead local variable by reference |
| `strategy1_too_late` | a canceled order makes its leg "finished successfully" |
| `maker_too_late` | a fill seen before the tolerated TOO_LATE answer of a cancel is fatal |
| `polling_state` | a connection lost before `Ready` fails `assert(state_ != state)` |
| `example3_reset` | "reset all cached state" leaves the multiplier and the depth |

**Bounds.** Two retries reach the limit by every mix of busy limiter and
rejection. One disconnect puts every request, ack, update and timer that can be
under way on either side of a lost connection; `Polling`, which starts its
sequence again, gets two, so that an answer can be lost in a round that already
follows a lost one. Order 1 of `Maker`, `Polling` and `Example3` is left from an
earlier session. In `Maker` two new orders are a create and its replacement, so that a
late event of the first can hit its successor, or one on each side, which share the
ids and the position; `MaxUnread` keeps partial fills from filling the queue. In
`Example3` a lot of 2 makes partial fills, and the orders can turn the position of 1
from long to short. A warm-up of 4 is beyond the three samples
the earliest signal takes, so that the countdown is what decides. `MaxRequests`
bounds the repeated cancels of one order.

In `AlgoProto` the budget of one outage is spent on a lost connection, a lost
stream or a closed market, at either gateway and at any moment; two prices make
the target change while requests are under way. In `samples`, three sessions let an
id be issued after a session was destroyed; twelve ticks of `RestClient` hold an
outage longer than two periods; three price levels and a depth of 2 make levels
enter the small book from below; four versions are more than the three rows, and two
symbols share them; a countdown of 2 with nine ticks reaches zero with room left for a
gap and for a third order, which only the countdown prevents; two gateways and two ids
make the later report the smaller, and two cancellations under way let one be answered
while the other is not. The number of a
connection in `Averages` is used again after two, which is enough to tell an old
price from a new one, since nothing is kept across two resets.

**Fairness.** `Strategy1`: the dispatch loop polls for ever and hands every event
and every expired timer on (`controller.cpp:43-62`), and the gateway answers each
request; fills, cancels and market data need not happen. `Maker`: the same for acks, updates and
requests; timers and prices need not come. `Polling`: only the loop (`refresh` is
called again and again) and the clock; nothing is assumed of the gateway. `samples`:
weak fairness of the timer that runs the io context and of its end, since the
library calls the timer for as long as the process lives; of both threads of
`example-5`; and of the loop of `event-log`. Strong fairness of `Elapse` (a second
passes, although the model interrupts it by draining) and of `Disconnected` (the io
context delivers what is ready before it is drained, so a closed connection is
reported although draining stops and starts). Nothing is assumed of peers, of the
writer of a log or of the market.

**Deadlock** is checked in every run; a process that ended stutters.

**Limits of what holds.** With reordering TLC finds a `FINISHED` leg taken back by
the ack of a modify that was accepted before the fill; `FinishedIsFinal` excepts
that ack and nothing else. `OneOrderPerSide` and `KnowsItsOrder` of `Maker` need events in
order: acks are not matched by order id (the TODO at `maker/main.cpp:25`), and with `Reordered = TRUE`
TLC finds a second order on one side. A `Quote` whose connection is lost while it has
an order never quotes again (`Quote::clear` does not reset `state_`), and a refused
update waits for the next price. What has traded of an order that is canceled after a
partial fill is never counted (`maker/main.cpp:211`): `PositionIsCompleted` says what the
position is, not that it is the account's. With `AccountInside = FALSE` TLC finds
`PositionKnown`, `PositionLimited`, `KnowsItsOrder` and `OneWorkingOrder` of `Example3`
violated: the position is ignored (`instrument.cpp:225`) after `reset` has zeroed it, so
that another lot may be added to it, the instrument is ready before the highest order id
is known, and a downloaded final order clears the working order. `minimal` is ready although its request to cancel
all orders may be refused, and `ReadyIsSafe` says no more than that it was asked for.
A `Strategy1` retry that finds the connection gone
is dropped, and nothing reacts to an order that is canceled while it rests. In a
debug build of `Polling`, the second round after a reconnect fails
`assert(order_id_ == 0)`. After a rejected create `AlgoProto` sends modifies for an
order that does not exist (`RestingAtTarget` is stated until a modify is refused).
These are notes under "hazards".

**Met while modelling, not claimed as properties.** `import` stores the requested
encoding in `encoding_` and always writes binary. `example-8` sets `downloading_` and
never reads it, and its guard on the tick size lets NaN pass. `minimal` shares
`ready_` between gateways, and a `Ready` of the second gateway while the first is down
ends the process. `vwap` keeps its books by symbol without the exchange. `rest` has
a copy of `io-context`'s session that nothing instantiates.

## 4. The proofs

`Strategy1Proofs` proves `TypeCorrect`, `OneDriverHolds`, `OneOrderPerLegHolds`,
`RestingAtWantedPriceHolds` and `StartTogetherHolds`: each is `Spec => []P` for every
number of retries and disconnects, every pair of prices, debug and release
builds, with and without reordering. The assumption is `ConstantsAssumption`.
None of the properties is inductive: which requests may exist depends on the
state of the leg, and the price of an order on the ack that is still to come. The
invariant `Inv` adds, per leg,

* `DriverInv`: how many requests, timers and acks each state allows, and of
  which kind (a create only in `CREATING`, and so on);
* `EventInv`: what an undelivered ack says of the order (an accepted one has the
  order's price);
* `OrderInv`: how the number of orders follows from the state and the kind of
  request under way.

Each method and each event has a lemma that it keeps a leg's part; the step
lemma combines them, one step per action.

`Strategy1EndProofs` builds on it and proves `NeverSelfCrossHolds`, `PendingIsDrivenHolds`
and the action property `FinishedIsFinalHolds`, under the same assumption. `EndsInv`
relates the two legs: the retraced price is wanted, asked for or at the exchange
(`Retracing`) only when the order of the other leg is final, so that the two prices
that would cross are never both in the market; a leg is finished, or will be, only
when its order is (`EndInv`), which rests on the code's claim that `TOO_LATE` means a
filled or canceled order; and `Busy` says that what is taken from a leg (a request,
an ack, a timer) leaves something else under way. That `FinishedIsFinal` needs no
exception with events in order is the last part of `EndInv`: behind a fill there is
no acceptance. `PendingIsDriven` is about the repricing too and needs `RepriceInv`:
when a leg is finished the other wants its retraced price or its order is done
(`Repriced`), a leg that still wants its first price never asked for another one and
has nothing refused behind it (`PriceInv`), and a leg that fails ends the process.
The other leg is then `WAITING` at the price it wants (`OrderInv`) or has something
under way (`Busy`).

`RateLimitProofs` proves `WindowHolds` and `HistoryHolds` for every limit, period
and bound, from `LimitAssumption`. The strengthening is `ForgottenAreOld`: the
requests that are no longer in the history are older than the period, so the
first of any `REQUEST_LIMIT + 1` requests is either in the history, where
`is_blocked` saw it, or older.

`MakerProofs`, from `MakerAssumption`, for all prices and any number of orders and
lost connections. Two inductive invariants, because the two halves need different
things of the gateway:

* `MakerInv` holds in whatever order acks and updates arrive and gives
  `IdleHasNoOrderHolds` and `PositionIsCompletedHolds`. The ids of creates under way are
  new and distinct (`Fresh`), updates are about known orders (`UpdatesKnown`), no
  completion is reported twice, whatever partial fills come before it (`FillsOnce`), and
  every completed order is in the position or on its way (`Counted`); the position alone
  says nothing about the next one.
  On top of it, `WaitIsDrivenHolds`: a quote enters `CREATE` or `CANCEL` only together with
  a request, the gateway turns a request into its ack, and the ack of a create or a
  cancel always ends that waiting, whichever order it is about (`StillDriven`). No order
  of events is needed, which `KnowsItsOrder` cannot do without.
* `QuoteInv` needs events in order and gives `KnowsItsOrderHolds` and the refinement
  `OneOrderPerSideHolds`. It says what the code never checks, since an ack is not
  matched by order id: the ack of a create finds its quote in `CREATE` with that
  order and comes before any update of it (`Created`), and a cancel or its ack that
  outlived its order comes before anything of the next order (`Canceled`).
  The hypothesis is `~Reordered`, as in `Maker.cfg`; without it both are false (see
  "Limits of what holds").

`PollingProofs`, from `PollingAssumption`, with asserts or without:
`OneOrderAtATimeHolds`, the refinement of `OrderSlot`, and `CleanExitHolds`. For the
first, `PollingInv`: the next order is reached only through a new connection, which
begins with nothing at the gateway (`CleanBefore`), so that a late answer can bring
the program back to `WORKING` but never to a second order. For the second, `InStep`:
without trouble exactly one request or its answer is under way in a waiting state.
`EndApproaches` is the measure behind `Terminates`: `StepsToGo` adds the distance of the
state from `DONE`, what each request and answer under way can still cause, and the
clock. A late ack of a create leads back to `WORKING`, so a create under way weighs
more than `WORKING` lies above `DONE`; every other step lowers the sum, and only a lost
connection raises it. `NeverWaits` is the other half: in a connected program `refresh`
always has a next step.

`Example3Proofs`, from `Example3Assumption` and `WarmupAssumption`, for any lot, warm-up,
position at first, number of orders and lost connections. Two invariants, because
the order of the downloads matters to one half only:

* `BaseInv` holds wherever the account's download lies and gives `ReadyIsCurrentHolds`
  and the action property `TradesWarmedUpHolds`.
* `Example3Inv` needs `AccountInside`, which its theorems assume: `KnowsItsOrderHolds`,
  `PositionKnownHolds`, `PositionLimitedHolds` and the refinement `OneWorkingOrderHolds`. It
  describes the queue of events: during the market's download what is still to come,
  the account's download in it, makes the cached state current (`Download`), afterwards
  all unhandled events are about the working order and only the last can be final
  (`Unhandled`), and the position lacks exactly what was traded and not yet counted
  (`Position`). `PositionLimited` rests on the last part: an order is created only in a
  position it reduces, or in none. Without `AccountInside` they are not true (see "Limits
  of what holds").

`AlgoProtoProofs`, from `AlgoProtoAssumption`, for any gateways, instruments on one or two
of them, prices, orders of earlier sessions and outages: `ReadyIsCurrentHolds`,
`RoutedToOwnerHolds`, `RestingAtTargetHolds` and the refinement `OneOrderHolds`. The
handlers are nested calls that end in a send, so the proof first says what they can do
to the world (`Moves`: nothing, the end of the process in a send, one create or one
modify request at the end of the queue of the first instrument's gateway), and then
that each of these keeps `AlgoInv`. Its parts are

* `Discovered`: a market whose source is unknown has never been reported open, which
  is why an event that is not passed to the strategies leaves the readiness current;
* `Wire`: what the stream of a gateway looks like around a download (`Shape`), that
  only known orders are reported (`Reported`), and that the ids a gateway knows are
  counted once it is downloaded (`Synced`) or will be by the `DownloadEnd` that is still
  to come (`Ending`): the strategy is ready only after that, so the id it takes is new;
* `Work`: all requests are about the one order, at its gateway, with one create
  before the modifies (`Asked`, `Placed`), and the last request asks for the target
  (`Targeted`).

It also shows that `Bridge` never meets a modify whose source it does not know.

`SamplesProofs`, from `SamplesAssumption`, one invariant per sample (`StepOfOne`: the
others leave its variables alone):

| theorem | for every | strengthening |
|---|---|---|
| `ReadyIsSafeHolds` | set of gateways and order ids | the highest id is kept also while not ready; orders at gateway 0 are left only with a request under way or refused |
| `SessionAliveHolds` | number of sessions | an id not issued yet has no connection; one not marked has a live one |
| `AverageIsCurrentHolds` | events of two gateways | no tick size before the download, `download` set during it |
| `RowsAreHistoryHolds` | prices, symbols and updates | the rows kept are the history, whatever was sent |
| `OrdersPacedHolds` | delays and countdown | orders sent and left are `COUNTDOWN`; the plan follows the last order |
| `RequestsSpacedHolds` | frequency and timeout | the plan follows the last request; only the last is pending |
| `DepthIsTopHolds` | depth and set of prices | none, but the lemmas on extracts and their differences |
| `StreamKeepsItsWordHolds` | choice of failed writes and progress of the three processes | `LogInv`: a failed write ends the file, so the file, the log and what each reader has got are each a beginning of the one before |
| `NothingMissed` | the same | `LogInv` with the place of the reader in its two loops |
| `StopApproaches` | size of the queue | `ProducerInv`: the thread ends only after `Stop`; `StepsLeft` of the thread falls while the join waits |

The refinement theorems prove `Spec => Slot!Spec`; the mapping is described under
`OrderSlot` above, and the proof shows that each step of the program creates one
order in a free slot with an unused id, frees slots, or changes neither.

Each invariant was model-checked on the instance of its run before it was proved.
The proofs cover the bounds of the models as well: `MaxOrders` and the like are
constants, and the theorems hold for all their values.

Every invariant, action property and refinement that a passing run checks is proved.
Only model-checked is liveness, which is out of the prover's reach since it needs
fairness and `ENABLED`. For each of these properties a theorem proves the safety half of
the argument, that what has to happen is never lost or comes nearer; what TLC adds, on
the instance of the run, is that fair steps are enabled and therefore taken.

| liveness | what is proved of it |
|---|---|
| `OtherRepriced` | `PendingIsDrivenHolds`: the repricing has something under way until it is done |
| `RequestsEnd` | `WaitIsDrivenHolds`: a waiting quote has a request or an ack under way |
| `Terminates` | `EndApproaches`: a measure falls with every step, and `refresh` always has one |
| `ZombiesRemoved` | `SessionAliveHolds`: a session is marked or has a connection that will still report its end |
| `StopReturns` | `StopApproaches`: the thread has at most three steps left |
| `LogIsRead` | `NothingMissed`: a reader that has returned has handled the whole log |

## 5. Plan

1. done: `Strategy1`, `RateLimit`, `Maker`, `Polling`, `Example3`.
2. done: `OrderSlot` and its four refinements, `AlgoProto`, `Sessions`, `RestClient`,
   `Producer`, `Averages`, `DepthBook`, `MatrixPublisher`, `Countdown`, `Minimal`,
   `EventStream`.
3. done: proofs of the safety properties of `Strategy1`, `Maker`, `Polling`, `Example3`,
   `AlgoProto` and of the small samples, with the four refinements of `OrderSlot`.
4. done: `EventStream` without folds, so that it can be proved about; the safety half of
   each liveness property (section 4).
5. Left to TLC: liveness itself.

## 6. Not modelled

Logging, formatting, command line flags and settings; the bytes of messages and
files; samples that only print, count or hand on events (`example-1`, `-4`, `-6`, `-9`,
`bridge`, `metrics`, `republish`, `python`), which have no state that a property could be
about; the market by order demonstration in `example-3`, which feeds nothing; the
arithmetic of `compute_vwap`, which is in the library. The client library and the
gateways are modelled only as far as the samples depend on them. Prices and
quantities are integers; rounding errors of doubles are not modelled.
