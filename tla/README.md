# A formal model of bot-rust

bot-rust trades the five-minute BTC up/down markets of Polymarket: in every
window it buys at most one side shortly before the close, waits for the result,
writes the trade to `trades.jsonl`, and redeems the outcome tokens on Polygon.
This directory holds TLA+ modules of its control logic, TLC configurations that
check them on small instances, and proofs for TLAPS.

`PROJECT.json` lists the runs, the mutants that show each property can fail, the
source lines of each definition, the hazards and the findings.

Paths below are under `src/crates/bot-core/src/` unless they start with `src/`.

## 1. Inventory

| component | state | operations | module |
|---|---|---|---|
| claim ledger (`orchestrator.rs` 165-475, `storage/trade_logger.rs`) | `pending_claims` (memory), `trades.jsonl` (disk) | restore, insert, sweep, append, rewrite | `Claims`, `ClaimBook` |
| settlement service (`settlement/settlement_service.rs`, `account/`) | `RESOLUTION_CACHE`; transactions on chain | Gamma probe, balance check, relayer redeem, direct redeem, retry | `Claims` |
| main loop and loss guard (`orchestrator.rs` 477-680) | notice flag, guard flag, loss counter, cooldown | one pass of the loop | `TradingLoop` |
| Telegram notifier (`notifications/telegram_notifier.rs`) | `paused` (shared), update offset | poll, obey a command, send | `TradingLoop` |
| trading cycle (`orchestrator.rs` 682-1246) | `processed_windows` | checkpoint, lookup, side selection, entry, settlement | `TradingCycle` |
| order entry (`execution/order_executor.rs` 552-1231, 1836-2310) | attempt counter, unusable-status counter; orders at the exchange | read book, post, poll, retry | `OrderEntry`, `EntryContract` |
| prices and money of an order (`execution/order_executor.rs` 60-300, 425-550) | none | slip, cap, round, gate, book a fill | `Prices`, `Trade` |
| post-fill SELL (`execution/order_executor.rs` 1282-1810) | the SELL order, its size | check price, place, cut, retry | `PostFillSell` |
| CLOB client (`execution/client.rs`) | API credentials | sign, post, get | amounts of a BUY in `Prices`, of a SELL in `PostFillSell`; the rest by its use |
| market data (`data/`) | none | Gamma lookup, order book, Binance candles | `Markets`, `Trade` |
| result resolution, PnL (`settlement/`) | none | resolve a window, compute PnL | `Markets`, `Trade` |
| configuration, types (`config/`, `types/`) | none | parse, validate | the validated bounds, as assumptions of the modules |
| result logger, utilities, tests | none | - | not modelled |

How they interact. One tokio task runs the main loop; each pass sweeps the
pending claims, looks at the pause flag, the guard and the cooldown, and runs a
trading cycle of up to five minutes. A second task long-polls Telegram. The two
share a single `AtomicBool`. A filled trade of the cycle becomes a record in
`trades.jsonl` and an entry of `pending_claims`, which the sweeps of later
passes work on; the file is what a new process restores its claims from. The
exchange, the chain, Gamma and Telegram are actors of their own, and the process
may die anywhere.

What is hard, and what makes each part right:

- *Claim ledger and settlement.* The map changes first, the file second, and
  the file is truncated before it is written; redeems time out while their
  transaction may still be mined; every request can fail; a restart
  reconstructs memory from a file that may be torn, and to whose broken last line
  the next record is glued. Right means: "Success" only when no tokens are left; a
  final record is final; attempts are neither skipped nor given up early; nothing
  recorded is forgotten but what a crash in a write may cost; every claim comes to
  an end.
- *Main loop and notifier.* `/pause` and `/resume` arrive in the middle of
  awaits, and the guard sets the same flag from the other side. Right means: no
  cycle past the loss limit, none while paused, no stale command obeyed, and
  trading that does not stop by itself, unless a sweep hangs.
- *Order entry.* Answers are lost or late while the order trades; an answer with an
  error message is a refusal to the code even if the order lives; partial fills
  are cancelled; three deadlines meet at the close. Right means: one stake at
  risk, no fill dropped, no fill invented, over in time.
- *The data path.* A price goes through a slippage, a cap, two roundings and two
  gates, all in doubles; the outcomes of a payload come in any order; two sources
  are asked for one verdict. Right means: no more than the stake committed, a fill
  out of the band never unmarked, a profit that is what the tokens pay, a claim
  that asks about the market that was bought.
- *Trading cycle.* The set of windows dealt with lives in memory and is cleaned
  up; errors leave the cycle early. Right means: one reported buy per window, and
  every buy accounted for.

## 2. The modules

### Claims

One trade is a number; trades are numbered in the order of their lines in the
file, and each has its own window, market and condition id (the bot trades one
market per window, so two trades never share a condition).

| model | code |
|---|---|
| `pending`, `attempts` | `pending_claims` and its `claim_attempts` |
| `entries`, `cur`, `result` | the snapshot `sweep_pending_claims` iterates, and the answer of `process_pending_claim` |
| `tries` | the attempt number in `attempt_redeem_positions` |
| `cache` | `RESOLUTION_CACHE` |
| `file`, `staged` | the records a reader finds in `trades.jsonl`, and the text `fs::write` is writing |
| `tail` | how the file ends: in a newline, in a part of a line, in a line without its newline |
| `wallet`, `market`, `inflight` | the chain: tokens at the funder address, the payout, transactions sent and not yet mined |

`torn` and `misses` are history that only the properties read. Every await of the
sweep is a step: `Probe` and `ProbeUnlisted` (the Gamma request and the cache),
`CheckBalance`, `Relay`, `Direct`. `Apply` is the match on the answer, up to the
truncation of the file; `FinishWrite` is the rest of `fs::write`. Between them
the chain moves (`CloseMarket`, `ReportPayout`, `SellOut`, `LateTransaction`) and
the process may die (`Crash`, `DieRecording`), leaving the first lines of the file,
whole or with a broken last one. An RPC request may never be answered (`Hang`): the
requests have no timeout, so the sweep, and with it the main loop, stands at "hung"
until the process is restarted. `Faults` switches on crashes, refused and torn
writes, an unreadable file, Gamma failures, closed markets that Gamma does not list,
RPC failures and hanging requests.

Decisions:

- An append (`Append`, `AppendFails`) does not look at how the file ends. What it
  writes after a broken line is lost to the reader with that line, and after a line
  that lacks its newline both are (`Unglued`); a rewrite drops what cannot be read
  and ends in a newline.
- Tokens of a fill are in the wallet when the trade is recorded: the record is
  written after the settlement checkpoint, a minute or more after the close.
- An RPC failure is not retried inside one redeem: `classify_redeem_error` looks
  at the outermost context of the error chain only (`Retryable`).
- A relayer redeem that failed may have been sent: the helper
  (`src/scripts/relayer_redeem_safe.cjs`) submits first and polls afterwards
  (`MayBeSent`).
- `Funder` says whose address holds the tokens: that of `PRIVATE_KEY`, that of the
  Safe derived from it, or another. The direct path redeems what the key's address
  holds, the relayer what the Safe holds; the redeem of another address succeeds on
  chain and moves nothing (`Redeem`). No check in `load_config` ties the three
  together.

`ClaimBook` is the abstract specification: what a reader of the file may rely
on, without process, sweep or transactions. `Claims` implements it under
`status <- StatusOf, gone <- GoneOf, filledTrades <- FilledOf`; it is checked as
`KeepsTheBook` and proved as `BookAlwaysKept`.

### TradingLoop

`pc` walks through one pass: pause check, cooldown check, cycle. `EndCycle` is the
code after `run_cycle` returns, the guard included. `Hang` is the step of a pass or of
a cycle that waits in a sweep for an RPC answer that never comes. `Poll` and `Handle`
are the listener: a batch is handled update by update, the offset moved before the
command is obeyed. `cooldown` says that the loop remembers a cooldown, `resting` that the clock
has not reached its end. `Restart` forgets the loop's variables, the cooldown among
them, and cannot change the clock: `excused` says that the process the cooldown belongs
to is gone. `lossRun`, `lastRun`, `tail`, `backlog` and
`dropped` are history that only the properties read; `lastRun` keeps the losses of
the process before a restart, which the loop itself forgets: `GuardHolds` bounds
how many losses in a row a restart can make out of the limit.

### OrderEntry

`execute_live_entry` as a loop over `pc`: `BeginAttempt`, `ReadBook`, a post with
its four outcomes, the status polls with their five, `RetryOrStop`. `PostDelayed` is a
post whose answer has an error message, or success false, for an order that exists: the
code looks at the message before the order id, and retries unless the code is one of a
few (ORDER_DELAYED is not). The exchange
matches and cancels orders on its own (`Match`, `Cancel`). Prices, gates and
sizes are reduced to what the loop tells apart. Time is in ticks: unless a
request is slow the program is instantaneous between its sleeps, and unless an
order lingers the exchange cancels at the close what still rests. `Faults` says
which faults may happen (an order reported as matched before its size is, among
them), `faulted` which ones did: the properties of a reliable
exchange are stated of executions in which nothing went wrong so far, so one run
covers them together with those that hold whatever goes wrong.

### EntryContract

What `run_cycle` relies on when it calls an entry, without polls, retries or
clock: while the exchange can be trusted one order trades at most, nothing trades
after the return, and the fill returned is all that was traded; once it cannot, a
fill may be missed and is still never made up. `OrderEntry` implements it
(`KeepsTheContract`), with `traded`, `reported` and `trusted` read off `orders`,
`answer` and `faulted`.

### PostFillSell

`attach_post_fill_sell_limit`, which runs after a fill and before
`execute_live_entry` returns: look at the best bid up to `RETRY_CHECK_PRICE`
times, then post a SELL of `Portion` units, up to `POST_FILL_SELL_MAX_RETRIES`
times. `Sign` rounds the size down to the exchange's step, in doubles: a whole number
of steps may lose one (`RoundDown`; 0.57 is signed as 0.56), so `signed` may differ from
the `size` that is reported. `PostUncovered` cuts the size to
the balance named in the refusal. `PostUnseen` is a SELL that is accepted while the
answer does not say so: it is lost, has no order id, or has an error message next to it. The tokens of the buy arrive when they do
(`Deliver`), the accepted SELL trades when it does (`Trade`), and the exchange
counts resting SELL orders against the balance (`Covered`). The waits are of any
length. The order left resting is the one `SellOut` of `Claims` stands for.

### TradingCycle

`run_cycle` over windows of three ticks. The entry is one abstract step, with the
outcomes `EntryOutcome` leaves (section 5): up to `MaxOrders` orders trade, one of
which is reported (`EnterAndFill`) or none (`EnterUnseen`), none trades
(`EnterInVain`), or there is an error before anything was posted. All other requests
may take any time. A `Crash` forgets `processed_windows`; in the middle of an entry it
leaves the orders posted so far. `bought`, `unseen`, `recorded`, `dropped`, `lost` and
`restarts` are history.

### Prices and Markets

Operators without state. `Prices` has the numbers of an order: prices in mils,
money and shares in 1e-5, a slipped price in twenty-thousandths of a mil, so that
every decimal of the code is exact. The code computes with doubles, and a quotient
that should be a whole number of steps may come out just beside it (0.57 * 100
floors to 56, 0.07 / 0.01 ceils to 8): a rounding is therefore the *set* of the
values it may give, and what is shown holds for each of them. `Markets` has the
readings: which tokens, prices and verdict a Gamma payload gives, the best ask of
a book, the direction of five candles, the profit of a trade. Outcome names are
reduced to the alias list they belong to.

### Trade and MCTrade

The data path of one trade, from the discovered market to the probe of its claim:
`Discover`, `Select`, `Quote`, `Sign`, `Book`, `Resolve`, `AskProbe` compute with `Prices`
and `Markets`; `Execute` is the exchange, which trades at any price the signed
amounts allow and reports the limit or the price traded at; `Close` is the
oracle. `OrderEntry` and `TradingCycle` say when these steps happen, `Trade` what
they compute, for one attempt that ends in a fill or in nothing. `MCTrade` gives
the bands, stakes, ticks, books, candles and payloads of the run.

What Binance and Gamma send is external, and `Trade` says what it assumes of it, so
that its theorems hold for every feed and payload of that kind and TLC evaluates the
assumptions on those of the run. `FeedAssumption`: a window's direction is Up unless
its fifth candle closed below the open of its first. `PayloadAssumption`: a payload
may hold the market of the window (`WindowId`) with its tokens and prices in the order
of its outcomes, whatever that order is and whatever other outcomes it lists; no price
is a dollar before the market is over, and once it is decided the winner's is a dollar
and the other's nothing, or the prices are no numbers; every other market in the
payload lacks what the bot looks for (`CannotTrade`).

### Proof modules

`ClaimsProofs`, `ClaimBookProofs` and `DurabilityProofs` about `Claims`;
`TradingLoopProofs`, `TradingCycleProofs`, `OrderEntryProofs`, `PostFillSellProofs` and
`TradeProofs` about the module of their name; see section 5.

## 3. Runs

| run | checks | shows |
|---|---|---|
| `ClaimsFaults` | `TypeOK`, `SettledMeansGone`, `FinalIsDropped`, `GivenUpIffExhausted`, `FileBehindMemory`, `FinalSticks`, `KeepsTheBook` | through crashes, torn and refused writes, glued appends, an unreadable file and RPC failures the ledger is truthful and keeps the claim book |
| `ClaimsDurable` | `NothingForgotten`, `PatientWhileOpen`, `ClaimsConclude` | with a working disk only what a crash in a write may cost is forgotten, an open market is given up for failed requests only, and every claim comes to an end, or the sweep waits for an RPC answer that never comes |
| `ClaimsSafeFallback` | `SettledMeansGone` (violated) | finding 1 |
| `TradingLoop` | `TypeOK`, `GuardHolds`, `PauseStopsTrading`, `StaleNeverObeyed`, `CooldownHonoured`, `PauseIsObeyed`, `TradingGoesOn` | guard, commands and cooldown under every interleaving of the two tasks |
| `TradingLoopReset` | `GuardIsResetByResume` (violated) | finding 2 |
| `TradingLoopCommands` | `CommandsAreHeard` (violated) | finding 3 |
| `OrderEntry` | `TypeOK`, `OneStakeAtRisk`, `OverByDeadline`, `KeepsTheContract`, `EntryReturns` | an entry with every fault on is over in time and implements `EntryContract` |
| `OrderEntryStake` | `StakeIsSpentOnce` (violated) | finding 4 |
| `PostFillSell` | `TypeOK`, `SellsItsPortion`, `ReportIsTrue`, `OneCutIsEnough`, `ExitReturns` | the exit order with late tokens, refusals, and SELLs accepted behind lost or failed answers |
| `PostFillSellFraction` | `NoMoreThanTheFraction` (violated) | finding 5 |
| `TradingCycle` | `TypeOK`, `OneBuyPerWindow`, `BuysAreAccounted`, `OneRecordPerWindow`, `ProcessedIsBounded`, `FillsAreSettled` | windows, restarts, cleanup, entries with several fills, settlement |
| `Trade` | `TypeOK`, `StakeIsTheLimit`, `ReachesTheAsk`, `UnflaggedIsInBand`, `BooksCoverTheWallet`, `VerdictIsThePayout`, `ProbeMeetsItsMarket` | the numbers of a trade, in every rounding the doubles may give, and the readings of every payload |

`CHECK_DEADLOCK FALSE` appears in the `OrderEntry`, `PostFillSell` and `Trade` runs
only: an entry, an exit and a trade end, and the clock of `OrderEntry` ends at
`Horizon`.

Bounds, and why they are enough:

- `Claims`: two trades, two attempts, two internal attempts. `ClaimsFaults` has the
  direct mode of a key that is the funder, `ClaimsDurable` the relayer of a funder that
  is the key's Safe; Gamma's failures and unlisted markets are among the faults of
  `ClaimsDurable` only, and those of the disk among those of `ClaimsFaults` only, for
  the size of the state space: the proofs are for every set of faults. Two trades are what
  it takes for one claim's rewrite to damage another's record, for a torn file
  to keep one line and lose the next, and for the snapshot to be older than the
  map. Two attempts tell "counted once" from "exhausted"; two internal attempts
  give one retry. The safety properties are proved without these bounds.
- `TradingLoop`: a limit of two losses, a counter up to four, a chat of three
  updates with at most one of them before the start, any number of restarts. A
  guard that trips, a resume and a second trip fit in; so does
  `/pause`, `/resume`, `/pause` around one loss.
- `OrderEntry`: three attempts, a close at tick 4 and any start before it, so that
  first, middle and last attempts meet the close, the retry limit and the poll
  deadline in every order. The model's clock ends three ticks after the poll
  deadline, time enough for an overrun to show. The poll interval is no longer than
  the grace period, as with the defaults (section 5 says what happens otherwise).
- `PostFillSell`: twelve units bought, seven of them to sell, a step of two: sizes
  that are no multiple of the step, balances that leave something to cut to, and
  room for a second whole order next to the first. Three tries: one cut, one retry
  after it.
- `TradingCycle`: three windows (0 to 2), a processed set of two of which the cleanup
  keeps the current window only, so that it runs while windows follow; two
  orders per entry, one reported and one not; one restart per window; two side-selection retries.
- `Trade`: five bands (wide with a low maximum; with a maximum between two ticks; a
  narrow one; one that refuses the fallback price; the gate off), four stakes (under
  a cent; three cents, whose shares are rounded by much; with a fraction of a cent;
  enough for five shares), the ticks 0.1, 0.01, 0.001 and one that cannot be signed
  for, books with no readable ask, one and several, asks that are and are not whole
  ticks, one of them above a limit whose rounded amounts still pay it; five windows
  of candles (up, level, down, one short, one unreadable); payloads with the
  outcomes in both orders, with a third outcome, behind other or incomplete markets,
  with quotes, with final prices and with prices that are no numbers. Every
  comparison of the code has both its outcomes.

## 4. Fairness

- `Claims`: weak fairness of `Boot` and of the sweep as a whole. The main loop
  sweeps at the top of every pass, paused or not; the Gamma client, the wait for
  a receipt and the relayer helper have timeouts. RPC requests (balance, gas,
  submission) have no timeout of their own: with "hang" among the faults each may
  stay unanswered, and then only a restart leaves that step. Each market closes,
  as a five-minute window does. Nothing is assumed of the payout, of the mining of
  a transaction or of the success of a redeem: a claim concludes because its
  attempts run out. `ClaimsConclude` asks for two things no code can give: that crashes
  end, and that Gamma ends up listing a market that is over (an answer without it is
  "unresolved", costs no attempt, and keeps the claim pending for as long as it is
  given). A sweep that hangs is then the only thing that keeps a claim open.
- `TradingLoop`: the two tasks are scheduled by tokio, the clock advances, and
  Telegram answers a poll (the request has a timeout, and an error is slept over
  and retried). A cycle ends: that is `EntryReturns` and `FillsAreSettled`; but each
  pass and each cycle awaits a sweep, which may hang (`Hang`, to which nothing is
  fair and which nothing but a restart leaves). `TradingGoesOn` asks that pauses and
  restarts end, and allows for that one way to stop.
- `OrderEntry`: the program goes on (the CLOB client has a 12 s timeout, the order
  book request 7 s) and the clock advances. Nothing is asked of the exchange.
- `PostFillSell`: the program goes on, as in `OrderEntry`. Nothing is asked of the
  exchange or of the settlement of the buy.
- `TradingCycle`: the clock advances, and the settlement step is taken once its
  time has come.

## 5. What is proved

`ClaimsProofs` proves, for every number of trades, every limit, mode and set of
faults, from the named assumptions of `Claims` (`MaxTradesAssumption`,
`AttemptsAssumption`, `ModeAssumption`, `FaultsAssumption`):

| theorem | statement |
|---|---|
| `TypeCorrect` | `Spec => []TypeOK` |
| `Invariant` | `Spec => []IInv` |
| `FinalAlwaysDropped` | `Spec => []FinalIsDropped` |
| `GivenUpOnlyExhausted` | `Spec => []GivenUpIffExhausted` |
| `FileNeverAhead` | `Spec => []FileBehindMemory` |
| `FinalAlwaysSticks` | `Spec => FinalSticks` |

None of the properties is inductive. `IInv` adds what they rest on: every record
in the file *and* every record staged for a rewrite obeys the attempt limits
(`RecordsKept`: a torn write turns staged lines into file lines); so do the
attempts in memory (`AttemptsKept`); a trade not yet filled has left no record
(`Untouched`, so that the append never overwrites one); the sweep's snapshot and
current trade are in the map (`SweepInMap`, so that a rewrite never touches a
final record); open records only in the map (`OpenInMap`) and memory ahead of the
file (`MemoryAhead`). The proof that a step keeps `IInv` treats the steps that
leave map and file alone together (`Quiet`, `Hang` among them) and `Boot`, `RecordTrade`, `Apply`,
`FinishWrite`, `Crash` and `DieRecording` one by one.

`ClaimBookProofs` proves, under the additional assumption `RightSigner` (every redeem
that may be sent is sent by the funder: in the direct mode the funder is the key's
address, in the relayer mode it is the key's Safe and there is no fallback to direct
redeems):

| theorem | statement |
|---|---|
| `SettledAlwaysGone` | `Spec => []SettledMeansGone` |
| `BookAlwaysKept` | `Spec => KeepsTheBook`, the refinement of `ClaimBook` |

Its invariant `Backed` says that "Success", in the file or staged, means the
tokens are gone; that the answer "completed" does (`AnswerGone`); that the direct
path is entered only in the direct mode (`ModeKept`); and that only filled trades have
tokens, transactions or claims. The refinement maps each step to one step of the
book or to a stutter: an append, glued or not, to `Open`, a departure of tokens to `Leave`, the
rewrite of `Apply` to `Settle` or `Abandon` at the moment the new text is staged
(`Ledger` is the staged file while a rewrite is under way), a torn write to
`Tear`. Without `RightSigner` both theorems are false: `ClaimsSafeFallback` is the
counterexample with a fallback, and a relayer whose funder is not the key's Safe is
another.

`DurabilityProofs` proves, from `IInv` and the assumptions of `Claims`:

| theorem | statement |
|---|---|
| `NothingEverForgotten` | `Spec => []NothingForgotten` |
| `AlwaysPatient` | `Spec => []PatientWhileOpen` |

Neither is inductive. `DurableInv` is, on a disk that works: the claims open on disk
are in the map (`InMap`: a claim leaves it in `Apply` only, together with the record
that makes it final, and `Boot` reads the open records back); a filled trade without a
line is one a crash in a write may have cost (`LinesKept`); and so is the next one
while the file does not end in a newline (`GlueKept`), which is what a later append
needs. Patience needs `MarketKnown` (what the cache and the sweep believe of a market
is never ahead of the chain, so that an answer that costs an attempt is one about a
market that is over, or an error) and `AttemptsMissed`: no number of attempts, in
memory, in the file or staged, is ahead of the failed requests while the market is
open.

`TradingLoopProofs` proves, from `LimitAssumption`, `BoundAssumption` and
`EnabledAssumption`, for every limit and every chat:

| theorem | statement |
|---|---|
| `LoopTypeCorrect` | `Spec => []TypeOK` |
| `LoopInvariant` | `Spec => []LoopInv` |
| `GuardAlwaysHolds` | `Spec => []GuardHolds` |
| `PauseAlwaysStops` | `Spec => []PauseStopsTrading` |
| `StaleIsNeverObeyed` | `Spec => []StaleNeverObeyed` |
| `CooldownAlwaysHonoured` | `Spec => []CooldownHonoured` |

`LoopInv` has a part for each device. The guard (`GuardKept`): the losses of the
present run are never ahead of the counter, and a loop that is not held, or is past its
pause check, is below the limit. It holds because the counter is reset only where
there is nothing to forget, which is what `NoticeKept` says of the notice flag: it is
up at the top of the loop only, and without a pause only after a `/resume`.
`TailKept`, `CooldownKept` and `OffsetKept` do the same for the pause, the cooldown
and the listener's offset.

`TradingCycleProofs` proves, from `WindowAssumption` and `BoundAssumption`, for
windows, checkpoints and cleanups of any length and any number of restarts:

| theorem | statement |
|---|---|
| `CycleTypeCorrect` | `Spec => []TypeOK` |
| `CycleInvariant` | `Spec => []CycleInv` |
| `OneBuyAlways` | `Spec => []OneBuyPerWindow` |
| `BuysAlwaysAccounted` | `Spec => []BuysAreAccounted` |
| `OneRecordAlways` | `Spec => []OneRecordPerWindow` |
| `ProcessedAlwaysBounded` | `Spec => []ProcessedIsBounded` |

`CycleInv` adds three facts: the cycle works on a window the clock has reached, not
yet processed or recorded (`Reached`); a window that may still be entered has its
first entry or a restart to its credit, for a reported buy and for `MaxOrders` orders
(`CreditLeft`); and the processed set has room
for the window under way (`RoomLeft`). That the cleanup cannot bring a second buy
rests on arithmetic: it forgets windows the clock has left.

`OrderEntryProofs` proves, from `TimeAssumption`, `CountAssumption` and
`SwitchAssumption`, for any number of attempts, any close and intervals and any set
of faults:

| theorem | statement |
|---|---|
| `EntryTypeCorrect` | `Spec => []TypeOK` |
| `AlwaysOverByDeadline` | `Spec => []OverByDeadline` |
| `OneStakeAlways` | `Spec => []OneStakeAtRisk` |
| `ContractAlwaysKept` | `Spec => KeepsTheContract` |
| `EntryOutcome` | `Spec => []Outcome`: when an entry is over at most `MaxOrders` of its orders have traded, the fill it returns is one of theirs, and while it is trusted one traded at most, and a fill is returned if and only if it did |
| `EntryIsFinite` | `Spec => [](StepsLeft \in 0 .. (MaxOrders + 1) * PerAttempt)`, and no step of the exchange or the clock adds to `StepsLeft`, each step of the entry takes from it |

`EntryInv` has the counts (`Counted`), what the attempt number says of the orders
(`Placed`) and the clock at each step (`OnTime`); it holds whatever goes wrong.
`SafeInv` is for executions in which nothing did: every order but the one being polled
is dead, none lives on after the close or the return, and, if polls come at least once
in the grace period (`PollWithinGrace`, PollInterval <= Grace), they go on long enough to
see the last one final. With a longer interval the last poll before the deadline may
come before the close, a GTC order may trade in part and be cancelled after it, and the
fill is missed by `PollTimeout`: that is no breach of `OneStakeAtRisk`, but the fill
returned cannot be trusted then, and `Trusted`, which the contract is kept with, is
false from the start. The defaults (500 ms, 6 s) are within the grace period; the
configuration does not check it. `Returned` says of what order a fill comes.
The refinement maps `Match` to `Trade`, the steps that return to `Return` and the
faults to `Distrust`. `EntryIsFinite` holds whatever is lost, late or slow: an attempt
has a few steps and two for each tick left until the poll deadline, since a wait does
not end before its time.

`PostFillSellProofs` proves, from `SizeAssumption`, `RetryAssumption` and
`LossyAssumption`, for every fill, portion, step and number of looks and tries:

| theorem | statement |
|---|---|
| `ExitInvariant` | `Spec => []ExitInv` |
| `ExitTypes` | `Spec => []TypeOK` |
| `AlwaysSellsItsPortion` | `Spec => []SellsItsPortion` |
| `ReportIsAlwaysTrue` | `Spec => []ReportIsTrue` |
| `OneCutIsAlwaysEnough` | `Spec => OneCutIsEnough` |
| `OffersAlwaysCovered` | `Spec => []OffersAreCovered`: also with unseen SELLs, all tries together offer no more than what was delivered |
| `ExitIsFinite` | `Spec => [](StepsLeft \in 0 .. MaxChecks + 2 * MaxRetries + 1)`, and no step of the exchange or the chain adds to `StepsLeft`, each step of the exit takes from it |

`ExitInv` says, while every accepted SELL is seen (`Reliable`), that the exchange has
the order of the present try once it is placed and none before (`OffersKept`), and that
a size that was cut is no more than what was delivered (`CutIsCovered`): tokens only
arrive, so the cut cannot be refused again. `PlaceKept` has the step a rounding may lose
between the size and what is signed. With unseen SELLs the offers of earlier tries remain;
`UntriedKept` adds that a try that is still to come has offered nothing, so an offer the
exchange finds covered is one more term of the sum. The sums over the tries are folds
over the subsets of `Tries`. That such a fold exists, is a natural number and changes by
as much as one of its terms (`PartialExists`, `TotalIsNat`, `TotalOfChange`) is proved
with an induction of its own: for a *set* of naturals (`Induction`) or of sets
(`SetInduction`), from the well-foundedness of the naturals, where the library's theorems
take an operator.

`TradeProofs` proves, from `ConfigAssumption`, `MarketAssumption`, `FeedAssumption` and
`PayloadAssumption`, for every band, stake, slippage, tick, book, feed and payload, and
every value a rounding may give:

| theorem | statement |
|---|---|
| `TradeInvariant` | `Spec => []TradeInv` |
| `StakeAlwaysTheLimit` | `Spec => []StakeIsTheLimit` |
| `AlwaysReachesTheAsk` | `Spec => []ReachesTheAsk` |
| `UnflaggedAlwaysInBand` | `Spec => []UnflaggedIsInBand` |
| `DataInvariant` | `Spec => []DataInv` |
| `TradeTypes` | `Spec => []TypeOK` |
| `BooksAlwaysCoverTheWallet` | `Spec => []BooksCoverTheWallet` |
| `VerdictIsAlwaysThePayout` | `Spec => []VerdictIsThePayout` |
| `ProbeAlwaysMeetsItsMarket` | `Spec => []ProbeMeetsItsMarket` |

Lemmas bound each rounding (`RoundDownIsNear`, `RoundNormalIsNear`, `CeilIsAbove`), then
the amounts (`MarketBuyAmounts`, `LimitBuyAmounts`), then what a trade at a price
they allow may cost (`AllIsPaid`, `HalfIsPaid`, `SharesArePaid`). `TradeInv` carries the
bounds along: a quote reaches its ask and the markup or the cap, the money of an order
pays at its limit for all but a step of its shares, a fill cost no more than the
price it is reported with. The best ask is the minimum of a set, which exists by the
well-foundedness of the naturals (`LeastIsMember`).

`DataInv` follows the records from step to step: their types (`RecordsKept`,
`FlagsKept`); what is known where (`PlaceKept`: the market found is the window's, the side
is chosen, the truth is out); that the limit is within a dollar and a market BUY signs
for its stake but a cent (`LimitKept`); what a fill cost, by the way it will be booked
(`CostKept`); and that the wallet has the token of the side bought (`TokenKept`). The
readings of a payload are lemmas: the place of an outcome (`PlaceIs`), which market is
usable (`UsableIs`), that the one found is the window's (`DiscoveredIsWindow`), and what
the resolution and the probe read from it (`FinalVerdict`, `ProbeIsWindows`). `HalfIsBooked`
and `AllIsBooked` compare what a trade costs with what is booked for it.

Two statements are as strong as the code allows and no stronger. `BooksCoverTheWallet`
and `VerdictIsThePayout` grant a `RoundingLoss` of 0.0005 dollars: the shares of an order
are rounded down, its amounts so allow a price slightly above its limit, and a small
order that trades there is booked at the limit; TLC finds such a trade if nothing is
granted. The price bound of `TypeOK` is for ticks that can be signed for: with an odd
tick, such as 0.049, the rounding up to a tick may pass a dollar, and the order is then
refused.

Model-checked only:

- the liveness properties (`ClaimsConclude`, `PauseIsObeyed`, `TradingGoesOn`,
  `EntryReturns`, `ExitReturns`, `FillsAreSettled`): liveness under fairness and ENABLED
  are beyond the installed provers. `EntryIsFinite` and `ExitIsFinite` prove the safety
  half of two of them for every setting, that the steps of an entry and of an exit run
  out; what TLC adds is that there always is a next one until the end.

Every invariant and action property of the passing runs, and both refinements, are
proved.

No module declares a RECURSIVE operator.

## 6. Findings

1. `ClaimsSafeFallback`. With a Safe as funder, the relayer mode and the fallback
   to direct redeems (the settings of the template `src/.env.example`; without settings
   the mode is direct), a relayer failure is followed by a redeem
   signed by the key's own address. It succeeds on chain, redeems nothing, and
   the claim is recorded as completed while the tokens are still there.
2. `TradingLoopReset`. A `/resume` handled between the guard's pause and the loop's
   next look at the flag lifts the pause, but the counter is not reset: the next
   loss pauses trading again. (`GuardHolds` shows the error is on the safe side.)
3. `TradingLoopCommands`. The first non-empty answer to the Telegram poll is
   skipped as backlog even if it was sent after the start.
4. `OrderEntryStake`. After a few unusable status answers the entry gives an order
   up and buys again; if the first order was filled, the stake is spent twice.
5. `PostFillSellFraction`. A SELL whose answer is lost is posted again; with a
   fraction of one half the whole position may be offered.

## 7. What the properties do not cover

- `OneBuyPerWindow` grants one more reported buy per restart, and the orders of an
  entry beyond the reported one as many as `ORDER_MAX_ATTEMPTS`; `BuysAreAccounted`
  counts the trades a crash cuts off, an entry does not report or a failed resolution
  drops: this is what the code does, and the properties say how far it may go.
- `NothingForgotten` excepts the trades whose line a crash in a write may have cost:
  those in the file when it died in a rewrite or an append, and the one appended next.
  A line cut within a character of several bytes would make the file unreadable for
  good, restarts included; that is not modelled (what the bot writes is ASCII unless
  Gamma's texts are not).
- `CooldownHonoured` excuses a process younger than the cooldown: the cooldown, like the
  loss counter, is in memory only, and a restart trades at once.
- `StaleNeverObeyed` is about a backlog within one answer of `getUpdates`, which holds
  100 updates at most; of a longer one the rest would be obeyed.
- A claim of a market that Gamma does not list, or with
  `ENABLE_GAMMA_RESOLUTION_FALLBACK` off, stays pending, its attempts uncounted
  (`ProbeUnlisted`): `ClaimsConclude` asks that this ends.
- With a relayer whose funder is not the key's Safe, "Success" is recorded for a redeem
  that moved nothing, as with finding 1; `SettledMeansGone` and `KeepsTheBook` are shown
  for the configurations of `RightSigner` only.
- `KeepsTheContract` asks for the right fill of a reliable exchange only. With lost
  answers, and with orders accepted behind an error message, the code does lose fills
  (finding 4 is the case its documentation excludes), and so it does when MATCHED comes
  with `size_matched` still 0.
- `STATUS_POLL_INTERVAL_MS` and `STATUS_POLL_GRACE_SECONDS` are read independently of
  each other: with an interval longer than the grace period a late partial fill can be
  missed even of a reliable exchange, and `KeepsTheContract` asks for no fill.
- The sets of roundings over-approximate the doubles: a property that holds here
  holds for the code, a value that is reachable here need not be. So it shows that
  a market BUY may be signed one tick below the ask it was computed from when the
  cap is the binding limit (0.57 is signed as 0.56), and that a band whose maximum
  is no whole number of ticks refuses asks it admits, once they are rounded up.
- Of `Trade`: the tick 0.0001 is in no run and not among `SupportedTicks` (a mil is
  the unit); fees are not computed by the code either; the PnL ignores what the
  exit SELL brought in, as in the code. A payload whose third outcome comes without
  a third token would index past the tokens; it is not among the payloads. With
  the gate off an ask above 0.98 is answered by an order at 0.98.
- Gamma sends `outcomePrices` as strings, which the discovery reads as no price: the
  fallback of the resolution then finds no side and the trade is not recorded.

Not modelled, because they keep no state of interest: HTTP, parsing, signing,
messages, logging, the reading of the environment, the result logger (which
nothing calls), the Chainlink anchor (a stub), the `--once` mode (one cycle, one
sweep), the tests.

## 8. Plan

1. Composition: `TradingCycle` with `EntryContract` in place of its entry step,
   `TradingLoop` over `TradingCycle`, `Trade` inside the attempts of `OrderEntry`.
   `EntryOutcome` states what an entry leaves; that the entry steps of `TradingCycle`
   are those outcomes is argued, not proved.
2. Proofs: that the attempts of a claim run out (a rank for `Claims`, as `StepsLeft` is
   for an entry).
