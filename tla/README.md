# A verification project for the clob program

TLA+ models of the on-chain order book in `program/src` and of the calls its Rust
client in `sdk/rust` builds, model-checked with TLC, with theorems checked by TLAPS. Line numbers refer to files under `src/`.

## 1. The system

One Solana account per market holds everything: a header, an occupancy bitmap per
side, a ring of price levels, a seat table and a pool of order nodes. The program
is a set of instructions over that account and two token vaults; a config account per
authority names who may admit makers and who may move windows.

| Component | State it keeps | Operations | Hard part | What makes it correct |
|---|---|---|---|---|
| Order book account (`state.rs`) | header, bitmaps, levels, seats, node pool | alloc/free node, FIFO append/unlink, chain splice/unlink, lock/unlock, kill, insert | five interlinked structures edited by index; freed nodes keep stale fields | lists run through exactly the live orders; locks equal orders; free list complete |
| Maker (`maker/`) | none of its own | PlaceLimit (post-only, zero size), Cancel, MassQuote | merge of a payload with a live linked list; slides; failure midway | the seat ends with exactly its payload; queue places kept or lost as promised; ids name one order |
| Taker (`taker/`, crossing PlaceLimit) | none | take walk, PlaceTake, Swap | expiry and own orders removed while walking; budget and fee rounding | price-time priority; takes all it can; every atom accounted for |
| Seats and custody (`seat/`) | owner and balances in the seat, the vaults | Claim, Close, Deposit, Withdraw | seat reuse; transfer fees on the way in | vaults hold what is owed; seats change hands empty |
| Fees (`admin/collect_fees`, `update_fee`) | accrued fees, rate | CollectFees, UpdateFee | fees paid once | conservation |
| Hygiene (`hygiene/`) | anchor | Reanchor, ReapExpired | ring positions change meaning; budgets; walking while freeing | exactly the orders outside the window, or exactly the first expired ones, end |
| Bitmap (`state.rs` Bitmap) | leaf and summary words | set, clear, scan up, scan down | two levels; scans wrap at the ring's end | behaves as a set of ticks |
| Market creation (`admin/create_market.rs`) | mints, vaults, sizes, tick limit, authorities | CreateMarket | release builds do not check arithmetic; mint bytes walked by hand; one chance to get the vaults right | no market can overflow, share a vault, trade a mint that can be seized, or be created twice |
| Config (`admin/*_config.rs`) | seat and market authority | CreateConfig, UpdateConfig | read by other instructions at the time of the call | changed only by its authority; never lost, never delegated to nobody |
| Entrypoint (`entrypoint.rs`, `lib.rs`) | none | fast path for three maker instructions, dispatch | offsets computed from account lengths | the fast path sees what the generic one would |
| Client (`sdk/rust`) | none | one builder per instruction, snapshot decoding | written apart from the program | every call is understood and served |
| Transfers (`helpers.rs`) | none | TransferChecked | the mint may withhold a fee | credited is what arrived |
| Event logs, tests, fuzz targets, benches | none | | | not modelled |

How they interact: instructions call the book's operations directly; nothing is
asynchronous inside one. The runtime serialises the instructions that write a
market account and reverts a failing one as a whole. Token transfers are calls to
another program whose failure fails the instruction. Interleaving is therefore
between whole instructions of different parties, in any order and with the clock
moving between them; what makes the code hard is that each instruction is a loop
over linked structures other instructions left behind, that it may fail after any
of its changes, and that orders, seats, nodes and ring positions are reused.

## 2. The modules

```
 Occupancy <--implements-- Bitmap          MarketParams  Mints  Calls  Entrypoint
                              |                  |          |     |       |
                   (OrderBook uses Occupancy's   +----------+--+--+-------+
                     view: a set per side)                     |
 OrderBook   operators book -> book                          Venue
    |                                                          |
 Program     variables, start/continue/commit/abort     VenueProperties -- MCVenue (TLC)
    |
    +-- Custody        +-- Maker -- Taker        +-- Hygiene
    |                  |                         |
    +------------------+--- Clob ---------------+
                            |
                       ClobProperties
                            |
 Exchange <--implements-- ClobRefinement -- MCClob (TLC)
```

`Clob` is the inside of one market; `Venue` is the outside of all of them. They meet
in the header: `Venue` writes the terms (sizes, limit, rate, anchor) that `Clob` takes as
constants or starts from, and `Clob` says what a handler does once `Venue`'s account checks
let it run. Reanchor and UpdateFee appear in both, each from its side.

* `OrderBook.tla` has no variables. A book is a record with the account's regions:
  `anchor, freeHead, freeCount, orderSeq, feeBps, fees, seq` (the header),
  `bits` (both bitmaps, as sets of ring positions), `levels`, `seats`, `pool`. Links
  are pool indices, `NIL` is 0 and node 0 is reserved, as in the account. Every
  setter, `FifoAppend`, `FifoUnlink`, `ChainSplice`, `ChainUnlink`, `AllocNode`,
  `FreeNode`, `Lock`, `Unlock`, `KillOrder`, `BookInsert` follow the function of
  the same name, write for write. Two walks are declarative: `find_quote`
  (`QuotesAt`) and the position search of `chain_insert_sorted`. They read the set
  of a maker's live orders instead of following `makerNext`; `ChainsExact` checks
  at every step that the chain runs through that very set in key order.
  The bitmap scans are declarative too (`TicksOf`), which `Bitmap.tla` justifies.
* `Program.tla` holds the five variables: `book` and `vault` as the instruction in
  flight sees them, `ix` the instruction with its operands and loop cursors,
  `committed` the state the last successful instruction left, and `slot`. `Commit`
  makes the working state the committed one (and bumps the change counter, as every
  handler does last); `Abort` returns to `committed`, which is the runtime's revert.
  `Init` is a fresh market with some seats claimed and funded, a state that
  ClaimSeat and Deposit reach; the `custody` run starts with none. `Received(amount)` is
  what a vault gains from a transfer: the amount less a fee the mint withholds.
* `Custody.tla` models ClaimSeat, CloseSeat, Deposit, Withdraw, CollectFees and
  UpdateFee, each one action, since none loops. Signing is owning the seat. A deposit credits
  what arrived, not what was asked for.
* `Maker.tla` models PostOnly and CancelQuote (PlaceLimit's post-only and zero-size forms),
  Cancel, and MassQuote: `BeginMassQuote`, then one `Merge...` action per arm of the
  merge loop's match, `MergeAsks` between the two sides and `MergeCommit`.
* `Taker.tla` models the `take` walk, one action per resting order looked at (`TakeExpired`,
  `TakeOwn`, `TakeFill`), begun by three instructions and ended by their settlement
  (`EndPlaceLimit`, `EndPlaceTake`, `EndSwap`). A swap's budget is what its input leg delivered.
* `Hygiene.tla` models Reanchor (`EnterWord`, `EvictOrder`, `LeaveWord`, `ReanchorCommit`) and
  ReapExpired (`ReapEnter`, `ReapSkip`, `ReapKill`, `ReapCommit`).
* `Clob.tla` is the composition; `ClobProperties.tla` says what is right about it;
  `MCClob.tla` gives TLC its small markets.
* `Bitmap.tla` is the two-level bitmap with words as sets of bits and scans as the code
  runs them over leaves and summary; `Occupancy.tla` is the abstract set it implements.
* `Exchange.tla` is the abstract specification. Its market is two sequences of orders, what each
  seat is worth, the fees, the rate, the vaults and the anchor. A step is a whole
  instruction, given as a relation between two markets: `Quote` moves only one seat's
  orders and no money; `Match` takes a prefix of a line, pays makers their own prices, and
  bounds the fee; `Reap`, `Reanchor`, `Fund`, `Admit`, `Leave`, `CollectFees`, `SetRate`.
  After each, the market is `Sound`: in line, uncrossed, covered, backed, vacant seats empty.
* `ClobRefinement.tla` reads that market from `committed` the way the code does, from bitmaps to
  levels to links, and states `Implements`. It is `Promised!Spec` written with the action formula
  under the subscript `<<committed, slot>>`: `Promised!vars` is a function of those two, so a step
  that leaves them alone is a stutter of the abstract machine, and TLC need not
  evaluate the mapping on the many steps inside an instruction.
* `MarketParams.tla` is create_market's parameter checks and the tick limit they yield.
  `Mints.tla` is what create_market reads of a mint, byte by byte: owner, length, kind, and the
  walk over the extensions. The layout it walks is the token program's and is marked external.
* `Calls.tla` lists, from the generated client, each call's discriminator, accounts with their
  flags, and arguments with their widths. `Entrypoint.tla` has the program's side:
  `Dispatch`, the offsets each handler reads, and both ways of parsing the loader's buffer.
* `Venue.tla` has two variables: `configs` and `markets`, the config accounts and market
  headers by key. An instruction arrives as a discriminator and a list of accounts with keys and
  flags. `...Accounts` is the handler's `TryFrom`: the number of accounts, the signers, the
  owner, length and version checks, the comparisons with header and config, and, where
  tokens move, what the token program will ask. Derived addresses are the tuples of their
  seeds. The actions are the handlers that write terms: `CreateConfig`, `UpdateConfig`,
  `CreateMarket`, `UpdateFee`, and `Reanchor` as far as it writes the header. What is sent is any
  call the client can build, with any keys in its places, with all of its signatures or
  with one missing.
* `VenueProperties.tla` says what is right about it, and `MCVenue.tla` gives TLC two small venues.
* Proof modules: `Clob_proofs` (what each book operation preserves, and the
  program's inductive invariant), `Cross_proofs` (the book is never crossed), `Identity_proofs`
  (orders keep their identity), `Funds_proofs` (swaps, and the conservation of funds), `Structure_proofs`
  (lists, chains, free list, counts, totals and locks), `Exact_proofs` (what instructions leave, compared
  with what they found), `Bitmap_proofs`, `Venue_proofs`.

Definitions whose comment begins with "Faulty:" are deliberately wrong versions of
the definition that follows them. Nothing uses them; substituting one for its
neighbour must break the property PROJECT.json pairs it with.

### Guards on corrupt state

The code returns `InvalidState` where a lock is smaller than a refund or a fill.
In the model those are guards (`Refundable`, `CanUnlock`) of the step: a reachable state in which
one failed would leave an instruction in flight with no step to take, and TLC would report a
deadlock (checked in every run). The same goes for the
vault guards of `EndSwap`: a vault that could not pay would be a deadlock. A failure the code
does expect (no funds, no node, cap reached, slippage, crossing, unsorted payload) is
an `Abort`, or, when nothing has been changed yet, a disabled action next to `Refused`.

## 3. What the runs check

All runs of `MCClob` use a window of 4 ticks in words of 2, tick limit 7 (9 in the hygiene run), a lot
of 3 base atoms, two seats and a pool of 2 or 3 nodes. `MaxOrderIds` bounds the orders issued,
`MaxSlot` the clock, `MaxVault` the deposits; nothing else is cut. The change counter is taken
modulo 1: nothing reads it.

| Run | Instructions | States | Shows |
|---|---|---|---|
| maker | PostOnly, CancelQuote, Cancel, MassQuote | 0.7 M | `TypeOK`, `LevelsExact`, `ChainsExact`, `FreeListExact`, `LocksExact`, `SeatCap` at every step; `OrderIdentity`, `CancelExact`, `MassQuoteExact` of every instruction; `Implements` |
| taker | PostOnly, PlaceLimit, PlaceTake | 0.5 M | `Uncrossed`; `PriceTimePriority`, `TakesAllItCan`, `TradesSettle`, `RestExact`; `Implements` |
| swap | PostOnly, Swap, CollectFees, UpdateFee | 1.3 M | `Conserved`; `TakesAllItCan`, `FeesRounded`, `SwapExact`; `Implements` |
| hygiene | PostOnly, Reanchor, ReapExpired | 2.8 M | `WindowHolds`, `ReanchorExact`, `ReapExact`; `Implements` |
| custody | seat and fund instructions, PostOnly, CancelQuote, PlaceTake | 0.7 M | `FreeListExact`, `SeatsHandedOverEmpty`; `Implements` |
| progress | MassQuote, PlaceTake, Swap, Reanchor, ReapExpired | 0.04 M | `InstructionsEnd` |
| bitmap | Set, Clear | 4096 | `SummaryExact`, `ScansExact`, `IsOccupancy` |
| venue | CreateConfig, UpdateConfig, CreateMarket, UpdateFee, Reanchor | 0.01 M | `VaultsApart`, `MintsSafe`, `ClientsServed`, `RoutesAgree`, `TermsFixed`, `RolesHeld` |
| market | the same, any parameters | 1064 | `NoOverflow`, `WindowFits` |
| cancel_freed, reanchor_budget, budget_cap | | | section 6 |

`Implements` is one formula over five runs, each with its own instructions: merges and cancels,
matching for a seat, matching without one, windows and expiry, seats and money.
It relates what the others say singly: a trade, for instance, must be at once in turn, at the
makers' prices, within the fee, and leave every queue place and every other seat alone.

Why the bounds are enough for what the runs ask:

* Four ticks in two words: a reanchor by one word keeps half the window and hands the other
  half's ring positions to new ticks; a reanchor by two replaces all. Targets below the
  first word and above the tick limit exercise both clamps; the hygiene run's limit of 9 lets a
  window move by two words with the tick limit still in the middle of a word.
* Two makers with two quotes each and three nodes: lists have heads, middles and tails,
  both sides fill, slides collide with a maker's own quote, the cap and the pool's end
  are both met, and every slot is reused.
* Lots of one or two: amend down, same, and up; partial and full fills.
* Four order ids in the maker run let a slot be reused twice while the cancel set quotes every
  id issued. In the custody run the id of freed nodes is 2 and three orders are issued, so the
  counter meets it and must skip it. The cancel set leaves out `FreedSeq`, which is the subject of `cancel_freed`.
* A swap of 9 atoms is too little for the largest order at once and too much for its first part: it fills
  one order twice, which is the case `FeesRounded` allows a second rounding for.
* Fees: the denominator is 10 and rates up to 3 with a cap of 2 (one is refused), so that
  fees of these small notionals are nonzero and rounding matters.
* Balances are chosen so that some orders and takes are affordable and some are not.
* Bitmap: six leaf words under three summary words, so scans cross groups of words, which
  the code's 128 leaves under 2 words do at one place.
* Fees withheld are 0 or 2 atoms per transfer where tokens come in (swap, custody), so a leg may
  arrive whole, short, or, for amounts below the fee, at no fee at all.
* Venue: two markets so that vaults and configs could be mixed up; two wallets so that one may
  hold a role the other lost (interchangeable, hence the symmetry); one mint each of the
  legacy program, with harmless extensions, with a delegate behind another extension,
  and an account that is no mint; calls with a missing signature at every position. Two
  parameters suffice there: the parameter checks are the market run's.
* Market: widths of 9 and 5 bits make either operand of the tick limit's minimum decide.

Scaling: one more node, id or instruction in a run multiplies its states by five to
twenty; the split into runs by actor is what keeps each question within minutes.

### Fairness

`FairSpec` adds `WF_vars(Step)`: an instruction the runtime has begun is executed to its end,
because a transaction is not suspended between two of its operations. Nothing is assumed
about which instructions are sent, nor that the clock moves. `InstructionsEnd` then says that no
loop runs forever: the one thing left that could keep an instruction from ending is that its
steps stop consuming what they walk over. (A cycle in a corrupt list would exhaust the compute budget
in reality; the model has no budget, so it would show.)

## 4. What is proved

TLAPS checks the theorems below for every value of the constants the assumptions allow:
any window of whole words, any pool, seat table, tick limit, lot and tick size, fee
rate, and any operands. The assumptions are `BookAssumption`, `ProgramAssumption`, one
per instruction module, `BitmapAssumption`, `ParamsAssumption` and `VenueAssumption`; TLC evaluates them
in every run. They fix no size: they say that counts are numbers, that the window is
a positive number of words and fits below the tick limit with a word to spare
(what create_market establishes), and that the fee cap is below the fee denominator.
`BookAssumption` also says that a pool has no more nodes than a 16-bit count holds, as
`MAX_POOL_CAPACITY` and the u16 links of a node have it.
One more, `VaultAssumption` of `ClobProperties`, says how a run may start: the vaults hold what
the deposits of the seats taken before the run credited.

Four hypotheses appear in theorems, and are part of what they say. `FreedSeq \notin CancelIds`: nobody
cancels the id that marks freed nodes, which the code would accept and which ends an order
twice (`cancel_freed`, section 6); without it the structure does not hold. `MaxOrderIds <= FreedSeq`: the
id counter has not come round. `CapPays`, of one theorem: what `take` caps the budget of one fill to pays for
a lot at the tick limit. create_market's bound on the tick limit gives it for markets whose largest order is
two lots or more; where an order is a single lot it may not hold, and a take may stop early (`budget_cap`).
`CapFits`, of two theorems, is stronger: the cap pays for the largest order at the tick limit. create_market bounds
that order's value, times the fee denominator plus the highest rate, by u64; `CapFits` asks for the same with the
factor of one fee (at most 1.05) to spare. Between the two a fill may be cut by the cap and resumed, and its fee rounded each time.

| Theorem | Says | Module |
|---|---|---|
| `TypeCorrect` | `Spec => []TypeOK`: no balance, vault or fee total goes below zero (the code's subtractions never wrap), no link leaves the pool, no cursor its range | `Clob_proofs` |
| `WindowBounded` | the price window stays word aligned, a word clear of tick 0 and within the tick limit, and the fee rate capped, also in the state a failure reverts to | `Clob_proofs` |
| `CursorsSound` | between its steps a take has charged no more fee than it traded and filled no more than its size; a merge's cached opposing price and a reanchor's cursor are in the window | `Clob_proofs` |
| `SwapKeepsWhatItSpent` | `Spec => SwapExact`: a swap spends exactly its notional and fee, never more than arrived, returns the rest and pays at least its floor | `Funds_proofs` |
| `FundsConserved` | `Spec => []Conserved`: each vault holds what the seats are credited, free and locked, the fees to collect and the amounts in flight, at every step | `Funds_proofs` |
| `BitmapCorrect`, `BitmapIsOccupancy` | set and clear keep the summary exact; the bitmap implements a set | `Bitmap_proofs` |
| `ScansAgree` | `Spec => []ScansExact`: every scan of every aligned window, across the ring's end too, finds what the set of occupied ticks says | `Bitmap_proofs` |
| `NeverCrossed` | `Spec => []Uncrossed`: no bid rests at or above an ask, at any step of any instruction | `Cross_proofs` |
| `IdentityKept` | `MaxOrderIds <= FreedSeq /\ Spec => OrderIdentity`: under one id an order never moves, changes hands or grows, and an id names one order for ever | `Identity_proofs` |
| `WindowKept` | `FreedSeq \notin CancelIds => (Spec => []WindowHolds)`: every live order lies in the window, so no two live prices share a ring position, and the window is aligned and within its limits | `Structure_proofs` |
| `ChainsKept`, `CapKept` | under the same hypothesis, `[]ChainsExact` and `[]SeatCap`: a seat's chain runs through exactly its live orders in strict key order, its count is theirs, and no merge, fill or eviction takes it over the cap (twice the cap inside a merge) | `Structure_proofs` |
| `FreeListKept` | likewise `[]FreeListExact`: the free list holds exactly the nodes no live order uses, each once | `Structure_proofs` |
| `LocksKept` | likewise `[]LocksExact`: a seat has locked exactly what its live orders lock | `Structure_proofs` |
| `LevelsKept` | under both hypotheses, `[]LevelsExact`: bits, links, totals and age order of every price level | `Structure_proofs` |
| `SeatsHandedOver` | under the first hypothesis, `SeatsHandedOverEmpty`: a seat that changes hands holds no balance, order, chain or count, before and after | `Exact_proofs` |
| `CancelsExactly` | under both, `CancelExact`: a cancel ends the order whose id it quotes and no other, and returns its lock | `Exact_proofs` |
| `ReanchorsExactly` | under the first, `ReanchorExact`: a reanchor ends the orders its new window excludes and no other, and moves the window towards its target, short of it only when its budget ran out | `Exact_proofs` |
| `ReapsExactly` | under both, `ReapExact`: a reap ends the first expired orders of its side, by tick and age, as many as its budget and one if that is zero, and no other | `Exact_proofs` |
| `InTurn` | under both, `PriceTimePriority`: a take has filled every tradable order before one it filled, by price and age, its totals are its fills at their own prices, and it took lots off no other order but expired ones and its own | `Exact_proofs` |
| `RestsExactly` | under both, `RestExact`: a crossing limit rests its unmatched lots at its limit in one order and leaves the maker's other orders of that side alone | `Exact_proofs` |
| `TakesInFull` | under both and `CapPays`, `TakesAllItCan`: a take that stops short has left no tradable order, or cannot pay for a lot of any that is left | `Exact_proofs` |
| `PaidInFull` | under the first two, `TradesSettle`: a take has moved each maker's totals by its own fills at its own prices and by nothing else, the taker's by their sum and the fee, and the market's fees by that fee | `Exact_proofs` |
| `RoundsOnce`, `CapIsLossless` | under the first two and `CapFits`, `FeesRounded`: the fees of a take lose the market less than an atom per order filled, and once more at the order a budget ends at; `[]CappingLossless`: the cap on a budget changes no fill | `Exact_proofs` |
| `MergedExactly` | under the first, `MassQuoteExact`: a merge leaves its maker exactly the payload, an order it could keep under its old id, and moves no other seat's order or balance and no seat's totals | `Exact_proofs` |
| `StartsAsPromised` | under the first, `Init => Promised!Init`: a new market is one the abstract exchange starts with | `Exact_proofs` |
| `StepsBesideLines` | under the first, of every success (`PromisedBeside`): a custody instruction is a whole step of the abstract exchange (`Fund`, `Admit`, `Leave`, `CollectFees` or `SetRate`); any other changes only the parts its abstract step may (`OnlyIn`), a take with a seat not the vaults; and the market left is `Backed` and `Vacant` | `Exact_proofs` |
| `NeverOverflows`, `WindowAlwaysFits` | no market, at creation or after any fee change and reanchor, has a tick, size and fee rate whose products leave u64, or a window outside its limit | `Venue_proofs` |
| `VaultsStayApart`, `TermsNeverChange` | no two ledgers share a vault; only a market's fee and anchor ever change | `Venue_proofs` |
| `RolesAlwaysHeld` | configs, markets, fees and windows change only under the signature of the role's holder at the time | `Venue_proofs` |
| `MintsAlwaysSafe` | `Spec => []MintsSafe`: no market trades a mint with a permanent delegate, nor an account that is no mint, however many extensions of whatever lengths its mints carry | `Venue_proofs` |
| `ClientsAlwaysServed` | `Spec => []ClientsServed`: every call the client builds is dispatched and read as it was packed, and passes every check its market's terms and current roles allow; what the client decodes is what the program accepts | `Venue_proofs` |
| `RoutesAlwaysAgree` | `Spec => []RoutesAgree`: the entrypoint's shortcut, at offsets it computes, sees the call the generic walk sees, for markets of any lengths | `Venue_proofs` |

**The program's invariant.** `TypeOK` is not inductive: a slid price is `best - 1` or `best + 1`
and a tick is stored as a ring position, so a step keeps the types only if the window stays
clear of tick 0 and below the limit; a fee keeps the seller's proceeds positive only if the rate
is below one; an instruction in flight uses values computed steps earlier. Hence
`IInv == TypeOK /\ Header(book) /\ Header(committed.book) /\ Progressing(book, ix)`, where
`Header` is the window and the fee cap, needed of `committed` too because a failure brings it
back, and `Progressing` is what each kind of instruction relies on between its steps. TLC
confirmed `IInv` on the maker, taker and hygiene instances before it was proved.

**The argument.** No step relies on the lists being well formed. Each of the book's operations
preserves `Kept` (the record's type, the window, the fee rate): the setters first, then the
list and chain operations as compositions of setters, then kill, shrink, insert and fill.
`Kept` is transitive, so an instruction step is a chain of `Kept` facts. The balance side rests
on the guards the code has: a lock is refunded only when the seat's locked balance covers it
(`CanUnlock`), a taker pays only what `SeatPays` found. The walks pick extremes of sets of ticks; that these
exist is `NatLeast` and `NatGreatest`, from the well-ordering of the naturals.

**The swap.** `SwapInv` adds to `IInv` that the vaults are as committed except for the input in
flight, and that a quote budget is never exceeded with fees included. The budget holds per fill
(`BudgetHolds`): with D the fee denominator and f the rate, lots are bought within
`net = budget * D \div (D + f)`, the fee on a cost `c <= net` is at most `c * f / D`, and
`c + c * f / D = c * (D + f) / D <= budget`; both roundings go the right way. It holds also when the
code caps the budget to keep the product in u64.

**Conservation.** `Conserved` is a sum over all seats, a recursive function on sets of seats, for
which the library has no fact that this prover can use. Three are proved first: such a function
exists (otherwise the least set without one would have one), a sum changes by what one summand
changes (`SumOverChange`), and a sum of sums splits. An operation is then either `Even`, each seat
keeps its total of each asset, or `Gets`, one seat gets an amount of one asset: a refund, a
lock, an eviction and a reap are `Even`, a fill is two `Gets` that cancel but for the fee. The
invariant `FundsInv` is `IInv`, `Conserved`, and the same equation of the committed book and
vaults, because a failure returns both. The taker's amounts in flight settle in its last step.

**Never crossed.** `Uncrossed` compares the best prices, which every operation may move. The
proof compares bits instead: `Apart(b)` says that every occupied bid tick is below every
occupied ask tick. Most operations only clear bits (`Clears`), which keeps `Apart`. One sets a
bit: the insert, and it does so at a tick that the other side does not meet. For a post, and for
what a crossing limit leaves to rest, that is the check against the best opposing price at that
moment. A merge checks against the price it read before its side began, so the invariant carries
`Riding`: while a merge of one side runs, every opposing bit is still at or beyond the price it
remembers. A reanchor changes what a bit means: `Riding` says that the words it has passed are
empty on both sides, so every bit that survives the commit names the tick it named before. A
failure returns to `committed`, so its book is `Apart` too. `CrossInv` is `IInv` with these.

**Identity.** `Descends(b, c)` says that every node of `c` is freed, or holds what it held in `b` and no
more lots, or an id the counter issued between the two. It is transitive, so an instruction is a
chain of such facts, one per operation, and again none looks at a link: even an allocation that
handed out a node in use would only end the order there. The hard cases are the ones that could
reuse an id or enlarge an order under it: an amend (a larger size ends and posts again), a partial fill (its
lots come from a budget with divisions, and must not be negative), an insert. The invariant says
that committed ids lie below the counter, that the working book descends from the committed one,
and that the instruction in flight still has its ids set aside, per remaining quote for a merge (`Room`).
The hypothesis `MaxOrderIds <= FreedSeq` says that the counter has not come round, which takes 2^64 orders.

**The structure.** None of `WindowHolds`, `LevelsExact`, `ChainsExact`, `FreeListExact`, `LocksExact`
and `SeatCap` is inductive alone: an unlink is right only if the node's neighbours are what its links
say, an insert only if the node it got is not in use, a refund only if it is part of what is locked.
`SInv` is `CrossInv` with, for the working and for the committed book,
`Sound == Listed /\ ChainsAt /\ FreeAt /\ Counted /\ Housed /\ Summed`, with `Working`, which says what an
instruction in flight has in hand, and, while ids are not reused, `Named` of `Identity_proofs`.

* `Listed`: there is a rank of the nodes that grows along every level's links, ends meet head and
  tail, and neighbours point back at each other. A rank stands for the list itself, so that
  no walk is needed; while ids are not reused the id is one (`Dated`), which is time priority.
* `ChainsAt`: the same for seats, with side and tick as the rank, strictly growing.
* `FreeAt`: the free list as a function from its positions, without repetition, onto the unused nodes.
  Only this one is a walk, because its links have no order of their own.
* `Counted`: a seat's count is the number of its live orders, in 16 bits that never wrap.
* `Housed`: a live order has lots, a tick in the window, and a maker whose seat is owned.
* `Summed`: each level's total is the sum of its orders' lots, each locked balance that of its locks.

Each operation of the book is first read once, as what it does to every node, level and seat:
`Ended` (a node left its level and its chain, and was freed), `Entered` (a node was allocated at the back
of its level and in its place in the chain), `Alike` (none of this changed). From there on
lists are argued about through what they read of a node, not through the code's writes. An order that
ends anywhere in a level or chain and one that enters at its place each keep every part of `Sound`; that
the place is right is where the instructions come in. A post searches it, so the search must
find the neighbours in key order. A merge does not search: it splices at its cursor, and
the invariant of the merge (`Merges`) says why that is right: the cursor and the order before it
are neighbours in the seat's chain; what lies behind is no further in key order than the last
quote placed; asks still to come lie above the remembered bid; and no more orders were added than
quotes were consumed, so the count stays within the cap plus the payload. The reaper's cursor is a live order: its link is read before
its node is freed. `LevelsKept` and `LocksKept` at last turn sums over a rank's set into the sums the
properties write, with the facts about sums the conservation proof needed.

**What instructions leave.** An action property compares the book a successful instruction leaves with
the one it found, so the invariant must remember the latter. `EInv` is `SInv` with `Since`: since the
last success no seat changed hands, no anchor or rate changed, and nothing entered a seat nobody owns (`Respects`), which
holds all through a take because the maker of a live order has an owner (`Housed`) and so
has the taker; outside a take every seat has what it had (`Even`). Only ClaimSeat and CloseSeat write an owner, when the
free balances and the count are zero. That the locked balance is zero then, and no order left, is not in the code's
checks: it follows from `Counted`. For a cancel the id must name one order: `Dated` says that two live orders never
share a rank, and while ids are not reused the rank is the id.

Two loops need more of what happened since they began. `Evicting` says of a reanchor that the working
book is the committed one with some orders ended and the rest as they were (`Thinned`), that those ended
lie behind the window that starts at its cursor, and that before its first word it evicted none. What is
live after the commit lies in its window (`Housed`), so that window decides exactly who is gone. `Scanning` says of a reap that the orders ended are those due (`Due`) that its cursor has passed,
and how many. When it steps along a level, what follows in the queue must be next in
age (`HeadFirst`, `NextFirst`, from the rank), and the link must still be right although the scan frees
nodes; when it skips to the next occupied tick, nothing due may lie between. A stop on the budget
then leaves a prefix of the orders due, and a stop at the window's end all of them. TLC confirmed both
on the hygiene instance (2.8 million states).

**Takes.** The invariant of a take (`Walking`) compares the working book with the committed one. `Walked`
says that the committed orders are still there or have ended, none with more lots than it had (`Slimmed`);
that one which lost lots is hit: it was tradable, or expired, or the taker's own; that at most the order at
the front of the current level is hit and still alive; and that no tradable order outranks a hit one and is
untouched. A step takes lots off one order, the head of the best level left (`Drawn`), so the proof is that this
head outranks every tradable order still live (`HeadWalks`: the level is the best by `TakeLevel`, the head is
its oldest by `Listed` with the id as rank), and that an order skipped as expired or own is not one it
may trade with. `Tallies` says that the totals are the sums, over the orders of the committed book, of what they lost and of what that
cost at their own ticks; here too a step changes one summand. The step that ends a take also settles it
and may rest the leftover, which adds an order or enlarges the taker's own at its limit; neither touches an order
it may trade with (`TakeLeaves`). For `TakesAllItCan` the walk must have stopped for a reason: no level left within the limit,
so no tradable order left (`NoneLeft`), or a head of which the budget buys no lot; every order left is then no
cheaper, and `Unaffordable` turns the code's two divisions into the inequality of the property. TLC
confirmed the first two parts of `Walking` on the taker and swap instances. The third, `Paying`, says that each seat's total
of each asset is what it was and what its fills brought it (`Earned`): an order that is ended returns its lock to its own
seat, which moves no total, and a fill moves its maker's by what `FillPays` reads off the code's two transfers. The last
step pays for the take (`TakePays`): the sum of the makers' gains is what the taker loses, the fee on top.

For `FeesRounded` each fill must be charged to an order of its own (`Sparing`): what rounding has spared is bounded by
the orders filled (`Answering`), as long as the filled order that still stands, of which there is at most one
(`OneOpen`: of two, one outranks the other), ends the take because its size is done, or has used up the budget (`Short`). What is then
left of the budget is less than a lot and the part of an atom the rounding spared (`BudgetShort`), so one more fill, of a single lot, is
possible, after which the budget pays for nothing (`LastLot`). The bound therefore has one more for budgeted takes, and TLC finds the take
that needs it. TLC confirmed `Sparing` and `CappingLossless` on the swap and taker instances (1.3 million and 0.5 million states).

**Merges.** The invariant of a MassQuote (`Merged`) compares the working book with the committed one at every
step of the two-pointer walk. Behind the cursor the maker's orders are the quotes consumed, one each and in
their order (`Laid`, a bijection that respects prices: `Placed`); ahead of it they are as they were (`Ahead`) and lie
above every quote consumed (`Late`), which is why a quote that is inserted, or slid when it would cross, still lands
between the two. Whatever was ended had to be: its price is not quoted, or for more lots than it had (`Dropped`,
`Justified`). Nobody else's orders or seat moved (`Aside`). Each step moves one order across the cursor: a cancel ends
the order at it, a kept order is crossed as it stands or with fewer lots, a quote is inserted in front of the cursor
(`InsertEnters`, `InsertBefore`) or reposted under a new id; when the bids are done
`Laid` carries them through the asks. At the end nothing is ahead of the cursor, so the seat's orders are the payload. A payload in
strict order has one bijection, hence the ranks of the property (`PlacedRanks`). TLC confirmed the invariant on
the maker instance (711 thousand states) before it was proved.

**The refinement.** The abstract market is a function of `committed`, so each fact about it is one about the book a success
leaves. The lines are recursive functions of the pool, the levels, the bits and the anchor and of nothing else, so two books that
agree there have the same lines, whatever those are (`LinesStand`); a new book sets no bit, so its lines are empty, by a least counterexample
(`NoOrders`). The abstract sums are the ones of the conservation proof (`TotalIsSum`), hence `Backed` from `Funded`
and `Vacant` from `Since`. A custody instruction starts from the committed book and vaults (`IdleCommitted`) and pays one seat
(`PaidPromised`), hands one over (`HandedPromised`), or writes the fees or the rate. For the others, `Since` says that no
owner, no anchor and no rate changed since the last success, and outside a take no total (`KeepsFunds`), until reanchor
writes its new anchor last; `InputHeld`, from the proof about swaps, that nothing but a swap has moved the vaults.
TLC confirmed `PromisedBeside` on the five instances of `Implements`.

**The bitmap's scans.** A scan skips empty summary words, takes the lowest or highest bit of a word, and restarts
at the next word: two recursive functions over groups and words. That such a function exists
and has the value of its body is proved once (`Recursion`, from the least index without a partial solution). Then
a least counterexample over the groups left (`UpScanSolves`, `DownScanSolves`) gives what a scan of a run of words
finds: a group whose summary word is zero has no occupied word (`SummaryExact`), and of the words of a group the nearest one that
is not empty holds the tick. The window is a run of words, or two where it meets the ring's end; a
tick's ring position is its remainder, and within a window remainders are unique (`TurnUnique`), so the second run's ticks are
all further than the first's. `NextFinds` and `PrevFinds` put the two together for a cursor anywhere in the window.

**The venue.** Its invariant (`IInv` of `Venue_proofs`) says that configs are made whole and
never delegate to the zero key, that an account keeps its length, that a market's header is what `NewHeader`
writes for accepted parameters and mints, with an anchor and a rate still in range (`ParamsFit`, `TermsFit`),
and that its config exists; `RolesAlwaysHeld` then needs, per action, that the account that had to sign is the
role's holder. Vaults are apart because derivation is injective (tuples of seeds) and base and quote differ.

What the two mints' bytes say is another matter: it rests on recursive functions over data, the concatenated
entries and the walk over them. Each is treated like the scans of the bitmap: a solution of its equation exists
(`Recursion`, `Accumulation`), so the function is one, and a least counterexample gives what it computes. The
entries lie one behind the other, each with its type and length in its first four bytes (`EntryIs`,
`EntriesLie`); from the start of an entry the walk therefore reads that entry's type, and moves on to the next entry's start, never into a
value (`WalkFinds`); so the program accepts exactly the initialized mints no delegate holds (`AcceptedAre`).
The offsets of packed arguments are sums in the same way (`Starts`): one argument more lies behind the rest
(`PackedMore`), and a side's quotes behind the other's (`PackedQuotes`), which is what the handlers' layouts say
(`FixedCallsUnderstood`, `MassQuoteUnderstood`). A call brings each key in the place of its name (`Brings`), and the invariant gives
the header and config those keys are compared with (`Serves`, `MarketMade`). The entrypoint's rounding up of
each record's end to 8 bytes steps over it from any aligned start (`SizeIs`), so the offsets it computes are the starts of
the two records and of the data (`TwoRecords`, `Peeks`).

`VenueAssumption` says that nobody signs for the zero key, that accounts have lengths, and that the accounts
passed as mints are laid out as the token programs lay theirs out (`IsTokenAccount`): extensions of any 16-bit types and lengths, and none
under the program that has no extensions. The layout itself is the token programs', not this repository's.

## 5. Only model-checked

* Liveness (`InstructionsEnd`): fairness and ENABLED are outside what the prover handles.
* `LevelsExact` once ids come round: its age order is then false, the rest is `Listed` and is proved.
* `Implements`, for the order of the lines. `Requeued`, `Reanchor` and `Reap` compare lines with `SelectSeq`, which the
  prover can neither expand nor has facts about, so those steps cannot be shown to be theirs; a swap's `Match` does without,
  but follows a line order by order, which is the induction over data that stays with TLC.
  What does not depend on it is proved: the initial states (`StartsAsPromised`) and, of each step, the custody instructions and
  everything beside the lines (`StepsBesideLines`). Of `Sound`, a success is proved `Backed` and `Vacant`; `InLine`,
  `Uncrossed` and `Covered` are about the lines (`LevelsKept`, `NeverCrossed` and `LocksKept` say the like of the book).

## 6. Where the documentation and the code differ

Each of the first three is a run TLC must find violated.

* `cancel_freed`: `state.rs:1692` says the id comparison alone rejects ended orders. It
  does for ids ever issued, but the id that marks a freed node is itself accepted when
  quoted by the seat that last used the node.
* `reanchor_budget`: `state.rs:2167` bounds the eviction by `max_levels` levels; the code checks
  its count, which counts orders, only before entering a word.
* `budget_cap`: `state.rs:1831` calls the cap on a take's quote budget lossless, because one order's
  notional is below it. It is, but the capped budget must pay the fee as well (1837), so near the tick
  limit at the highest rate it pays for less than one order: a larger order is filled in two parts, and
  where an order is a single lot the take stops before it with its budget untouched. `TakesAllItCan` is
  checked where the cap does not bind.
* `state.rs:2228` reaps "up to `max_count`"; the budget is compared after an order was reaped (2258), so a
  budget of zero reaps one, as `ReapExact` says.
* `state.rs:1952` says a quote whose slide collides with the maker's own quotes is dropped;
  `state.rs:2111` and the code reject the whole instruction. `MergeInsert` models the code.

## 7. What is not modelled

* The account's byte layout. The model's fields are the code's getters and setters; only the offsets that
  two parties must agree on (account lengths, instruction data, mint extensions) are modelled.
* The token program's ledger: balances of accounts that are not vaults, frozen accounts, supply.
  A transfer either happens, less a fee, or fails the instruction.
* u64 wrapping of balances: `NoOverflow` shows the products fit; sums of deposits are bounded by token supply.
* Ids beyond the wrap of the 64-bit counter: the skip of `FREED_SEQ` is modelled and checked, but
  `OrderIdentity` and `CancelExact` are claims about ids not yet reused.
* `scale.rs` (decimal text and price conversion), `live_orders`, and the builders and CPI wrappers of the Rust
  client; the TypeScript client, which is generated from the same interface.
* Event logs: written, never read by the program.
* Tests, fuzz targets and benches: read as documentation of intent.

## 8. Plan

1. Done: the book, all instructions, their composition, the bitmap and its abstraction.
2. Done: the abstract exchange and the refinement.
3. Done: creation, configs, authorities, the client's calls and the entrypoint.
4. Done: the id counter's wrap; transfer fees on deposits and swaps; `NeverCrossed`, `IdentityKept`.
5. Done: `FundsConserved`; one inductive invariant for `WindowHolds`, `LevelsExact`, `ChainsExact`,
   `FreeListExact`, `LocksExact` and `SeatCap`, which need each other.
6. Done: what an instruction leaves, as a whole: `SeatsHandedOver`, `CancelsExactly`, `ReanchorsExactly`,
   `ReapsExactly`, `InTurn`, `RestsExactly`, `TakesInFull`, `PaidInFull`,
   `RoundsOnce`, `MergedExactly`.
7. Done: of the refinement, the initial states, custody, and what every other step leaves alone.
8. Next: the lines, once sequences can be filtered in a proof.
