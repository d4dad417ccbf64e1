# Omni Core: verification project

TLA+ models of the consensus state of Omni Core (`src/omnicore-master/src/omnicore`),
model-checked with TLC and, where a property is worth having for every size of
the system, proved with TLAPS.

Omni Core is linked into a Bitcoin Core node. It reads every block, interprets
the transactions that carry an Omni payload, and keeps in memory who owns how
many of which token. Every node must compute the same state, so a wrong balance
is a fork, and an assert that fails stops all nodes at the same block.

## Parts of the system

| part | code | module |
|------|------|--------|
| token ledger: balances and reserves per address and property | `tally.cpp`, `update_tally_map` and `getTotalTokens` in `omnicore.cpp` | `Sums`, `Tally`, `TokenLedger` |
| traditional exchange: OMNI and TOMNI for bitcoins | `dex.cpp`, `dex.h`, handlers in `tx.cpp` | `DEx` |
| simple send, Dev OMNI, end of block | `tx.cpp`, `omnicore.cpp` | `DEx` |
| token exchange (MetaDEx) | `mdex.cpp`, handlers in `tx.cpp` | `MetaDEx`, `FeeCache`, `Owners` |
| contract exchange: positions, margins | `mdex.cpp`, `tx.cpp`, `omnicore.cpp` | `ContractDex` |
| managed properties, freezing | `tx.cpp`, `omnicore.cpp` | `Freezing` |
| smart properties, crowdsales | `sp.cpp`, `tx.cpp` | `Crowdsale` |
| fee cache, send to owners | `fees.cpp`, `sto.cpp`, `tx.cpp` | `Owners`, `FeeCache`, `Fees` |
| feature activation | `activation.cpp`, `rules.cpp` | `Activation`, `NodeActivation` |
| state files, restart, reorganisation | `omnicore.cpp`, `persistence.cpp`, callers in `main.cpp` | `Node`, `NodeActivation` |
| pending transactions | `pending.cpp`, callers in `rpctx.cpp` | `Pending` |
| everything else | | see "Not modelled" |

Everything that changes consensus state runs under the lock `cs_tally` (the map of
pending transactions has its own, `cs_pending`). The parts meet in two places: the
tally map, which every handler debits and credits, and the block handlers, which
run the transactions of a block one after the other and then expire what is due. So an
action of the models is one transaction, one payment or one block handler; a loop is
split into steps where its own progress is a question (matching, the scan of the
chain), and `Pending` has the steps between two locks.
`PROJECT.json` lists the parts, the hazards with their lines, and the source
lines of every definition.

## Modules

**Sums** defines the sum of a function over `1..n`, as a recursive function so
that it can be reasoned about.

**Tally** is `mp_tally_map`: a function from address, property and tally type to
an `int64_t`. `CanUpdate` and `Updated` are the condition and the effect of
`update_tally_map`; `Moved` and `CanMove` are the debit and credit, each in an
assert, with which all handlers move tokens. `MaxInt` stands for the largest
`int64_t`, so overflow is reached with small numbers. `getTotalTokens` is the
branch for properties that are not fixed, without the fee cache, which holds no
OMNI or TOMNI.

**DEx** is the exchange. Its variables are `my_offers`, `my_accepts`, the tally,
the block height, `exodus_prev`, whether the process is alive, and one history
variable, `outOfRange`.

| action | code |
|--------|------|
| `SimpleSend` | `logicMath_SimpleSend` |
| `TradeOffer` | `logicMath_TradeOffer`, with `DEx_offerCreate`, `DEx_offerUpdate`, `DEx_offerDestroy` |
| `AcceptOffer` | `logicMath_AcceptOffer_BTC`, `DEx_acceptCreate` |
| `Payment` | `HandleDExPayments`, `DEx_payment` |
| `BlockEnd` | `mastercore_handler_block_end`: `eraseExpiredAccepts`, `DEx_acceptDestroy`, `calculate_and_update_devmsc` |

What is abstracted: only equality of transaction hashes matters, so a new hash is
the least number not in use, and 0 marks an absent map entry. A rejected
transaction changes nothing and is a stuttering step. The outputs of one Bitcoin
transaction are separate payments. Block times are arbitrary, so the vested Dev
OMNI is any amount up to `AllReward`. Doubles of the old price calculation are
exact on the amounts modelled; integer conversions wrap. Transaction types are
taken as allowed, and the receiver of a send runs no crowdsale. A failed assert
ends the process: `alive` becomes false and nothing happens any more. The initial
balances are the ones `TXExodusFundraiser` credits; on the main network, the one
modelled, it ends (block 255365) before the exchange opens (block 290630). `BlockEnd` leaves out what concerns other state: the fee cache,
alerts, pending transactions, checkpoints and state files.

**TokenLedger** is the abstract specification: tokens change hands in transfers
of what the giver owns, and Dev OMNI is awarded up to `AllReward`. `DEx` refines
it with `held` as the sum of the four tally types of an address.

**Freezing** has the managed properties: `CreatePropertyManaged`, `GrantTokens`,
`RevokeTokens`, `ChangeIssuer`, `EnableFreezing`, `DisableFreezing`, `FreezeTokens`,
`UnfreezeTokens`, and the two ways tokens are sent, `SimpleSend` and `SendAll`.
`enabled` and `frozen` are the two sets of `omnicore.cpp`, iterated in the order of
`std::set`. `aborted` says which assert, or which read past the end of a set, ended the
process. Receivers run no crowdsale, so a grant has no side effect.

**Owners** is the distribution of an amount to the owners of a property (`STO_GetReceivers`
and the credits that follow it). **FeeCache** defines what the fee cache does with the ledger
(`AddFee`, `EvalCache`); `MetaDEx` and `Fees` both use it. **Fees** adds the history per block,
its pruning and rollback, the thresholds, and `SendToOwners` of both versions. It has no order book:
a fill is taken from a small set and moves what the seller has in METADEX_RESERVE, which the
initial ledger provides (`InitReserve`).

**MetaDEx** is the order book. A trade is one transaction of several steps:
`MetaDExTrade` makes the order, `Visit` is one iteration of `x_Trade`, `Insert` puts the
remainder into the book. The order of visits is price, then block and position. Orders
keep what they got so far, a history field. `Scan` is one iteration of the
shutdown of all pairs. Prices are compared by cross products, as the rationals of
the code are exact.

**Crowdsale** has `SimpleSend` with participation, `CreatePropertyVariable`,
`CloseCrowdsale`, `ChangeIssuer` and the expiry at the begin of a block. Block times
are arbitrary. `failed` records an assert or a division by zero. Desired
properties are divisible, and the notifications to the fee cache are left out.

**Activation** has announcements, deactivations, blocks, requests to shut down, and the
two ways the state starts again, reparse and restart; `told` is the history of
announcements on this chain. Its transactions are any, before and after a replay.

**Node** abstracts the state to the list of blocks it reflects, one list per store, so
"the state of the chain" is equality of sequences. It has the two block
handlers, the transactions between them, disconnected blocks, stops at every point
(the chain on disk may then be shorter), `mastercore_init` and the scan. That no
saved state is ever loaded is computed from what is written and what is read
(`StateLoaded`), so every start and every reorganisation reparses; the records
`deleteAboveBlock` removes before that are cleared anyway. `msc_initial_scan` ends early
when a shutdown is requested (`ScanDone`) or a block cannot be read (`ScanBroken`), and the node
goes on with an incomplete state, on which the block that waited is processed; `early`
remembers it. The third exit, for a height `chainActive` does not have, cannot be taken: the chain
does not change during a scan, which runs before the network threads start or under `cs_main`.
`clear_all_state` leaves `contractdex` and the terms and prices of contracts as they are, and
`contracts` says what has become of them: orders left over from before a reorganisation take part in the trades of
the next block with contracts (`ContractBlock`), which changes balances. From there on blocks
are `Spoiled` in all stores, and `StateFollowsChain` says exactly when that happens.

**NodeActivation** composes the two: each block carries one activation or deactivation,
the same at whatever height and however often it is processed, and every
action of `Node` is taken together with what it does to the features. `AbortNode` of an old
client is the shutdown that ends a scan. Every step of the node is a step of `Activation` or
leaves it alone, so what is proved of `Activation` holds on a node
that reorganises, stops and restarts. `Replay` is the reference: the activations of a node that
processes a chain once and never stops.

**Pending** has the threads of RPC calls, each in three steps, beside the thread that
connects blocks. It takes addresses and amounts from `Tally` and models the PENDING tally of one property. A cancellation at a price, or of an offer with its
amount, is a call that subtracts nothing and is credited all the same (`CreditedForNothing`). After `PendingCheck` erases the element its iterator points to, the
loop may go on, stop early, or end the process.

**ContractDex** has trades, matches, positions, margins and margin calls. A match
checks margins, a margin call places an order, and that order is matched before the
first match goes on, so the model has a stack of calls. `fate` is how the
process ended: `zero` is an assert on an update by zero, `assert` any other of a trade or match. The
model starts after the creation of a first contract. The checks of a trade in `tx.cpp` are
commented out: an amount is any `uint64_t`, and its product with the margin wraps and becomes an
`int64_t`. Liquidation prices are products of doubles, truncated; where the double of a price
times 1.15 is below the integer is a table (`RoundedDown`). The order a match is about to erase
stays in the book during the margin calls, which may match it again; `FilledTwice` says so, and
the erase that follows is undefined (`dangling`). Three
peculiarities are modelled as they are: liquidation prices are added up over
matches, long and short positions are called by the same comparison, and a buyer gets nothing back
for a short position.

## Runs

| run | shows |
|-----|-------|
| `DExOffers` | offers, updates, cancellations, accepts of old offers, partial payments and expiry in every order: no assert fails, the shared reserves are exactly backed, windows and terms of accepts are kept |
| `DExSends` | both tokens, sends, a buyer who is also a seller, Dev OMNI with block times running backwards: sound records, conserved supply, refinement of `TokenLedger` |
| `DExPrices` | prices that leave `int64_t`: sound records and refinement all the same |
| `FreezingTokens` | no update of the tally fails, the supply fits, addresses are frozen only while freezing is live, a frozen issuer is stuck |
| `MetaDExBook` | reserves are the open orders, no order gets less than its price over all its fills, tokens are conserved with fees, deactivated markets are empty and closed, matching ends, and so does the shutdown of all pairs when no order has OMNI on a side |
| `FeesCache` | tokens are held or cached, asserts hold while two addresses hold OMNI (TOMNI in the test ecosystem), nothing above the threshold waits, the cache rolls back to what it was unless pruning left nothing |
| `CrowdsaleBonus` | records agree with the supply, no late participation, the exact bonus after any rounding |
| `NodeActivation` | unless a scan stopped early, transactions run on the state of the parent chain whatever happened before, but for contract orders left over, and the activations are those of the chain; a stopped node catches up, unless it is stopped again or cannot read a block; what is pending will happen, live features were announced in time on the active chain, old clients stop |
| `PendingSends` | the tally is minus what is pending, until a cancellation of the address is credited, and what is gone is deleted in the end |
| `ContractDexMargins` | on one set of terms: long and short contracts balance, also in nested matches; no update is refused for want of funds; margins cover positions and orders until a margin call fills an order a second time |

Two runs end in a counterexample: the code does not do what a comment of it says.
`PROJECT.json` quotes the lines.

| run | shows |
|-----|-------|
| `DExOverpayment` | an overpayment beyond `int64_t` is not clamped (`dex.cpp:501`) |
| `DExSoldOut` | a sold out offer is kept while an accept of the previous offer is open (`dex.cpp:531`) |

Further departures from comments, asserts and tests of the code. Each is stated as a
property of its module, which is not among the properties of the runs; TLC finds it violated when
it is put in place of them in the component's `.cfg` (those of `Activation` and `Node` in
`NodeActivation.cfg`), with the constants in the last column changed.

| property | the code | constants |
|----------|----------|-----------|
| `Freezing!DisableUnfreezesAll` | disabling freezing fails an assert when another entry follows (`omnicore.cpp:411`, `416`) | `TestProperty = {4}`, `WaitPeriod = 2`, `MaxBlock = 4`, `Amounts = {}` |
| `Freezing!DisabledIsDisabled` | enabled twice during the notice, freezing is not disabled (`omnicore.cpp:422`) | the same |
| `MetaDEx!ShutdownRemovesAllPairs` | the shutdown of all pairs does not end with an OMNI order in the book: its loop advances only when it erases (`mdex.cpp:1381`, `1392`) | |
| `Fees!HistoryPruned` | the `continue` that drops an old entry is in the block of `msc_debug_fees`: without logging nothing is pruned (`fees.cpp:224`, `246`) | `DebugFees = FALSE`, `MaxBlock = 4` |
| `Fees!CacheRollsBack` without its exception | with logging, the default, the entry current at the pruning block is dropped, and a rollback within the history loses the amount (`fees.cpp:144`, `246`) | |
| `Fees!ThresholdFollowsBurn` | burning TOMNI refreshes the threshold of OMNI (`tx.cpp:1422`) | `Property = {1, 2, 3}`, `TestProperty = {2}`, `Sends <- MCTestSends` |
| `Crowdsale!MaxedIsClosed` | a sale at exactly the maximum stays open, and the next participation divides by zero (`tx.cpp:1221`, `sp.cpp:786`) | |
| `Activation!LiveIsAnnounced` | a deactivated feature is live again at block 999999 (`rules.cpp:517`) | `Never = 4` |
| `Activation!UnsupportedStops` | a client goes on with a feature it does not know (`rules.cpp:487`, `activation.cpp:89`) | `Version = 2` |
| `Node!StateFollowsChain` with `Ready` without `early` | the node goes on after a scan that stopped early (`omnicore.cpp:1490`, `1513`, `4511`) | |
| `Node!ContractsFollowChain` | contract orders survive a reorganisation (`omnicore.cpp:2261`, `4494`) | |
| `Node!SavedStateUsed` | saved state is never used: three fields are written, four required (`omnicore.cpp:1655`, `1930`, `2093`) | |
| `Pending!NeverPositive` | more is credited back than was subtracted, for a cancellation (`pending.cpp:33`, `70`) and when a reorganisation falls between the two parts of `PendingAdd` (`pending.cpp:48`) | |
| `ContractDex!CancelReturns` | a cancellation fails its assert (`mdex.cpp:1360`) | |
| `ContractDex!MatchReturns` | a match with margin calls uses erased elements (`omnicore.cpp:3995`, `mdex.cpp:669`) | |
| `ContractDex!MarginBacked` without `FilledTwice` | a margin call fills the order of the match it is made in: contracts without reserve (`mdex.cpp:666`) | |
| `ContractDex!NoZeroUpdates` | a trade of amount 0 fails its assert (`tx.cpp:1958`), and so does a match of a BUY at price 1, whose liquidation price is 0 (`mdex.cpp:696`) | |
| `ContractDex!MarginAssertHolds` | the liquidation price is gone after the call (`omnicore.cpp:3993`) | |
| `ContractDex!BookHoldsRemainders` | orders with nothing left are in the book (`mdex.cpp:671`, `1026`) | |
| `ContractDex!NoProfitAtCost` | a profit at cost price: 13 fields are required, 12 written (`omnicore.cpp:3895`, `4294`) | |
| `ContractDex!AssertsHold` | a new contract changes the collateral of open positions (`tx.cpp:2055`, `mdex.cpp:603`) | `Property = {1, 2, 3, 4}`, `Terms <- MCTwoTerms` |

Bounds. `DExOffers` has one seller, two buyers, three blocks with the activation
of `FEATURE_DEXMATH` in between and three tokens: enough for two accepts of
different offers to share a reserve and for each to be paid in two parts, to
expire early, or to expire late. `DExSends` has fewer tokens and both properties.
`MaxTxid` bounds the hashes alive at one time, `MaxBlock` the blocks, `MaxOrders` and
`MaxTrades` the trades. Three orders let a taker meet two makers, with a
remainder on either side; the pair with OMNI and the one of the test ecosystem are traded in single tokens; `MaxInt` is small so that supplies reach it; a stop and
two disconnected blocks let a node stop while it recovers from a reorganisation of two blocks; four calls let two of one
address be pending beside a send and a cancellation of another; a fee threshold of three and supplies of nine make fees wait, reach the
threshold by themselves and reach it by a revocation; four trades let a margin call happen inside
another, and `MaxDepth` ends the recursion of calls that match the same order again and again, which in
the code only the stack does. The trades of `ContractDexMargins` include an amount of 0, a price of 0 and one of 1; none has a reserve that wraps, and
`MarginBacked` and `AssertsHold` are claimed of such trades only, as nothing in `tx.cpp` refuses the others. `MarginBacked` is checked on this bounded instance only. Type invariants are checked as a
part of the first property of a run, or proved. Deadlock is not checked
because the modelled ranges of blocks and trades end.

Fairness. `MetaDEx`: the steps of a loop that was entered go on, as a handler runs to its
end under `cs_tally`; no transaction is assumed to arrive. `NodeActivation`: a scan and a
block that was begun go on, and a process that stopped is started again (the number of
stops is bounded, so a node is at last left alone). `Pending`: blocks keep arriving
and are processed to their end; RPC calls need not return. The other modules assume
none and claim no liveness: each step is caused by a transaction or a block.

Not claimed. Price and time priority, or that no matching orders are left in the MetaDEx: what
rounding leaves of an order may be too little to trade, so the book may stay crossed. That somebody owns OMNI when fees are distributed is an assumption of the code
(`fees.cpp:199`), so `AssertsHold` of `Fees` is conditioned on it: the payer of a fee may have
given its last token for it, and then somebody else must own some. The main network's
notice period is positive (`NoticeAssumption`).

## Proofs

| module | theorems |
|--------|----------|
| `TallyProofs` | `DistributionExact`; lemmas: sums (recursion, change of one term, equality, bounds), what an update, a move, a distribution, a fee and a fill do to records, holdings and totals; a covered move passes its asserts |
| `DExOfferProofs` | lemmas: each action of `DEx` but the end of a block preserves the inductive invariant |
| `DExProofs` | the end of a block; `Inductive`, `TypesCorrect`, `SupplyIsConserved`, `NoAssertFails`, `AcceptsBacked`, `OpenAcceptsHold`, `OffersCovered`; the steps: `WindowsAreKept`, `AcceptsAreHonoured`, `ExchangeIsLedger` |
| `MetaDExProofs` | lemmas: the amounts of a fill, the removal of orders, sums over the book; `MetaDExAssertsHold`, `MetaDExSupplyConserved`, `MetaDExReserveBacked`, `MetaDExLimitKept`, `MetaDExClosedMarketsEmpty` |
| `FeesProofs` | `FeesInvariant`, `AssertsAlwaysHold`, `TokensAlwaysAccounted`, `NoFeeEverWaits`, `CacheAlwaysRollsBack` |
| `FreezingProofs` | `NoBalanceAssertFails`, `SupplyAlwaysFits`, `FrozenWhileLive`, `FrozenIssuersAreStuck` |
| `NodeActivationProofs` | of `Activation`: `PendingStaysTrue`, `FeaturesAreAnnounced`, `OldClientsStop`; of `NodeActivation`: `NodePendingTrue`, `NodeFeaturesAnnounced`, `NodeStateFollows`, `NodeActivationsFollow` |
| `PendingProofs` | `PendingCreditedBack` |

The theorems about the exchange hold for every number of addresses, blocks and hashes and all amounts, under
`TallyAssumption`, `DExAssumption` and `SupplyAssumption` (all tokens there will
ever be fit into an `int64_t`). The code never checks the last one; it follows from
the numbers of the main network: the fundraiser creates 100 tokens per satoshi and a bonus of 10% a week
(`rules.cpp:170-172`), and there are fewer than 2.1 * 10^15 satoshis, so the tokens
stay far below 9.2 * 10^18; `all_reward` adds 5.6 * 10^12.

The invariant of the exchange is `IInv`. That asserts hold is not inductive alone: the assert in
`DEx_payment` needs the reserve to cover the accept, which needs
`AcceptReserveBacked` together with `OpenAcceptHolds` (no accept holds a negative
amount); that credits do not overflow needs `SupplyConserved`, which bounds every
record by the supply. `OfferCovered` carries the hash comparison of
`DEx_acceptDestroy`. Induction over sums is by least counterexample.

`FreezingProofs` holds for every number of addresses, properties and blocks and all
amounts, under `TallyAssumption` and the assumptions of `Freezing`. Its invariant is
types, `SupplyFits`, `BalanceAssertsHold` and `FrozenOnlyWhileLive`: a credit passes its
assert because the whole supply fits, and the supply fits because a grant compares with
it. The assert on frozen debits holds as every handler is reached only by senders that are not
frozen for its property, and `SendAll` leaves out the properties that are.
The theorems about `Activation` hold for all features, notice periods and versions, under
`NoticeAssumption`; `FeaturesAreAnnounced` also needs the chain to end before the block
that stands for never (see the departures). Its invariant adds to the
three properties where the parameter of each feature comes from, and that the
announcement of a version that is too new stays pending until it stops the client.

`NodeActivation` is proved to refine `Activation` step by step, for all chains and any
number of blocks and stops, so the theorems about `Activation` carry over to a node. The
invariant `NodeInv` adds to that of `Activation` where the node stands (`NodeShape`): between two
blocks the stores reflect the active chain, spoiled from the first contract on if orders were left over, or
their clearing is due, or a scan stopped early; during a scan the stores hold a prefix of the chain.
`NodeStateFollows` follows from it. `NodeActivationsFollow` needs `FollowsReplay`: there is a
function `R` that satisfies the recursion of `Replay` on the chain, and the parameters, the pending and the completed
activations are its value at the number of blocks in the state store. It is carried from block to
block by extending or cutting `R`, so that no induction over the chain is needed but for the equality
of two such functions, which is by least counterexample.

The theorems about the token exchange hold for every number of addresses, properties and
orders and all amounts, under `TallyAssumption`, `MetaDExAssumption` (the supplies fit into an
`int64_t`, a fee is a fraction of the amount) and `FeesHaveOwners`: where fees are charged,
somebody owns the property whose owners receive them. The code takes this for granted
(`fees.cpp:199` asserts that there are receivers) and the distribution of OMNI in the fundraiser makes it so.
The constants of `MetaDExBook` satisfy it.
The invariant `IInv` adds to the properties that orders are well formed,
that the taker's balance covers what it has left, that the orders still to be visited are of
the pair it trades, that its market is open, and that OMNI and TOMNI
are charged no fee. The last matters because OMNI is then never in the cache: its whole supply
is in the ledger, so a distribution within a fill finds an owner. A fill is covered because the quotient of the amount bought is rounded down and the
payment up: `FillAmounts` shows that the payment fits what the taker has left and that both
sides get their price, from which `LimitKept` follows by adding up fills. The assert that
a fee distribution hands out everything is `DistributionExact`: the shares,
rounded up and cut off at what is left, in the order of ownership, add up to the
amount, since the exact shares do.

The theorems about the fee cache hold for every number of addresses, properties, blocks and
transactions and all amounts, with and without logging, under `TallyAssumption`,
`FeeCacheAssumption` and `FeesAssumption` (the initial supplies fit into an `int64_t`, and OMNI
exists, and TOMNI if the test ecosystem is used). The invariant `IInv` says four
things. Ledger and cache account for the supply, and the supply fits, which bounds every
balance plus what is cached, so that no credit of a distribution overflows. The threshold of a
property is that of its present supply, and less than it is cached: evaluation empties a cache that
reaches the threshold, and every handler that changes a supply moves its threshold and evaluates. The exception is
TOMNI, whose burnt fees move the threshold of OMNI (see the departures); its threshold stays
0, so every fee in it is handed out at once and none is left in the cache. The history of a
property has at most one entry per block, none later than the present one, and rolled back to any block in reach gives
the recorded amount. Where the process has ended, fewer than two addresses hold what fees are
paid out in: nobody but the payer loses tokens in a handler before the distribution, so of two
holders one is left, and `DistributionExact` then hands out everything. The invariant was
checked by TLC on the constants of `FeesCache`, and with a test ecosystem, before it was proved.

`PendingCreditedBack` holds for any calls, addresses and amounts, cancellations included. Its
invariant describes what each call has done so far: an address is owed the
amounts of the calls that have subtracted and whose transaction was not deleted, as long as it is
among the addresses no cancellation was credited to (`Right`); a step only ever takes addresses out of them.

Left to TLC: liveness under fairness (`LoopsEnd`, `CatchesUp`, `GoneIsDeleted`) and ENABLED, which are out of the prover's reach,
what recursive definitions compute over arbitrary data, and the invariants of `Crowdsale` and `ContractDex`, which need
facts about nonlinear arithmetic of the bonus and about a stack of nested calls that were not attempted.

## Not modelled

- Packet decoding, scripts and payload encoding: byte formats; the handlers are modelled from
  decoded fields.
- The consensus hash: a function of the state that is printed.
- RPC queries, transaction construction, wallet, alerts, notifications, logging, Qt: they
  change no consensus state. The RPC calls that send are in `Pending`.
- Bitcoin Core, leveldb, secp256k1, univalue: code around the handlers; the mempool and the
  stop of a process are environment actions.
- `CreatePropertyFixed`: credits a new identifier, nothing interacts.
- `popBlock`, `LoadActivations`, `LoadFreezeState` and a set of state files that is
  written in part: masked, as every start and reorganisation clears the databases and
  reparses (`SavedStateUsed` under the departures). They deserve a model once saved state is loaded.
- `ContractDexCancelPrice` (not dispatched), and the cancellation per pair and the shutdowns of
  contracts (never called); freezing of collateral.
- Networks without a notice period, and `-overrideforcedshutdown`.
