-------------------------------- MODULE Fees ---------------------------------
(***************************************************************************)
(* Fees over time: who feeds the cache (send to owners, and the fills of   *)
(* the MetaDEx), what changes the thresholds (every change of the supply   *)
(* that is notified), and the history of cached amounts by block that is   *)
(* kept for reorganisations.  Rejected transactions are stuttering steps.  *)
(***************************************************************************)
EXTENDS FeeCache

CONSTANTS
  InitBalance,     \* balances at the start
  InitReserve,     \* METADEX_RESERVE at the start: what the open orders sell
  FeePerOwner,     \* TRANSFER_FEE_PER_OWNER
  FeePerOwnerV1,   \* TRANSFER_FEE_PER_OWNER_V1
  DebugFees,       \* msc_debug_fees, TRUE unless -omnidebug=none is set
  MaxHistory,      \* MAX_STATE_HISTORY
  MaxBlock,        \* bound: the last block modelled
  Sends,           \* sender, property, amount, receivers' property and version of transactions
  Fills,           \* seller, buyer, property, amount and fee of fills
  Issues           \* issuer, property and amount of grants and revocations

ASSUME FeesAssumption ==
  /\ InitBalance \in [Addr -> [Property -> Amount]]
  /\ InitReserve \in [Addr -> [Property -> Amount]]
  /\ \A p \in Property : SumUpTo([a \in Addr |-> InitBalance[a][p] + InitReserve[a][p]], NumAddr) <= MaxInt
  /\ MSC \in Property /\ (TestProperty # {} => TMSC \in Property)
  /\ FeePerOwner \in Nat \ {0} /\ FeePerOwnerV1 \in Nat \ {0}
  /\ DebugFees \in BOOLEAN
  /\ MaxHistory \in Nat /\ MaxBlock \in Nat \ {0}
  /\ Sends \subseteq Addr \X Property \X Amount \X Property \X {0, 1}
  /\ Fills \subseteq Addr \X Addr \X (Property \ {MSC, TMSC}) \X Amount \X Amount
  /\ Issues \subseteq Addr \X (Property \ {MSC, TMSC}) \X Amount

VARIABLES
  tally,        \* mp_tally_map
  history,      \* the database of the fee cache: pairs of block and amount
  thresholds,   \* distributionThresholds
  block,        \* the block being processed
  alive,        \* FALSE once an assert has failed
  issued,       \* history variable: tokens issued and not destroyed
  past          \* history variable: cached amounts at the end of past blocks

vars == <<tally, history, thresholds, block, alive, issued, past>>

\* The entry of the latest block.
GetCachedAmount(h) ==
  IF h = {} THEN 0 ELSE (CHOOSE e \in h : \A f \in h : f[1] <= e[1])[2]

Cached == [p \in Property |-> GetCachedAmount(history[p])]

\* getTotalTokens with the fee cache, for properties that are not fixed.
TotalWithFees(T, c, p) == getTotalTokens(T, p) + c[p]

\* Mutant: one more block is rolled back.
RollBackCacheTooFar(h, b) == {e \in h : e[1] < b - 1}

\* RollBackCache removes the entries of block b and later ones.
RollBackCache(h, b) == {e \in h : e[1] < b}

\* PruneCache discards old entries, but only when fees are logged: the
\* continue statement is inside the block that logs.
PruneCache(h, b) == IF DebugFees THEN {e \in h : e[1] >= b - MaxHistory} ELSE h

\* AddFee and ClearCache replace the entry of the block, and prune.
Recorded(P, c) ==
  [p \in Property |->
     IF p \in P THEN PruneCache({e \in history[p] : e[1] # block} \cup {<<block, c[p]>>}, block)
     ELSE history[p]]

Init ==
  /\ tally = [a \in Addr |-> [p \in Property |-> [t \in TallyType |->
                CASE t = "BALANCE"         -> InitBalance[a][p]
                  [] t = "METADEX_RESERVE" -> InitReserve[a][p]
                  [] OTHER                 -> 0]]]
  /\ history = [p \in Property |-> {}]
  /\ thresholds = [p \in Property |->
       IF p = TMSC THEN 0 ELSE DistributionThreshold(getTotalTokens(tally, p))]
  /\ block = 1
  /\ alive = TRUE
  /\ issued = [p \in Property |-> getTotalTokens(tally, p)]
  /\ past = [b \in 1..MaxBlock |-> [p \in Property |-> 0]]

\* A handler ends with ledger T, cache c and thresholds th, having written
\* the cache of properties P; or an assert has failed.
Commit(ok, T, c, P, th) ==
  /\ alive' = ok
  /\ tally' = IF ok THEN T ELSE tally
  /\ history' = IF ok THEN Recorded(P, c) ELSE history
  /\ thresholds' = IF ok THEN th ELSE thresholds
  /\ UNCHANGED <<block, past>>

(***************************************************************************)
(* NotifyTotalTokensChanged: the threshold of p follows the supply, and    *)
(* the cache is evaluated.                                                 *)
(***************************************************************************)
UpdatedThresholds(T, c, p) ==
  [thresholds EXCEPT ![p] = DistributionThreshold(TotalWithFees(T, c, p))]

\* Mutant: the threshold is updated, but the cache not evaluated.
NotifyOnlyThreshold(ok, T, c, p) ==
  Commit(ok, T, c, {}, UpdatedThresholds(T, c, p))

NotifyTotalTokensChanged(ok, T, c, p) ==
  LET th == UpdatedThresholds(T, c, p)
      E  == EvalCache(T, c, p, th[p])
  IN  Commit(ok /\ E.ok, E.tally, E.cached, IF c[p] >= th[p] THEN {p} ELSE {}, th)
------------------------------------------------------------------------------
\* Mutant: the balance has to cover the amount and the fee, each on its own.
CoversEach(s, p, n, f, fee) == tally[s][f]["BALANCE"] >= fee

\* The balances cover the fee beside the amount.
CoversFee(s, p, n, f, fee) ==
  tally[s][f]["BALANCE"] >= IF f = p THEN n + fee ELSE fee

(***************************************************************************)
(* logicMath_SendToOwners: n tokens of p to the owners of p, or of q since *)
(* version 1.  The receivers are determined first.  Version 0 destroys the *)
(* fee, version 1 adds it to the cache.                                    *)
(***************************************************************************)
SendToOwners(s, p, n, q, version) ==
  LET share == STO_GetReceivers(tally, s, IF version = 0 THEN p ELSE q, n)
      count == SumUpTo([a \in Addr |-> IF share[a] > 0 THEN 1 ELSE 0], NumAddr)
      f     == FeeTarget(p)
      fee   == count * IF version = 0 THEN FeePerOwner ELSE FeePerOwnerV1
      T1    == Updated(tally, s, f, "BALANCE", -fee)
      F     == IF version = 0 THEN [tally |-> T1, cached |-> Cached, ok |-> TRUE]
               ELSE AddFee(T1, Cached, f, thresholds[f], fee)
      T2    == Updated(F.tally, s, p, "BALANCE", -n)
      T3    == SharesCredited(T2, p, share)
      ok    == /\ CanUpdate(tally, s, f, "BALANCE", -fee)
               /\ F.ok
               /\ CanUpdate(F.tally, s, p, "BALANCE", -n)
               /\ CanCredit(T2, p, share)
               /\ SumUpTo(share, NumAddr) = n
  IN  /\ alive
      /\ n > 0 /\ tally[s][p]["BALANCE"] >= n
      /\ count > 0
      /\ CoversFee(s, p, n, f, fee)
      /\ IF version = 0
           THEN NotifyTotalTokensChanged(ok, T3, F.cached, MSC)
           ELSE Commit(ok, T3, F.cached, {f}, thresholds)
      /\ issued' = IF version = 0 /\ alive' THEN [issued EXCEPT ![f] = @ - fee] ELSE issued

\* A fill of the MetaDEx as the fee cache sees it: the fee is added first, then
\* n tokens of p leave the seller's reserve, the buyer gets them without the fee.
TradeFee(seller, buyer, p, n, fee) ==
  LET F == AddFee(tally, Cached, p, thresholds[p], fee)
      T == Updated(F.tally, seller, p, "METADEX_RESERVE", -n)
  IN  /\ alive /\ n > fee /\ tally[seller][p]["METADEX_RESERVE"] >= n
      /\ Commit(/\ F.ok
                /\ CanUpdate(F.tally, seller, p, "METADEX_RESERVE", -n)
                /\ CanUpdate(T, buyer, p, "BALANCE", n - fee),
                Updated(T, buyer, p, "BALANCE", n - fee), F.cached, {p}, thresholds)
      /\ UNCHANGED issued

\* logicMath_GrantTokens and logicMath_RevokeTokens by the issuer s.
GrantTokens(s, p, n) ==
  /\ alive /\ n > 0 /\ TotalWithFees(tally, Cached, p) + n <= MaxInt
  /\ NotifyTotalTokensChanged(CanUpdate(tally, s, p, "BALANCE", n),
                              Updated(tally, s, p, "BALANCE", n), Cached, p)
  /\ issued' = IF alive' THEN [issued EXCEPT ![p] = @ + n] ELSE issued

RevokeTokens(s, p, n) ==
  /\ alive /\ n > 0 /\ tally[s][p]["BALANCE"] >= n
  /\ NotifyTotalTokensChanged(TRUE, Updated(tally, s, p, "BALANCE", -n), Cached, p)
  /\ issued' = IF alive' THEN [issued EXCEPT ![p] = @ - n] ELSE issued

BlockEnd ==
  /\ alive /\ block < MaxBlock
  /\ block' = block + 1
  /\ past' = [past EXCEPT ![block] = Cached]
  /\ UNCHANGED <<tally, history, thresholds, alive, issued>>

Next ==
  \/ \E x \in Sends : SendToOwners(x[1], x[2], x[3], x[4], x[5])
  \/ \E x \in Fills : TradeFee(x[1], x[2], x[3], x[4], x[5])
  \/ \E x \in Issues : GrantTokens(x[1], x[2], x[3]) \/ RevokeTokens(x[1], x[2], x[3])
  \/ BlockEnd

Spec == Init /\ [][Next]_vars
------------------------------------------------------------------------------
(***************************************************************************)
(* Properties.                                                             *)
(***************************************************************************)
TypeOK ==
  /\ tally \in Ledger /\ NonNegative(tally)
  /\ history \in [Property -> SUBSET ((1..block) \X Amount)]
  /\ thresholds \in [Property -> Amount]
  /\ block \in 1..MaxBlock /\ alive \in BOOLEAN

\* "There will always be addresses holding OMNI" (DistributeCache): while two
\* addresses do, one of them beside the payer of the fee, the whole amount is
\* distributed, to owners of a property as to owners of OMNI, and no update of
\* the ledger is refused: no assert of logicMath_SendToOwners, x_Trade and
\* DistributeCache fails, and no record is negative.
AssertsHold ==
  /\ TypeOK
  /\ \/ alive
     \/ \E p \in Property, s \in Addr :
          \A a \in Addr \ {s} : Holding(tally, a, FeeTarget(p)) = 0

\* Every token issued and not destroyed is held by an address or is in the
\* fee cache.
TokensAccounted ==
  \A p \in Property : TotalWithFees(tally, Cached, p) = issued[p]

\* However the supply changed, no fee that reaches the threshold of the
\* present supply waits in the cache.
NoFeeWaits ==
  \A p \in Property : Cached[p] < DistributionThreshold(TotalWithFees(tally, Cached, p))

\* "Rolls back the cache to an earlier state": rolled back to the begin of a
\* block within the history, the cache holds what it held then, or, when fees
\* are logged and all entries of that time are pruned, nothing.
CacheRollsBack ==
  \A p \in Property, b \in 1..block :
    LET h == RollBackCache(history[p], b)
    IN  b >= block - MaxHistory /\ ~ (DebugFees /\ h = {}) =>
          GetCachedAmount(h) = IF b = 1 THEN 0 ELSE past[b - 1][p]

\* Comment of PruneCache: "Prunes entries over MAX_STATE_HISTORY blocks old
\* from the entry for a property".
HistoryPruned ==
  [][\A p \in Property : history'[p] # history[p] =>
       \A e \in history'[p] : e[1] >= block - MaxHistory]_vars

\* Comment in logicMath_SendToOwners: "Number of tokens has changed, update
\* fee distribution thresholds".
ThresholdFollowsBurn ==
  [][\A p \in {MSC, TMSC} \cap Property :
       (alive' /\ issued'[p] < issued[p]) =>
          thresholds'[p] = DistributionThreshold(issued'[p])]_vars
==============================================================================
