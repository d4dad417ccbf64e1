--------------------------------- MODULE DEx ---------------------------------
(***************************************************************************)
(* The traditional distributed exchange of Omni Core (dex.cpp, dex.h, and  *)
(* the transaction handlers of tx.cpp that drive it): a seller offers OMNI *)
(* or TOMNI for bitcoins, a buyer accepts a part of the offer, and then    *)
(* has a number of blocks to pay for it.  Tokens on offer sit in the       *)
(* seller's SELLOFFER_RESERVE, accepted tokens in the seller's             *)
(* ACCEPT_RESERVE.                                                         *)
(***************************************************************************)
EXTENDS Tally

CONSTANTS
  InitBalance,      \* tokens created by the Exodus fundraiser
  Exodus,           \* exodus_address
  AllReward,        \* all_reward: every Dev OMNI there will ever be
  DexMathBlock,     \* DEXMATH_FEATURE_BLOCK
  MaxBlock,         \* bound: the last block modelled
  MaxTxid,          \* bound: transaction hashes in use at one time
  Sellers, Buyers,  \* addresses that offer, accept and pay
  SendAmounts, OfferAmounts, Desired, MinFees, Windows,   \* fields of transactions
  AcceptAmounts, FeesPaid, Payments

ASSUME DExAssumption ==
  /\ {MSC, TMSC} \subseteq Property
  /\ InitBalance \in [Addr -> [Property -> Amount]]
  /\ Exodus \in Addr /\ Sellers \subseteq Addr /\ Buyers \subseteq Addr
  /\ AllReward \in Nat
  /\ DexMathBlock \in Nat /\ MaxBlock \in Nat \ {0} /\ MaxTxid \in Nat
  /\ Desired \subseteq Int64
  /\ SendAmounts \subseteq Amount /\ OfferAmounts \subseteq Amount /\ AcceptAmounts \subseteq Amount
  /\ MinFees \subseteq Amount /\ FeesPaid \subseteq Amount /\ Payments \subseteq Amount
  /\ Windows \subseteq 0..255

InitialSupply(p) == SumUpTo([a \in Addr |-> InitBalance[a][p]], NumAddr)

\* All tokens there will ever be fit into an int64_t.
ASSUME SupplyAssumption == \A p \in Property : InitialSupply(p) + AllReward <= MaxInt

VARIABLES
  tally,        \* mp_tally_map
  offers,       \* my_offers: at most one offer per seller and property
  accepts,      \* my_accepts: at most one accept per seller, property and buyer
  block,        \* height of the block being processed
  exodus_prev,  \* Dev OMNI awarded so far
  alive,        \* FALSE once an assert has failed and the process is gone
  outOfRange    \* history: a payment was priced beyond the range of int64_t

vars == <<tally, offers, accepts, block, exodus_prev, alive, outOfRange>>

(***************************************************************************)
(* Records of the two maps.  Hash 0 marks an absent entry.                 *)
(***************************************************************************)
Offer  == [txid : 0..MaxTxid, amount : Amount, desired : Int64, minFee : Amount, window : 0..255]
Accept == [txid : 0..MaxTxid, remaining : Int, block : 0..MaxBlock, window : 0..255,
           amount : Amount, desired : Int64]

NoOffer  == [txid |-> 0, amount |-> 0, desired |-> 0, minFee |-> 0, window |-> 0]
NoAccept == [txid |-> 0, remaining |-> 0, block |-> 0, window |-> 0, amount |-> 0, desired |-> 0]

DEx_offerExists(s, p)     == offers[s][p].txid # 0
DEx_acceptExists(s, p, b) == accepts[s][p][b].txid # 0

Init ==
  /\ tally = [a \in Addr |-> [p \in Property |-> [t \in TallyType |->
                IF t = "BALANCE" THEN InitBalance[a][p] ELSE 0]]]
  /\ offers = [s \in Addr |-> [p \in Property |-> NoOffer]]
  /\ accepts = [s \in Addr |-> [p \in Property |-> [b \in Addr |-> NoAccept]]]
  /\ block = 1
  /\ exodus_prev = 0
  /\ alive = TRUE
  /\ outOfRange = FALSE

DexMath == block >= DexMathBlock        \* IsFeatureActivated(FEATURE_DEXMATH, block)

Lesser(m, n) == IF m < n THEN m ELSE n

(***************************************************************************)
(* The hash of the transaction being processed.  Only equality of hashes   *)
(* matters, so any hash no offer or accept holds stands for a new one; the *)
(* least is taken.                                                         *)
(***************************************************************************)
TxidInUse(h) ==
  \E s \in Addr, p \in Property :
     offers[s][p].txid = h \/ \E b \in Addr : accepts[s][p][b].txid = h

NewTxid(h) == ~ TxidInUse(h) /\ \A k \in 1..(h - 1) : TxidInUse(k)

(***************************************************************************)
(* Prices.  Before FEATURE_DEXMATH they are computed in doubles, whose     *)
(* product and quotient are exact for the amounts modelled, and rounded    *)
(* half up; afterwards in 256-bit integers, rounded up.                    *)
(***************************************************************************)
DivideAndRoundUp(m, n)   == IF m = 0 THEN 0 ELSE 1 + (m - 1) \div n
DivideAndRoundHalf(m, n) == (2 * m + n) \div (2 * n)

legacy_calculateDesiredBTC(offered, desired, available) ==
  Signed(DivideAndRoundHalf(Unsigned(Unsigned(desired) * available), offered))

calculateDExPurchase(a, paid) == DivideAndRoundUp(paid * a.amount, a.desired)

legacy_calculateDExPurchase(a, paid) == DivideAndRoundHalf(paid * a.amount, Unsigned(a.desired))

\* ConvertTo256 and ConvertTo64 assert their range; the legacy calculation
\* converts a double to int64_t.
Priceable(a, paid) ==
  IF DexMath THEN a.desired > 0 /\ calculateDExPurchase(a, paid) <= MaxInt
             ELSE legacy_calculateDExPurchase(a, paid) <= MaxInt

\* What the conversion of a too large double yields: it wraps around within
\* the range of uint64_t and is undefined beyond.
LegacyOutcome(m) == IF m <= 2 * MaxInt + 1 THEN {Signed(m)} ELSE Int64
\* The asserts of a handler guard its update of the ledger to T.
Commit(asserted, T) ==
  /\ alive' = asserted
  /\ tally' = IF asserted THEN T ELSE tally
------------------------------------------------------------------------------
(***************************************************************************)
(* Simple Send, to a receiver that runs no crowdsale.                      *)
(***************************************************************************)
SimpleSend(s, r, p, n) ==
  /\ alive
  /\ n > 0
  /\ tally[s][p]["BALANCE"] >= n
  /\ Commit(CanMove(tally, p, n, s, "BALANCE", r, "BALANCE"),
            Moved(tally, p, n, s, "BALANCE", r, "BALANCE"))
  /\ UNCHANGED <<offers, accepts, block, exodus_prev, outOfRange>>

(***************************************************************************)
(* DEx_offerDestroy: all of SELLOFFER_RESERVE returns to the balance.      *)
(***************************************************************************)
Released(T, s, p) ==
  LET n == T[s][p]["SELLOFFER_RESERVE"]
  IN  IF n > 0 THEN Moved(T, p, n, s, "SELLOFFER_RESERVE", s, "BALANCE") ELSE T

CanRelease(T, s, p) ==
  LET n == T[s][p]["SELLOFFER_RESERVE"]
  IN  n > 0 => CanMove(T, p, n, s, "SELLOFFER_RESERVE", s, "BALANCE")

OfferDestroy(s, p) ==
  /\ DEx_offerExists(s, p)
  /\ Commit(CanRelease(tally, s, p), Released(tally, s, p))
  /\ offers' = [offers EXCEPT ![s][p] = NoOffer]

(***************************************************************************)
(* DEx_offerCreate on ledger T, for n tokens at d bitcoins: whether it is  *)
(* valid, the amount put up for sale, the price, and the reservation.      *)
(***************************************************************************)
OfferValid(T, s, p, n, d, w) ==
  /\ w # 0
  /\ d # 0
  /\ DexMath => n <= T[s][p]["BALANCE"]
  /\ Lesser(n, T[s][p]["BALANCE"]) > 0

OfferRecord(T, s, p, n, d, f, w, h) ==
  LET available == T[s][p]["BALANCE"]
  IN  [txid |-> h, amount |-> Lesser(n, available),
       desired |-> IF n > available THEN legacy_calculateDesiredBTC(n, d, available) ELSE d,
       minFee |-> f, window |-> w]

Offered(T, s, p, n) ==
  Moved(T, p, Lesser(n, T[s][p]["BALANCE"]), s, "BALANCE", s, "SELLOFFER_RESERVE")

CanOffer(T, s, p, n) ==
  CanMove(T, p, Lesser(n, T[s][p]["BALANCE"]), s, "BALANCE", s, "SELLOFFER_RESERVE")

OfferCreate(s, p, n, d, f, w, h) ==
  /\ OfferValid(tally, s, p, n, d, w)
  /\ Commit(CanOffer(tally, s, p, n), Offered(tally, s, p, n))
  /\ offers' = [offers EXCEPT ![s][p] = OfferRecord(tally, s, p, n, d, f, w, h)]

(***************************************************************************)
(* DEx_offerUpdate: the old offer is destroyed, and stays destroyed when   *)
(* the new one turns out to be invalid.                                    *)
(***************************************************************************)
OfferUpdate(s, p, n, d, f, w, h) ==
  LET T == Released(tally, s, p)
  IN  IF OfferValid(T, s, p, n, d, w)
      THEN /\ Commit(CanRelease(tally, s, p) /\ CanOffer(T, s, p, n), Offered(T, s, p, n))
           /\ offers' = [offers EXCEPT ![s][p] = OfferRecord(T, s, p, n, d, f, w, h)]
      ELSE OfferDestroy(s, p)

(***************************************************************************)
(* Trade offer, type 20.  Version 1 names its subaction; version 0 means   *)
(* by amount 0 a cancellation, otherwise a new offer or an update.         *)
(***************************************************************************)
Forms == {"V0", "NEW", "UPDATE", "CANCEL"}

Operation(s, p, form, n) ==
  CASE form = "V0" -> IF n = 0 THEN "CANCEL" ELSE IF DEx_offerExists(s, p) THEN "UPDATE" ELSE "NEW"
    [] OTHER       -> form

TradeOffer(s, p, form, n, d, f, w) ==
  LET op == Operation(s, p, form, n)
  IN  /\ alive
      /\ op = "NEW" <=> ~ DEx_offerExists(s, p)
      /\ \E h \in 1..MaxTxid :
           /\ NewTxid(h)
           /\ \/ op = "NEW"    /\ OfferCreate(s, p, n, d, f, w, h)
              \/ op = "UPDATE" /\ OfferUpdate(s, p, n, d, f, w, h)
              \/ op = "CANCEL" /\ OfferDestroy(s, p)
      /\ UNCHANGED <<accepts, block, exodus_prev, outOfRange>>

(***************************************************************************)
(* Accept offer, type 22: DEx_acceptCreate reserves what is still on sale. *)
(***************************************************************************)
AcceptOffer(b, s, p, n, fee) ==
  LET offer    == offers[s][p]
      reserved == Lesser(n, tally[s][p]["SELLOFFER_RESERVE"])
  IN  /\ alive
      /\ n > 0
      /\ DEx_offerExists(s, p)
      /\ ~ DEx_acceptExists(s, p, b)
      /\ fee >= offer.minFee
      /\ reserved > 0
      /\ Commit(CanMove(tally, p, reserved, s, "SELLOFFER_RESERVE", s, "ACCEPT_RESERVE"),
                Moved(tally, p, reserved, s, "SELLOFFER_RESERVE", s, "ACCEPT_RESERVE"))
      /\ accepts' = [accepts EXCEPT ![s][p][b] =
                       [txid |-> offer.txid, remaining |-> reserved, block |-> block,
                        window |-> offer.window, amount |-> offer.amount, desired |-> offer.desired]]
      /\ UNCHANGED <<offers, block, exodus_prev, outOfRange>>

(***************************************************************************)
(* DEx_payment: buyer b pays seller s.  An accept of OMNI goes before one  *)
(* of TOMNI.  n tokens are bought; once the accept is used up it goes, and *)
(* with it the offer if the seller has nothing left in either reserve.     *)
(***************************************************************************)
PaidProperty(s, b) == IF DEx_acceptExists(s, MSC, b) THEN MSC ELSE TMSC

\* Mutants: the accept is not reduced by what was bought; it is gone after
\* the first payment; it stays when nothing is left.
ReducedNot(a, n)  == IF n >= a.remaining THEN NoAccept ELSE a
ReducedOnce(a, n) == NoAccept
ReducedLate(a, n) == IF n > a.remaining THEN NoAccept ELSE [a EXCEPT !.remaining = @ - n]

\* reduceAcceptAmountRemaining_andIsZero
Reduced(a, n) == IF n >= a.remaining THEN NoAccept ELSE [a EXCEPT !.remaining = @ - n]

Settle(s, p, b, n) ==
  LET a       == Reduced(accepts[s][p][b], n)
      T       == IF n > 0 THEN Moved(tally, p, n, s, "ACCEPT_RESERVE", b, "BALANCE") ELSE tally
      soldOut == T[s][p]["SELLOFFER_RESERVE"] = 0 /\ T[s][p]["ACCEPT_RESERVE"] = 0
  IN  /\ Commit(n > 0 => CanMove(tally, p, n, s, "ACCEPT_RESERVE", b, "BALANCE"), T)
      /\ accepts' = [accepts EXCEPT ![s][p][b] = a]
      /\ offers' = IF a = NoAccept /\ soldOut THEN [offers EXCEPT ![s][p] = NoOffer] ELSE offers

Payment(s, b, paid) ==
  LET p == PaidProperty(s, b)
      a == accepts[s][p][b]
      purchased == IF DexMath THEN calculateDExPurchase(a, paid) ELSE legacy_calculateDExPurchase(a, paid)
  IN  /\ alive
      /\ s # Exodus                   \* HandleDExPayments skips outputs to Exodus
      /\ DEx_acceptExists(s, p, b)
      /\ a.desired # 0
      /\ \/ /\ Priceable(a, paid)
            /\ Settle(s, p, b, Lesser(purchased, a.remaining))
            /\ UNCHANGED outOfRange
         \/ /\ ~ Priceable(a, paid) /\ DexMath
            /\ alive' = FALSE
            /\ outOfRange' = TRUE
            /\ UNCHANGED <<tally, offers, accepts>>
         \/ /\ ~ Priceable(a, paid) /\ ~ DexMath
            /\ ~ outOfRange             \* bound: one such payment
            /\ \E n \in LegacyOutcome(purchased) : Settle(s, p, b, Lesser(n, a.remaining))
            /\ outOfRange' = TRUE
      /\ UNCHANGED <<block, exodus_prev>>

(***************************************************************************)
(* mastercore_handler_block_end.  eraseExpiredAccepts destroys every       *)
(* accept whose payment window has passed: what it still holds returns to  *)
(* the offer it was made for, or to the balance when that offer is gone.   *)
(***************************************************************************)
\* Mutant: one block too late.
ExpiredLate(a) == a.txid # 0 /\ block - a.block > a.window

Expired(a) == a.txid # 0 /\ block - a.block >= a.window

\* Mutant: any offer of the seller takes the tokens back.
MadeForAny(a, offer) == offer.txid # 0

MadeFor(a, offer) == a.txid = offer.txid

\* DEx_acceptDestroy: what accept a returns to the offer, or to the balance.
ToOffer(a, offer)  == IF Expired(a) /\ a.remaining > 0 /\ MadeFor(a, offer) THEN a.remaining ELSE 0
ToSeller(a, offer) == IF Expired(a) /\ a.remaining > 0 /\ ~ MadeFor(a, offer) THEN a.remaining ELSE 0

ReturnedToOffer(s, p)  == SumUpTo([b \in Addr |-> ToOffer(accepts[s][p][b], offers[s][p])], NumAddr)
ReturnedToSeller(s, p) == SumUpTo([b \in Addr |-> ToSeller(accepts[s][p][b], offers[s][p])], NumAddr)

AfterExpiry ==
  [s \in Addr |-> [p \in Property |-> [t \in TallyType |->
     CASE t = "ACCEPT_RESERVE"    -> tally[s][p][t] - ReturnedToOffer(s, p) - ReturnedToSeller(s, p)
       [] t = "SELLOFFER_RESERVE" -> tally[s][p][t] + ReturnedToOffer(s, p)
       [] t = "BALANCE"           -> tally[s][p][t] + ReturnedToSeller(s, p)
       [] OTHER                   -> tally[s][p][t]]]]

(***************************************************************************)
(* calculate_and_update_devmsc: block times may run backwards, so the      *)
(* vested amount devmsc is any value; a smaller one than before is         *)
(* skipped.  The result of update_tally_map is not checked.                *)
(***************************************************************************)
\* Mutants: a backward block time takes awarded tokens back, or the whole
\* vested amount is credited again.
AwardedBackwards(T, devmsc) == Updated(T, Exodus, MSC, "BALANCE", devmsc - exodus_prev)

AwardedAgain(T, devmsc) ==
  IF devmsc > exodus_prev THEN Updated(T, Exodus, MSC, "BALANCE", devmsc) ELSE T

Awarded(T, devmsc) ==
  LET delta == devmsc - exodus_prev
  IN  IF delta > 0 /\ CanUpdate(T, Exodus, MSC, "BALANCE", delta)
      THEN Updated(T, Exodus, MSC, "BALANCE", delta) ELSE T

BlockEnd(devmsc) ==
  /\ alive
  /\ block < MaxBlock
  /\ block' = block + 1
  /\ Commit(AfterExpiry \in Ledger /\ NonNegative(AfterExpiry), Awarded(AfterExpiry, devmsc))
  /\ accepts' = [s \in Addr |-> [p \in Property |-> [b \in Addr |->
                   IF Expired(accepts[s][p][b]) THEN NoAccept ELSE accepts[s][p][b]]]]
  /\ exodus_prev' = IF alive' /\ devmsc > exodus_prev THEN devmsc ELSE exodus_prev
  /\ UNCHANGED <<offers, outOfRange>>
------------------------------------------------------------------------------
Next ==
  \/ \E s, r \in Addr, p \in Property, n \in SendAmounts : SimpleSend(s, r, p, n)
  \/ \E s \in Sellers, p \in {MSC, TMSC}, form \in Forms, n \in OfferAmounts,
        d \in Desired, f \in MinFees, w \in Windows : TradeOffer(s, p, form, n, d, f, w)
  \/ \E b \in Buyers, s \in Addr, p \in {MSC, TMSC}, n \in AcceptAmounts,
        fee \in FeesPaid : AcceptOffer(b, s, p, n, fee)
  \/ \E b \in Buyers, s \in Addr, paid \in Payments : Payment(s, b, paid)
  \/ \E devmsc \in 0..AllReward : BlockEnd(devmsc)

Spec == Init /\ [][Next]_vars
------------------------------------------------------------------------------
(***************************************************************************)
(* The variables hold values of their types; in particular no amount is    *)
(* negative or beyond int64_t, as CMPTally::updateMoney is to ensure.      *)
(***************************************************************************)
TypeOK ==
  /\ tally \in Ledger /\ NonNegative(tally)
  /\ offers \in [Addr -> [Property -> Offer]]
  /\ accepts \in [Addr -> [Property -> [Addr -> Accept]]]
  /\ block \in 1..MaxBlock
  /\ exodus_prev \in 0..AllReward
  /\ alive \in BOOLEAN /\ outOfRange \in BOOLEAN

(***************************************************************************)
(* No assert of the exchange fails: whatever offers, accepts, updates,     *)
(* cancellations, payments and expiries came before, the reserve that      *)
(* DEx_offerDestroy, DEx_acceptCreate, DEx_payment and DEx_acceptDestroy   *)
(* debit covers the debit.  A price beyond int64_t is the one exception.   *)
(***************************************************************************)
AssertsHold == ~ outOfRange => alive

(***************************************************************************)
(* The ACCEPT_RESERVE of a seller, one number shared by the accepts of all *)
(* buyers and of offers long gone, is what these accepts still hold.       *)
(***************************************************************************)
Accepted(s, p) == SumUpTo([b \in Addr |-> accepts[s][p][b].remaining], NumAddr)

AcceptReserveBacked ==
  ~ outOfRange => \A s \in Addr, p \in Property : tally[s][p]["ACCEPT_RESERVE"] = Accepted(s, p)

(***************************************************************************)
(* An open accept still holds something: DEx_payment removes it with the   *)
(* payment that uses it up, and eraseExpiredAccepts with all it holds.     *)
(***************************************************************************)
OpenAcceptHolds ==
  ~ outOfRange => \A s \in Addr, p \in Property, b \in Addr :
     IF DEx_acceptExists(s, p, b) THEN accepts[s][p][b].remaining > 0
                                  ELSE accepts[s][p][b].remaining = 0

(***************************************************************************)
(* SELLOFFER_RESERVE belongs to the current offer: without an offer it is  *)
(* empty, and with the open accepts of this offer it never holds more than *)
(* the offer was made for.  So what expires from an accept of a replaced   *)
(* offer is never put on sale again by DEx_acceptDestroy.                  *)
(***************************************************************************)
FromOffer(a, offer) == IF a.txid = offer.txid THEN a.remaining ELSE 0

AcceptedFromOffer(s, p) ==
  SumUpTo([b \in Addr |-> FromOffer(accepts[s][p][b], offers[s][p])], NumAddr)

OfferCovered ==
  ~ outOfRange => \A s \in Addr, p \in Property :
     IF DEx_offerExists(s, p)
     THEN tally[s][p]["SELLOFFER_RESERVE"] + AcceptedFromOffer(s, p) <= offers[s][p].amount
     ELSE tally[s][p]["SELLOFFER_RESERVE"] = 0

(***************************************************************************)
(* No handler creates or loses tokens: the total of a property is what the *)
(* fundraiser created, plus the Dev OMNI awarded at the ends of blocks.    *)
(***************************************************************************)
SupplyConserved ==
  \A p \in Property :
     getTotalTokens(tally, p) = InitialSupply(p) + (IF p = MSC THEN exodus_prev ELSE 0)

(***************************************************************************)
(* eraseExpiredAccepts leaves no accept behind: a transaction never meets  *)
(* one more than its payment window after the block it was made in.        *)
(***************************************************************************)
PaymentWindowKept ==
  \A s \in Addr, p \in Property, b \in Addr :
     DEx_acceptExists(s, p, b) => block <= accepts[s][p][b].block + accepts[s][p][b].window

(***************************************************************************)
(* A reservation is the buyer's: within its payment window an accept keeps *)
(* its terms, and disappears only by delivering all it holds to the buyer, *)
(* whatever the seller does to the offer meanwhile.                        *)
(***************************************************************************)
Terms(a) == <<a.txid, a.block, a.window, a.amount, a.desired>>

Honoured(s, p, b) ==
  LET a == accepts[s][p][b]
  IN  a.txid # 0 /\ block < a.block + a.window =>
        \/ /\ Terms(accepts'[s][p][b]) = Terms(a)
           /\ accepts'[s][p][b].remaining <= a.remaining
        \/ /\ accepts'[s][p][b] = NoAccept
           /\ tally'[b][p]["BALANCE"] = tally[b][p]["BALANCE"] + a.remaining

AcceptHonoured ==
  [][~ outOfRange' => \A s \in Addr, p \in Property, b \in Addr : Honoured(s, p, b)]_vars

\* The inductive invariant behind the proofs.
IInv ==
  /\ TypeOK
  /\ SupplyConserved
  /\ AssertsHold
  /\ OpenAcceptHolds
  /\ AcceptReserveBacked
  /\ OfferCovered

(***************************************************************************)
(* DEx_payment on a price above what the accept holds: the buyer gets only *)
(* what is in the accept.                                                  *)
(***************************************************************************)
OverpaymentClamped == [][~ outOfRange /\ outOfRange' => alive' /\ tally' # tally]_vars

(***************************************************************************)
(* DEx_payment deletes an offer once there is nothing in its reserves: an  *)
(* offer has tokens on sale, or in an accept made for it.                  *)
(***************************************************************************)
SoldOutOfferDeleted ==
  \A s \in Addr, p \in Property :
     DEx_offerExists(s, p) => tally[s][p]["SELLOFFER_RESERVE"] + AcceptedFromOffer(s, p) > 0

(***************************************************************************)
(* The exchange is a ledger: seen from outside its reserves, its steps     *)
(* transfer tokens between two addresses or award Dev OMNI.                *)
(***************************************************************************)
HeldBy(T) == [a \in Addr |-> [p \in Property |-> Holding(T, a, p)]]

Abstract == INSTANCE TokenLedger WITH held <- HeldBy(tally), minted <- exodus_prev

ImplementsLedger == Abstract!Spec
==============================================================================
