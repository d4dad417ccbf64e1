------------------------------ MODULE Freezing -------------------------------
(***************************************************************************)
(* Managed properties of Omni Core and the freezing of addresses (handlers *)
(* of tx.cpp, freeze state of omnicore.cpp).  The issuer of a managed      *)
(* property grants tokens, may hand the property over, and may freeze the  *)
(* tokens an address holds, once freezing is enabled and live.             *)
(*                                                                         *)
(* A sender that is frozen for the property of a transaction cannot send   *)
(* it, whatever its type (interpretPacket); rejected transactions are      *)
(* stuttering steps.  No address runs a crowdsale.                         *)
(***************************************************************************)
EXTENDS Tally, FiniteSets

CONSTANTS
  TestProperty,   \* properties of the test ecosystem
  NoticeBlock,    \* FREEZENOTICE_FEATURE_BLOCK
  WaitPeriod,     \* OMNI_FREEZE_WAIT_PERIOD
  MaxBlock,       \* bound: the last block modelled
  Amounts         \* amounts of transactions

ASSUME FreezingAssumption ==
  /\ Property \subseteq Nat /\ TestProperty \subseteq Property
  /\ NoticeBlock \in Nat /\ WaitPeriod \in Nat /\ MaxBlock \in Nat \ {0}
  /\ Amounts \subseteq Amount

VARIABLES
  tally,     \* mp_tally_map
  issuer,    \* Entry::issuer of the property, 0 before it is created
  enabled,   \* setFreezingEnabledProperties: <<property, live block>>
  frozen,    \* setFrozenAddresses: <<address, property>>
  block,     \* height of the block being processed
  aborted    \* the assert that ended the process, or "no"

vars == <<tally, issuer, enabled, frozen, block, aborted>>

Asserts == {"frozen debit", "tally", "next element frozen", "read past the end", "still enabled"}

TypeOK ==
  /\ tally \in Ledger /\ NonNegative(tally)
  /\ issuer \in [Property -> 0..NumAddr]
  /\ enabled \subseteq Property \X (1..(MaxBlock + WaitPeriod))
  /\ frozen \subseteq Addr \X Property
  /\ block \in 1..MaxBlock
  /\ aborted \in Asserts \cup {"no"}

Init ==
  /\ tally = [a \in Addr |-> [p \in Property |-> [t \in TallyType |-> 0]]]
  /\ issuer = [p \in Property |-> 0]
  /\ enabled = {}
  /\ frozen = {}
  /\ block = 1
  /\ aborted = "no"

isFreezingEnabled(E, p, b) == \E e \in E : e[1] = p /\ b >= e[2]
isAddressFrozen(a, p)      == <<a, p>> \in frozen

\* The checks every transaction passes: a sender that is not frozen, and a
\* property that exists.
Accepted(s, p) ==
  /\ aborted = "no"
  /\ issuer[p] # 0
  /\ ~ isAddressFrozen(s, p)

ByIssuer(s, p) == Accepted(s, p) /\ issuer[p] = s

\* Debits of address s and properties P of a handler: update_tally_map
\* asserts that the debited address is not frozen, and the handler that the
\* updates succeed (ok).
Commit(s, P, ok, T) ==
  /\ aborted' = IF \E p \in P : isAddressFrozen(s, p) THEN "frozen debit"
                ELSE IF ~ ok THEN "tally" ELSE "no"
  /\ tally' = IF aborted' = "no" THEN T ELSE tally
------------------------------------------------------------------------------
(***************************************************************************)
(* Issuance.  putSP gives out the identifiers of an ecosystem in order.    *)
(***************************************************************************)
Ecosystem(e) == IF e = TMSC THEN TestProperty ELSE Property \ TestProperty

CreatePropertyManaged(s, e) ==
  /\ aborted = "no"
  /\ \E p \in Ecosystem(e) :
       /\ issuer[p] = 0 /\ \A q \in Ecosystem(e) : q < p => issuer[q] # 0
       /\ issuer' = [issuer EXCEPT ![p] = s]
  /\ UNCHANGED <<tally, enabled, frozen, block, aborted>>

\* Mutant: the limit does not count the tokens already granted.
GrantableAgain(p, n) == n > 0 /\ n <= MaxInt

Grantable(p, n) == n > 0 /\ n <= MaxInt - getTotalTokens(tally, p)

GrantTokens(s, p, r, n) ==
  /\ ByIssuer(s, p)
  /\ Grantable(p, n)
  /\ Commit(s, {}, CanUpdate(tally, r, p, "BALANCE", n), Updated(tally, r, p, "BALANCE", n))
  /\ UNCHANGED <<issuer, enabled, frozen, block>>

RevokeTokens(s, p, n) ==
  /\ Accepted(s, p)
  /\ n > 0 /\ tally[s][p]["BALANCE"] >= n
  /\ Commit(s, {p}, CanUpdate(tally, s, p, "BALANCE", -n), Updated(tally, s, p, "BALANCE", -n))
  /\ UNCHANGED <<issuer, enabled, frozen, block>>

ChangeIssuer(s, p, r) ==
  /\ ByIssuer(s, p)
  /\ issuer' = [issuer EXCEPT ![p] = r]
  /\ UNCHANGED <<tally, enabled, frozen, block, aborted>>
------------------------------------------------------------------------------
(***************************************************************************)
(* Freezing.                                                               *)
(***************************************************************************)
EnableFreezing(s, p) ==
  /\ ByIssuer(s, p)
  /\ ~ isFreezingEnabled(enabled, p, block)
  /\ LET liveBlock == IF block >= NoticeBlock THEN WaitPeriod + block ELSE block
     IN  enabled' = enabled \cup {<<p, liveBlock>>}
  /\ UNCHANGED <<tally, issuer, frozen, block, aborted>>

(***************************************************************************)
(* disableFreezing erases the last entry of the property and then each of  *)
(* its frozen addresses.  After each erasure it asserts that the element   *)
(* after the erased one is not frozen; that is false when there is one,    *)
(* and reads beyond the set, with either outcome, when there is none.      *)
(***************************************************************************)
FrozenFor(p) == {e \in frozen : e[2] = p}

Before(e, f) == e[1] < f[1] \/ (e[1] = f[1] /\ e[2] < f[2])

\* Some frozen entry of p has a successor in the set.
FollowedByFrozen(p) == \E e \in FrozenFor(p), f \in frozen : Before(e, f)

LastEntry(p) ==
  CHOOSE e \in enabled : e[1] = p /\ \A f \in enabled : f[1] = p => f[2] <= e[2]

DisableOutcome(p, E, liveBlock) ==
  IF FollowedByFrozen(p) THEN {"next element frozen"}
  ELSE {IF isFreezingEnabled(E, p, liveBlock) THEN "still enabled" ELSE "no"}
         \cup {x \in {"read past the end"} : FrozenFor(p) # {}}

\* Mutant: the frozen addresses stay frozen.
DisableFreezingKeeps(s, p) ==
  /\ ByIssuer(s, p)
  /\ isFreezingEnabled(enabled, p, block)
  /\ enabled' = enabled \ {LastEntry(p)}
  /\ UNCHANGED <<tally, issuer, frozen, block, aborted>>

DisableFreezing(s, p) ==
  /\ ByIssuer(s, p)
  /\ isFreezingEnabled(enabled, p, block)
  /\ aborted' \in DisableOutcome(p, enabled \ {LastEntry(p)}, LastEntry(p)[2])
  /\ IF aborted' = "no"
       THEN enabled' = enabled \ {LastEntry(p)} /\ frozen' = frozen \ FrozenFor(p)
       ELSE UNCHANGED <<enabled, frozen>>
  /\ UNCHANGED <<tally, issuer, block>>

FreezeTokens(s, p, r) ==
  /\ ByIssuer(s, p)
  /\ isFreezingEnabled(enabled, p, block)
  /\ ~ isAddressFrozen(r, p)
  /\ frozen' = frozen \cup {<<r, p>>}
  /\ UNCHANGED <<tally, issuer, enabled, block, aborted>>

\* Mutant: anyone can unfreeze.
UnfreezeTokensByAnyone(s, p, r) ==
  /\ aborted = "no" /\ issuer[p] # 0
  /\ isFreezingEnabled(enabled, p, block)
  /\ isAddressFrozen(r, p)
  /\ frozen' = frozen \ {<<r, p>>}
  /\ UNCHANGED <<tally, issuer, enabled, block, aborted>>

UnfreezeTokens(s, p, r) ==
  /\ ByIssuer(s, p)
  /\ isFreezingEnabled(enabled, p, block)
  /\ isAddressFrozen(r, p)
  /\ frozen' = frozen \ {<<r, p>>}
  /\ UNCHANGED <<tally, issuer, enabled, block, aborted>>
------------------------------------------------------------------------------
(***************************************************************************)
(* Transfers.  SendAll moves the balance of every property of an ecosystem *)
(* for which the sender is not frozen.                                     *)
(***************************************************************************)
SimpleSend(s, r, p, n) ==
  /\ Accepted(s, p)
  /\ n > 0 /\ tally[s][p]["BALANCE"] >= n
  /\ Commit(s, {p}, CanMove(tally, p, n, s, "BALANCE", r, "BALANCE"),
                    Moved(tally, p, n, s, "BALANCE", r, "BALANCE"))
  /\ UNCHANGED <<issuer, enabled, frozen, block>>

\* Mutant: frozen properties are sent as well.
SentBySendAllWithFrozen(s, e) == {p \in Ecosystem(e) : tally[s][p]["BALANCE"] > 0}

SentBySendAll(s, e) ==
  {p \in Ecosystem(e) : ~ isAddressFrozen(s, p) /\ tally[s][p]["BALANCE"] > 0}

MovedAll(T, P, s, r) ==
  [a \in Addr |-> [p \in Property |->
     IF p \in P THEN Moved(T, p, T[s][p]["BALANCE"], s, "BALANCE", r, "BALANCE")[a][p]
                ELSE T[a][p]]]

SendAll(s, r, e) ==
  LET P == SentBySendAll(s, e)
  IN  /\ aborted = "no"
      /\ P # {}
      /\ Commit(s, P, \A p \in P : CanMove(tally, p, tally[s][p]["BALANCE"],
                                           s, "BALANCE", r, "BALANCE"),
                MovedAll(tally, P, s, r))
      /\ UNCHANGED <<issuer, enabled, frozen, block>>

BlockEnd ==
  /\ aborted = "no"
  /\ block < MaxBlock
  /\ block' = block + 1
  /\ UNCHANGED <<tally, issuer, enabled, frozen, aborted>>
------------------------------------------------------------------------------
Next ==
  \/ BlockEnd
  \/ \E s \in Addr, e \in {MSC, TMSC} :
       CreatePropertyManaged(s, e) \/ \E r \in Addr : SendAll(s, r, e)
  \/ \E s \in Addr, p \in Property :
       \/ EnableFreezing(s, p) \/ DisableFreezing(s, p)
       \/ \E r \in Addr : ChangeIssuer(s, p, r) \/ FreezeTokens(s, p, r) \/ UnfreezeTokens(s, p, r)
       \/ \E n \in Amounts : RevokeTokens(s, p, n)
       \/ \E r \in Addr, n \in Amounts : GrantTokens(s, p, r, n) \/ SimpleSend(s, r, p, n)

Spec == Init /\ [][Next]_vars
------------------------------------------------------------------------------
(***************************************************************************)
(* Properties.                                                             *)
(***************************************************************************)
\* The assert of update_tally_map that a frozen address is never debited
\* holds in every handler, and so does every assert on an update.
BalanceAssertsHold == aborted \notin {"frozen debit", "tally"}

\* All tokens of a property fit into an int64_t, whatever is granted,
\* revoked and granted again: getTotalTokens never overflows.
SupplyFits == \A p \in Property : getTotalTokens(tally, p) <= MaxInt

\* An address is frozen only while freezing is live for the property:
\* disabling releases every address, and a new notice period starts with
\* nobody frozen.
FrozenOnlyWhileLive ==
  aborted = "no" => \A e \in frozen : isFreezingEnabled(enabled, e[2], block)

\* When the issuer is frozen for its own property, no later transaction
\* thaws it, hands the property over, or issues more of it.
FrozenIssuerIsStuck ==
  [][\A p \in Property :
       (issuer[p] # 0 /\ isAddressFrozen(issuer[p], p)) =>
         /\ issuer'[p] = issuer[p]
         /\ {e \in frozen' : e[2] = p} = FrozenFor(p)
         /\ {e \in enabled' : e[1] = p} = {e \in enabled : e[1] = p}
         /\ getTotalTokens(tally', p) <= getTotalTokens(tally, p)]_vars

\* Comment in disableFreezing: "When disabling freezing for a property, all
\* frozen addresses for that property will be unfrozen!"  (Also when nothing
\* is read beyond the set.)
DisableUnfreezesAll ==
  [][\A s \in Addr, p \in Property :
       (DisableFreezing(s, p) /\ aborted' # "read past the end") =>
         \A a \in Addr : <<a, p>> \notin frozen']_vars

\* Last line of disableFreezing: assert(!isFreezingEnabled(propertyId,
\* liveBlock)).
DisabledIsDisabled == aborted # "still enabled"
==============================================================================
