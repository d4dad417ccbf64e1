------------------------------ MODULE Crowdsale ------------------------------
(***************************************************************************)
(* Crowdsales of Omni Core (sp.cpp and the handlers of tx.cpp): tokens of  *)
(* a variable property are created for whoever sends the desired property  *)
(* to the issuer, with a bonus for early sends and a percentage for the    *)
(* issuer.  A crowdsale ends by a transaction, by its deadline, or when    *)
(* no more tokens can be created.                                          *)
(*                                                                         *)
(* Times are whole weeks, the unit of the early bird bonus.  Desired       *)
(* properties are divisible, Coin being the units in one token.  Rejected  *)
(* transactions are stuttering steps.                                      *)
(***************************************************************************)
EXTENDS Tally

CONSTANTS
  InitBalance,    \* OMNI at the start
  Coin,           \* satoshi_precision_
  Precision,      \* precision_ * satoshi_precision_
  MaxTime,        \* bound: the last block time
  Sales,          \* fields of the transactions that create properties
  Sends           \* sender, receiver, property and amount of sends

ASSUME CrowdsaleAssumption ==
  /\ MSC \in Property /\ Property \subseteq Nat \ {0, TMSC}
  /\ InitBalance \in [Addr -> Amount]
  /\ Coin \in Nat \ {0} /\ Precision \in Nat \ {0} /\ MaxTime \in Nat
  /\ Sales \subseteq [desired : Property, tokens : Amount \ {0}, deadline : 0..MaxTime,
                      early : 0..255, percentage : 0..255]
  /\ Sends \subseteq Addr \X Addr \X Property \X Amount

VARIABLES
  tally,    \* mp_tally_map
  sps,      \* _my_sps: the properties created so far
  crowds,   \* my_crowds: the crowdsale an address runs
  time,     \* time of the block being processed
  failed    \* what stopped the processing of blocks, or "no"

vars == <<tally, sps, crowds, time, failed>>

\* An entry of a property: users is the sum over historicalData.
SP == [issuer : 0..NumAddr, desired : Property, tokens : Amount, deadline : 0..MaxTime,
       early : 0..255, percentage : 0..255, users : Nat,
       closed : {"no", "early", "maxed", "expired"}]

NoSP == [issuer |-> 0, desired |-> MSC, tokens |-> 0, deadline |-> 0, early |-> 0,
         percentage |-> 0, users |-> 0, closed |-> "no"]

\* A crowdsale: its property, and what it created for users and issuer.
Crowd   == [prop : Property \cup {0}, users : Nat, issuer : Nat]
NoCrowd == [prop |-> 0, users |-> 0, issuer |-> 0]

Created == {p \in Property : sps[p] # NoSP}
Running == {a \in Addr : crowds[a] # NoCrowd}

Init ==
  /\ tally = [a \in Addr |-> [p \in Property |-> [t \in TallyType |->
                IF p = MSC /\ t = "BALANCE" THEN InitBalance[a] ELSE 0]]]
  /\ sps = [p \in Property |-> NoSP]
  /\ crowds = [a \in Addr |-> NoCrowd]
  /\ time = 0
  /\ failed = "no"

(***************************************************************************)
(* calculateFundraiser for n units of OMNI and supply total: tokens for    *)
(* the user and the issuer, and whether no more can be created.  Dividing  *)
(* by what can still be created fails when that is nothing.                *)
(***************************************************************************)
EarlyBirdPercent(sp) == 100 + sp.early * IF time < sp.deadline THEN sp.deadline - time ELSE 0

calculateFundraiser(sp, n, total) ==
  LET user      == (n * sp.tokens * EarlyBirdPercent(sp)) \div (100 * Coin)
      issuer    == (user * sp.percentage) \div 100
      creatable == MaxInt - total
      cut       == (issuer * Precision) \div (((user + issuer) * Precision) \div creatable)
      fits      == total + user + issuer <= MaxInt
      stop      == IF fits THEN "no" ELSE IF creatable = 0 THEN "division by zero"
                   ELSE IF cut > creatable THEN "assert" ELSE "no"
  IN  [stop   |-> stop,
       close  |-> ~fits,
       user   |-> IF fits \/ stop # "no" THEN user ELSE creatable - cut,
       issuer |-> IF fits \/ stop # "no" THEN issuer ELSE cut]

\* Mutant: what the issuer received is not subtracted.
MissedBonusInFull(sp, c) == (c.users * sp.percentage) \div 100

\* GetMissedIssuerBonus, without its consistency check.
GetMissedIssuerBonus(sp, c) ==
  LET exact   == (c.users * sp.percentage) \div 100
      missing == IF exact < c.issuer THEN 0 ELSE exact - c.issuer
      total   == c.users + c.issuer
  IN  IF total + missing > MaxInt THEN MaxInt - total ELSE missing

\* The consistency check of GetMissedIssuerBonus.
Consistent(T, c) == getTotalTokens(T, c.prop) = c.issuer + c.users
------------------------------------------------------------------------------
\* The tokens of a participation credited, those that are not zero.
CreditedTo(T, p, s, n, r, m) ==
  LET T1 == IF n > 0 THEN Updated(T, s, p, "BALANCE", n) ELSE T
  IN  IF m > 0 THEN Updated(T1, r, p, "BALANCE", m) ELSE T1

CanCreditTo(T, p, s, n, r, m) ==
  /\ n > 0 => CanUpdate(T, s, p, "BALANCE", n)
  /\ m > 0 => CanUpdate(IF n > 0 THEN Updated(T, s, p, "BALANCE", n) ELSE T, r, p, "BALANCE", m)

\* Mutant: the tokens for the issuer are not recorded.
RecordedForUsers(c, F) == [c EXCEPT !.users = @ + F.user]

\* incTokensUserCreated and incTokensIssuerCreated.
Recorded(c, F) == [c EXCEPT !.users = @ + F.user, !.issuer = @ + F.issuer]

Stopped(why) == failed' = why /\ UNCHANGED <<tally, sps, crowds>>

\* logicHelper_CrowdsaleParticipation, after the tokens are moved as in T;
\* the end is eraseMaxedCrowdsale.
CrowdsaleParticipation(T, s, r, n) ==
  LET c   == crowds[r]
      F   == calculateFundraiser(sps[c.prop], n, getTotalTokens(T, c.prop))
      sum == Recorded(c, F)
  IN  IF F.stop # "no" THEN Stopped(F.stop)
      ELSE IF ~ CanCreditTo(T, c.prop, s, F.user, r, F.issuer) THEN Stopped("assert")
      ELSE /\ tally' = CreditedTo(T, c.prop, s, F.user, r, F.issuer)
           /\ crowds' = [crowds EXCEPT ![r] = IF F.close THEN NoCrowd ELSE sum]
           /\ sps' = [sps EXCEPT ![c.prop] =
                        IF F.close THEN [@ EXCEPT !.closed = "maxed", !.users = sum.users] ELSE @]
           /\ UNCHANGED failed

SimpleSend(s, r, p, n) ==
  LET T == Moved(tally, p, n, s, "BALANCE", r, "BALANCE")
  IN  /\ failed = "no"
      /\ p = MSC \/ p \in Created
      /\ n > 0 /\ tally[s][p]["BALANCE"] >= n
      /\ IF ~ CanMove(tally, p, n, s, "BALANCE", r, "BALANCE")
           THEN Stopped("assert")
         ELSE IF crowds[r] # NoCrowd /\ sps[crowds[r].prop].desired = p
           THEN CrowdsaleParticipation(T, s, r, n)
         ELSE tally' = T /\ UNCHANGED <<sps, crowds, failed>>
      /\ UNCHANGED time

\* putSP: identifiers are given out in order.
NextSPID == CHOOSE p \in Property \ (Created \cup {MSC}) :
              \A q \in Property \ (Created \cup {MSC}) : p <= q

CreatePropertyVariable(s, sale) ==
  /\ failed = "no"
  /\ Property # Created \cup {MSC}
  /\ sale.desired = MSC \/ sale.desired \in Created
  /\ sale.deadline # 0 /\ sale.deadline >= time
  /\ crowds[s] = NoCrowd
  /\ sps' = [sps EXCEPT ![NextSPID] =
       [issuer |-> s, desired |-> sale.desired, tokens |-> sale.tokens, deadline |-> sale.deadline,
        early |-> sale.early, percentage |-> sale.percentage, users |-> 0, closed |-> "no"]]
  /\ crowds' = [crowds EXCEPT ![s] = [prop |-> NextSPID, users |-> 0, issuer |-> 0]]
  /\ UNCHANGED <<tally, time, failed>>

\* The end of the crowdsales of addresses A: the missed bonus is credited to
\* the issuer of the property, and the crowdsale removed.
Ended(A, how) ==
  LET Sold   == {crowds[a].prop : a \in A}
      Of(p)  == crowds[CHOOSE a \in A : crowds[a].prop = p]
      T      == [b \in Addr |-> [p \in Property |->
                   IF p \in Sold /\ sps[p].issuer = b
                     THEN [tally[b][p] EXCEPT !["BALANCE"] = @ + GetMissedIssuerBonus(sps[p], Of(p))]
                     ELSE tally[b][p]]]
  IN  IF (\E a \in A : ~ Consistent(tally, crowds[a])) \/ T \notin Ledger
        THEN Stopped("assert")
        ELSE /\ tally' = T
             /\ crowds' = [a \in Addr |-> IF a \in A THEN NoCrowd ELSE crowds[a]]
             /\ sps' = [p \in Property |->
                  IF p \in Sold THEN [sps[p] EXCEPT !.closed = how, !.users = Of(p).users] ELSE sps[p]]
             /\ UNCHANGED failed

CloseCrowdsale(s, p) ==
  /\ failed = "no"
  /\ crowds[s] # NoCrowd /\ crowds[s].prop = p
  /\ Ended({s}, "early")
  /\ UNCHANGED time

\* Mutant: the crowdsale of the issuer does not matter.
ChangeIssuerAnytime(s, p, r) ==
  /\ failed = "no"
  /\ p \in Created /\ sps[p].issuer = s
  /\ sps' = [sps EXCEPT ![p].issuer = r]
  /\ UNCHANGED <<tally, crowds, time, failed>>

ChangeIssuer(s, p, r) ==
  /\ failed = "no"
  /\ p \in Created /\ sps[p].issuer = s
  /\ crowds[s] = NoCrowd /\ crowds[r] = NoCrowd
  /\ sps' = [sps EXCEPT ![p].issuer = r]
  /\ UNCHANGED <<tally, crowds, time, failed>>

Expired(a, t) == t > sps[crowds[a].prop].deadline

\* mastercore_handler_block_begin: eraseExpiredCrowdsale.  Block times need
\* not grow.
BlockBegin(t) ==
  /\ failed = "no"
  /\ time' = t
  /\ Ended({a \in Running : Expired(a, t)}, "expired")

Next ==
  \/ \E m \in Sends : SimpleSend(m[1], m[2], m[3], m[4])
  \/ \E s \in Addr, sale \in Sales : CreatePropertyVariable(s, sale)
  \/ \E s \in Addr, p \in Property \ {MSC} : CloseCrowdsale(s, p)
  \/ \E s, r \in Addr, p \in Property \ {MSC} : ChangeIssuer(s, p, r)
  \/ \E t \in 0..MaxTime : BlockBegin(t)

Spec == Init /\ [][Next]_vars
------------------------------------------------------------------------------
(***************************************************************************)
(* Properties.                                                             *)
(***************************************************************************)
TypeOK ==
  /\ tally \in Ledger /\ NonNegative(tally)
  /\ sps \in [Property -> SP] /\ crowds \in [Addr -> Crowd]
  /\ time \in 0..MaxTime /\ failed \in {"no", "assert", "division by zero"}

\* No assert fails: what a crowdsale has recorded as created is always the
\* supply of its property, and every credit fits; no record is negative.
AssertsHold == TypeOK /\ failed # "assert"

\* A crowdsale that is running has not passed its deadline, so that no
\* transaction participates late (eraseExpiredCrowdsale), and the address that
\* runs it is the issuer of the property, also after changes of issuers, so that
\* the bonus goes where participants sent to (logicMath_ChangeIssuer).
RunningIsOpen ==
  \A a \in Running :
    LET sp == sps[crowds[a].prop]
    IN  time <= sp.deadline /\ sp.issuer = a /\ sp.closed = "no"

\* However the tokens were divided over participations, with the rounding of
\* each, the issuer ends up with the exact percentage of what users got, as
\* far as it can be created.
BonusExact ==
  \A p \in Created : sps[p].closed \in {"early", "expired"} =>
    LET all == sps[p].users + (sps[p].users * sps[p].percentage) \div 100
    IN  getTotalTokens(tally, p) = IF all > MaxInt THEN MaxInt ELSE all

\* Comment of logicHelper_CrowdsaleParticipation: "Close crowdsale, if we hit
\* MAX_TOKENS".
MaxedIsClosed ==
  \A a \in Running : getTotalTokens(tally, crowds[a].prop) < MaxInt
==============================================================================
