------------------------------- MODULE Pending -------------------------------
(***************************************************************************)
(* Pending transactions (pending.cpp): what this wallet has sent and no    *)
(* block has confirmed is subtracted from the balances it shows.           *)
(*                                                                         *)
(* Threads that serve RPC calls hand a transaction to the network and then *)
(* call PendingAdd, which takes cs_tally and then cs_pending, one after    *)
(* the other.  The thread that connects blocks holds both in PendingDelete *)
(* and PendingCheck.  One property and its PENDING tally are modelled.     *)
(***************************************************************************)
EXTENDS Tally

CONSTANTS
  NumTx,     \* transactions are 1..NumTx, in the order of their hashes
  Call       \* source, amount and fSubtract of each

Txid == 1..NumTx

ASSUME PendingAssumption ==
  /\ NumTx \in Nat
  /\ Call \in [Txid -> [src : Addr, amount : Amount, subtract : BOOLEAN]]

VARIABLES
  rpc,         \* how far the call that sends a transaction is
  tally,       \* PENDING tally of each address
  my_pending,  \* hashes in the map of pending transactions
  mempool,     \* hashes in the mempool
  block,       \* hashes of the block being connected still to be handled
  connecting,  \* between begin and end of a block
  alive,       \* the process runs
  torn         \* history: a reorganisation fell between the parts of PendingAdd

vars == <<rpc, tally, my_pending, mempool, block, connecting, alive, torn>>

Init ==
  /\ rpc = [t \in Txid |-> "new"]
  /\ tally = [a \in Addr |-> 0]
  /\ my_pending = {} /\ mempool = {} /\ block = {}
  /\ connecting = FALSE /\ alive = TRUE /\ torn = FALSE
------------------------------------------------------------------------------
(***************************************************************************)
(* The threads of RPC calls.                                               *)
(***************************************************************************)

\* WalletTxBuilder commits the transaction.
Broadcast(t) ==
  /\ alive /\ rpc[t] = "new"
  /\ rpc' = [rpc EXCEPT ![t] = "sent"]
  /\ mempool' = mempool \cup {t}
  /\ UNCHANGED <<tally, my_pending, block, connecting, alive, torn>>

\* PendingAdd, first part; update_tally_map fails for nothing.
Debit(t) ==
  /\ alive /\ rpc[t] = "sent"
  /\ rpc' = [rpc EXCEPT ![t] = IF Call[t].subtract /\ Call[t].amount = 0 THEN "done" ELSE "debited"]
  /\ tally' = IF Call[t].subtract THEN [tally EXCEPT ![Call[t].src] = @ - Call[t].amount] ELSE tally
  /\ UNCHANGED <<my_pending, mempool, block, connecting, alive, torn>>

\* PendingAdd, second part.
Insert(t) ==
  /\ alive /\ rpc[t] = "debited"
  /\ rpc' = [rpc EXCEPT ![t] = "done"]
  /\ my_pending' = my_pending \cup {t}
  /\ UNCHANGED <<tally, mempool, block, connecting, alive, torn>>
------------------------------------------------------------------------------
(***************************************************************************)
(* The thread that connects blocks.                                        *)
(***************************************************************************)

\* Mutant: the tally is left as it is.
ForgottenCredit(T, t) == T

\* The tally T after PendingDelete of t.
Credited(T, t) ==
  IF T[Call[t].src] # 0 THEN [T EXCEPT ![Call[t].src] = @ + Call[t].amount] ELSE T

\* The tally after PendingDelete of all hashes of S, in their order.
AllCredited(S) ==
  LET upTo[n \in 0..NumTx] == IF n = 0 THEN tally
                              ELSE IF n \in S THEN Credited(upTo[n - 1], n) ELSE upTo[n - 1]
  IN  upTo[NumTx]

\* ConnectTip, first part: transactions leave the mempool.
BlockBegin(S) ==
  /\ alive /\ ~connecting
  /\ connecting' = TRUE /\ block' = S
  /\ mempool' = mempool \ S
  /\ UNCHANGED <<rpc, tally, my_pending, alive, torn>>

\* mastercore_handler_tx: PendingDelete.
HandlerTx(t) ==
  /\ alive /\ t \in block
  /\ block' = block \ {t}
  /\ tally' = AllCredited({t} \cap my_pending)
  /\ my_pending' = my_pending \ {t}
  /\ UNCHANGED <<rpc, mempool, connecting, alive, torn>>

\* Mutant: nothing is checked.
NothingGone == {}

Gone == my_pending \ mempool

\* mastercore_handler_block_end: PendingCheck.  The iterator of the loop is
\* used after its element is erased: from then on the loop may go on, stop
\* early or end the process.
BlockEnd ==
  /\ alive /\ connecting /\ block = {}
  /\ connecting' = FALSE
  /\ \/ /\ Gone = {}
        /\ UNCHANGED <<tally, my_pending, alive>>
     \/ \E S \in SUBSET Gone \ {{}} :
          /\ tally' = AllCredited(S)
          /\ my_pending' = my_pending \ S
          /\ alive' \in BOOLEAN
  /\ UNCHANGED <<rpc, mempool, block, torn>>

\* clear_all_state, at the first block after blocks were disconnected.
Clear ==
  /\ alive /\ ~connecting
  /\ tally' = [a \in Addr |-> 0]
  /\ my_pending' = {}
  /\ torn' = (torn \/ \E t \in Txid : rpc[t] = "debited")
  /\ UNCHANGED <<rpc, mempool, block, connecting, alive>>

\* The mempool drops a transaction, or gets a sent one back.
Dropped(t) ==
  /\ alive /\ t \in mempool
  /\ mempool' = mempool \ {t}
  /\ UNCHANGED <<rpc, tally, my_pending, block, connecting, alive, torn>>

Returned(t) ==
  /\ alive /\ rpc[t] # "new" /\ t \notin mempool /\ ~connecting
  /\ mempool' = mempool \cup {t}
  /\ UNCHANGED <<rpc, tally, my_pending, block, connecting, alive, torn>>

Next ==
  \/ \E t \in Txid : Broadcast(t) \/ Debit(t) \/ Insert(t) \/ HandlerTx(t) \/ Dropped(t) \/ Returned(t)
  \/ \E S \in SUBSET mempool : BlockBegin(S)
  \/ BlockEnd
  \/ Clear

\* Blocks keep arriving, and each is processed to its end.
Fairness ==
  /\ WF_vars(\E S \in SUBSET mempool : BlockBegin(S))
  /\ \A t \in Txid : WF_vars(HandlerTx(t))
  /\ WF_vars(BlockEnd)

Spec == Init /\ [][Next]_vars /\ Fairness
------------------------------------------------------------------------------
(***************************************************************************)
(* Properties.                                                             *)
(***************************************************************************)
\* Types; what is pending was sent, and what is being confirmed left the mempool.
TypeOK ==
  /\ rpc \in [Txid -> {"new", "sent", "debited", "done"}]
  /\ tally \in [Addr -> Int]
  /\ my_pending \subseteq {t \in Txid : rpc[t] = "done"}
  /\ mempool \subseteq Txid /\ block \subseteq Txid \ mempool
  /\ connecting \in BOOLEAN /\ alive \in BOOLEAN /\ torn \in BOOLEAN

\* Transactions whose amount is subtracted and not credited back yet.
Subtracted == {t \in Txid : Call[t].subtract /\ (t \in my_pending \/ rpc[t] = "debited")}

\* PendingDelete may have credited address a with what PendingAdd never
\* subtracted: the amount of a cancellation.
CreditedForNothing(a) ==
  \E t \in Txid : /\ Call[t].src = a /\ ~Call[t].subtract /\ Call[t].amount # 0
                  /\ rpc[t] = "done" /\ t \notin my_pending

\* Comment of PendingDelete: a transaction deleted from the map has its amount
\* credited "back to the pending tally for the address".  So the tally of an
\* address is minus what is pending, whatever the order of calls,
\* confirmations, checks and reorganisations, unless one falls between the two
\* parts of PendingAdd, and until a cancellation at a price (or of an offer,
\* with its amount) of that address is deleted: it is credited as well.
CreditedBack ==
  /\ TypeOK
  /\ ~torn => \A a \in {b \in Addr : ~CreditedForNothing(b)} :
       tally[a] = 0 - SumUpTo([t \in Txid |-> IF t \in Subtracted /\ Call[t].src = a
                                                THEN Call[t].amount ELSE 0], NumTx)

\* The same comment: never is more credited back than was subtracted.
NeverPositive == \A a \in Addr : tally[a] <= 0

\* Comment of PendingCheck: what is no longer in the mempool is deleted from the
\* map, in the end, also when it was added only after it was confirmed.
GoneIsDeleted ==
  \A t \in Txid : t \in my_pending /\ t \notin mempool
                     ~> t \notin my_pending \/ t \in mempool \/ ~alive
==============================================================================
