---------------------------- MODULE NodeActivation ----------------------------
(***************************************************************************)
(* Feature activation on a node whose chain is reorganised and whose       *)
(* process stops: the modules Activation and Node side by side.  A block   *)
(* carries one transaction, which is the same whenever the block is        *)
(* processed, at whatever height, and whether it arrives from the network  *)
(* or is scanned again.  Block 1 is common to all chains and carries none, *)
(* so that position i of chain has height i + 1.                           *)
(***************************************************************************)
EXTENDS Activation, Sequences

CONSTANTS Block, ContractBlock, MaxHeight, MaxHistory, MaxCrashes, MaxDisconnects,
  Transaction    \* the activation or deactivation each block carries

VARIABLES chain, stores, contracts, files, phase, connecting, reorg, early, crashes, disconnects

N == INSTANCE Node WITH shutdown <- stopping

nodeVars == <<chain, stores, contracts, files, phase, connecting, reorg, early, crashes, disconnects>>
allVars  == <<vars, nodeVars>>

\* Deactivations use the field for the feature only.
ASSUME NodeActivationAssumption ==
  /\ {MaxHeight, MaxHistory, MaxCrashes, MaxDisconnects} \subseteq Nat
  /\ MaxBlock = MaxHeight + 1
  /\ ContractBlock \subseteq Block
  /\ Transaction \in [Block -> [type : {"activate", "deactivate"}, feature : Feature \cup Unknown,
                                block : 1..(MaxBlock + 1), version : Versions]]

NodeInit == Init /\ N!Init

\* What logicMath_Activation and logicMath_Deactivation let pass.
Accepted(t) ==
  \/ t.type = "activate" /\ Notice(t.block) /\ ~ IsFeatureActivated(t.feature, block)
  \/ t.type = "deactivate" /\ IsFeatureActivated(t.feature, block)

\* mastercore_handler_tx for the transaction of block b.
Process(b) ==
  LET t == Transaction[b]
  IN  \/ t.type = "activate" /\ ActivateFeature(t.feature, t.block, t.version)
      \/ t.type = "deactivate" /\ t.feature \in Feature /\ DeactivateFeature(t.feature)
      \/ ~ Accepted(t) /\ UNCHANGED vars

\* mastercore_handler_block_begin: after a reorganisation everything is cleared
\* and scanned before the activations of the new height are checked.
NodeBlockBegin(b) ==
  /\ N!BlockBegin(b)
  /\ IF reorg THEN Reparse ELSE BlockBegin(Len(chain) + 2)

\* msc_initial_scan: the begin of a block, then its transaction.
ScanBegin       == N!ScanBegin /\ BlockBegin(Len(stores["state"]) + 2)
ScanTransaction == N!ScanTransactions /\ Process(chain[Len(stores["state"]) + 1])

\* After the scan, or what is done of it, the begin of the block that waited
\* goes on.
WaitingBegins == IF connecting = N!NoBlock THEN UNCHANGED vars ELSE BlockBegin(Len(chain) + 2)

ScanDone   == N!ScanDone /\ WaitingBegins
ScanBroken == N!ScanBroken /\ WaitingBegins

Transactions == N!Transactions /\ Process(connecting)

\* What does not touch the features: mastercore_handler_block_end and
\* disconnected blocks.
Quiet == (N!BlockEnd \/ N!Disconnect) /\ UNCHANGED vars

\* The user stops the client.  The process ends then, or at any moment, and with
\* it what it has in memory.
Stop  == phase # "down" /\ StartShutdown /\ UNCHANGED nodeVars
Crash == N!Crash /\ Restart

\* mastercore_init.
Start == N!Restart /\ Reparse

NodeNext ==
  \/ \E b \in Block : NodeBlockBegin(b)
  \/ ScanBegin \/ ScanTransaction \/ ScanDone \/ ScanBroken
  \/ Transactions
  \/ Quiet \/ Stop \/ Crash
  \/ Start

\* The handlers run to their end, and a node that stopped is started again.
NodeFairness ==
  /\ WF_allVars(ScanBegin) /\ WF_allVars(ScanTransaction) /\ WF_allVars(ScanDone)
  /\ WF_allVars(Transactions) /\ WF_allVars(N!BlockEnd /\ UNCHANGED vars)
  /\ WF_allVars(Start)

NodeSpec == NodeInit /\ [][NodeNext]_allVars /\ NodeFairness
-------------------------------------------------------------------------------
(***************************************************************************)
(* Properties.                                                             *)
(***************************************************************************)
\* Whatever reorganisations and stops came before, also in the middle of a
\* block or of a scan: unless a scan stopped early, the transactions of a
\* block are processed on the state of its parent chain, every block of it
\* processed exactly once (clear_all_state and msc_initial_scan).  Orders for
\* contracts that are left over from before a reorganisation spoil the blocks
\* from the first contract on, and nothing else does.
StateFollowsChain == N!StateFollowsChain

\* A node that stopped has caught up with the chain some time later, unless it
\* is told to stop again or cannot read a block (mastercore_init and
\* msc_initial_scan).
CatchesUp == N!CatchesUp

(***************************************************************************)
(* The activations of a node that processes a chain once, block by block,  *)
(* and never stops.                                                        *)
(***************************************************************************)
Activations == [params |-> params, pending |-> pending, completed |-> completed]

NoActivations == [params |-> InitialBlock, pending |-> {}, completed |-> {}]

\* A with the begin of block h.
Begun(A, h) ==
  [params    |-> A.params,
   pending   |-> {a \in A.pending : a.block > h},
   completed |-> A.completed \cup {a \in A.pending : a.block <= h}]

\* A with transaction t, when it is in block h.
Announced(A, t, h) ==
  LET live == t.feature \in Feature /\ h >= A.params[t.feature]
  IN  IF t.type = "activate" /\ ~ live /\ t.block - h \in MIN_ACTIVATION_BLOCKS..MAX_ACTIVATION_BLOCKS
      THEN [params    |-> [f \in Feature |-> IF f = t.feature THEN t.block ELSE A.params[f]],
            pending   |-> {a \in A.pending : a.feature # t.feature}
                            \cup {[feature |-> t.feature, block |-> t.block, version |-> t.version]},
            completed |-> A.completed]
      ELSE IF t.type = "deactivate" /\ live
      THEN [params    |-> [f \in Feature |-> IF f = t.feature THEN Never ELSE A.params[f]],
            pending   |-> A.pending,
            completed |-> A.completed]
      ELSE A

\* The activations after each number of blocks of chain c, the last of them.
Replay(c) ==
  LET R[n \in 0..Len(c)] == IF n = 0 THEN NoActivations
                            ELSE Announced(Begun(R[n - 1], n + 1), Transaction[c[n]], n + 1)
  IN  R[Len(c)]

\* After any reorganisations and stops, unless a scan stopped early, the
\* consensus parameters and the pending and completed activations are exactly
\* those of a node that processed the active chain once: no announcement of an
\* orphaned block stays, none of the chain is lost or applied twice
\* (clear_all_state, CheckLiveActivations and msc_initial_scan).
ActivationsFollowChain ==
  N!Ready => Activations = IF phase = "idle" THEN Replay(chain) ELSE Begun(Replay(chain), Len(chain) + 2)

\* The two departures of Node, for the runs of this module: after a
\* reorganisation the orders for contracts are those of the chain
\* (clear_all_state), and saved state is used (load_most_relevant_state).
ContractsFollowChain == N!ContractsFollowChain
SavedStateUsed       == N!SavedStateUsed
===============================================================================
