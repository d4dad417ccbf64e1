-------------------------------- MODULE Node ---------------------------------
(***************************************************************************)
(* How the state of Omni Core follows the active chain (the block handlers *)
(* and the start of omnicore.cpp, called from ConnectTip and DisconnectTip *)
(* of main.cpp): blocks are connected and disconnected, the process may    *)
(* stop at any moment, and starts again with what is on disk.              *)
(*                                                                         *)
(* A store is represented by the blocks whose transactions it reflects, in *)
(* the order in which they were processed.  All stores are correct when    *)
(* they are the active chain.  A block that was processed with orders for  *)
(* contracts that are not those of the blocks before it is Spoiled, as is  *)
(* every later one: balances differ from those of other nodes.  Module     *)
(* NodeActivation has the next-state relation: these actions together with *)
(* what they do to the features.                                           *)
(***************************************************************************)
EXTENDS Naturals, Sequences, Functions

CONSTANTS
  Block,        \* blocks miners may find
  ContractBlock,  \* those with transactions about contracts
  MaxHeight,    \* bound: length of the chain
  MaxHistory,   \* MAX_STATE_HISTORY
  MaxCrashes,   \* bound: times the process stops
  MaxDisconnects  \* bound: blocks disconnected

\* Balances, offers, accepts, crowdsales and orders are in memory; the others
\* are databases.
MemoryStore == {"state"}
Database    == {"spinfo", "lists", "fees"}
Store       == MemoryStore \cup Database

NoBlock == "none"
Spoiled == "spoiled"

VARIABLES
  chain,        \* chainActive
  stores,       \* the blocks each store reflects
  contracts,    \* contractdex and the terms and prices of contracts
  files,        \* chains whose state is saved in files
  phase,        \* what the process is doing
  connecting,   \* the block being connected
  reorg,        \* reorgRecoveryMode > 0
  early,        \* history: the last scan stopped early
  crashes,      \* number of stops so far
  disconnects,  \* number of blocks disconnected so far
  shutdown      \* ShutdownRequested, which others set

vars == <<chain, stores, contracts, files, phase, connecting, reorg, early, crashes, disconnects>>

Init ==
  /\ chain = <<>>
  /\ stores = [s \in Store |-> <<>>]
  /\ contracts = "none"
  /\ files = {}
  /\ phase = "idle"
  /\ connecting = NoBlock
  /\ reorg = FALSE /\ early = FALSE
  /\ crashes = 0
  /\ disconnects = 0

(***************************************************************************)
(* load_most_relevant_state.  A state is loaded when all its files are     *)
(* read: write_globals_state writes three fields, of the four that         *)
(* input_globals_state_string requires, and msc_file_load has no case for  *)
(* the orders of contracts.                                                *)
(***************************************************************************)
FileType == {"balances", "offers", "accepts", "globals", "crowdsales", "mdexorders", "cdexorders"}

GlobalsWritten == 3
GlobalsRead    == 4

msc_file_load(t) ==
  CASE t = "globals"    -> GlobalsWritten = GlobalsRead
    [] t = "cdexorders" -> FALSE
    [] OTHER            -> TRUE

StateLoaded ==
  \E n \in 0..Len(chain) : SubSeq(chain, 1, n) \in files /\ \A t \in FileType : msc_file_load(t)

\* Mutant: the fee cache is not cleared.
ClearedButFees == [s \in Store |-> IF s = "fees" THEN stores[s] ELSE <<>>]

\* clear_all_state.
clear_all_state == [s \in Store |-> <<>>]

\* What clear_all_state does not clear: orders for contracts, and the globals
\* that hold terms and prices.
Uncleared == IF contracts = "none" THEN "none" ELSE "left over"

\* contracts after block b: what was left over takes part in its trades.
Traded(b) ==
  IF b \notin ContractBlock THEN contracts
  ELSE IF contracts \in {"left over", "matched"} THEN "matched" ELSE "processed"

\* mastercore_handler_tx for all transactions of block b.
Processed(b) ==
  [s \in Store |-> Append(stores[s], IF Traded(b) = "matched" THEN Spoiled ELSE b)]

\* mastercore_save_state and prune_state_files for the state of chain c, when
\* it is near the tip.
Saved(c) ==
  IF Len(chain) > Len(c) + MaxHistory THEN files
  ELSE {f \in files \cup {c} : Len(c) <= Len(f) + MaxHistory}

\* Mutant: the last block is not scanned.
ToScanButLast == ~ shutdown /\ Len(stores["state"]) + 1 < Len(chain)

\* msc_initial_scan has blocks left and is not told to stop.  The chain is the
\* same all through a scan (cs_main), so that chainActive has the next block.
ToScan == ~ shutdown /\ Len(stores["state"]) < Len(chain)

\* After a scan: nothing, or the rest of the begin of the block that waited.
AfterScan == IF connecting = NoBlock THEN "idle" ELSE "transactions"
------------------------------------------------------------------------------
(***************************************************************************)
(* mastercore_handler_block_begin.  The first block after disconnected     *)
(* ones finds reorgRecoveryMode set: the records above its height are      *)
(* deleted, the state cannot be loaded, so that everything is cleared and  *)
(* scanned again up to the parent of the block.                            *)
(***************************************************************************)
BlockBegin(b) ==
  /\ phase = "idle"
  /\ b \notin Range(chain) /\ Len(chain) < MaxHeight
  /\ connecting' = b
  /\ reorg' = FALSE
  /\ IF reorg THEN /\ ~ StateLoaded
                   /\ stores' = clear_all_state /\ contracts' = Uncleared
                   /\ phase' = "scan" /\ early' = FALSE
              ELSE /\ phase' = "transactions"
                   /\ UNCHANGED <<stores, contracts, early>>
  /\ UNCHANGED <<chain, files, crashes, disconnects>>

(***************************************************************************)
(* msc_initial_scan.  A demand to stop is noticed between two blocks only. *)
(* A block that cannot be read ends the scan after its begin; nothing asks *)
(* why a scan ended, and the client goes on with what it has.              *)
(***************************************************************************)
ScanBegin ==
  /\ phase = "scan" /\ ToScan
  /\ phase' = "replay"
  /\ UNCHANGED <<chain, stores, contracts, files, connecting, reorg, early, crashes, disconnects>>

ScanTransactions ==
  /\ phase = "replay"
  /\ LET n == Len(stores["state"]) + 1
     IN  /\ stores' = Processed(chain[n]) /\ contracts' = Traded(chain[n])
         /\ files' = Saved(SubSeq(chain, 1, n))
  /\ phase' = "scan"
  /\ UNCHANGED <<chain, connecting, reorg, early, crashes, disconnects>>

ScanBroken ==
  /\ phase = "replay"
  /\ early' = TRUE
  /\ phase' = AfterScan
  /\ UNCHANGED <<chain, stores, contracts, files, connecting, reorg, crashes, disconnects>>

ScanDone ==
  /\ phase = "scan" /\ ~ ToScan
  /\ early' = (shutdown /\ Len(stores["state"]) < Len(chain))
  /\ phase' = AfterScan
  /\ UNCHANGED <<chain, stores, contracts, files, connecting, reorg, crashes, disconnects>>

\* UpdateTip, then the transactions of the block.
Transactions ==
  /\ phase = "transactions"
  /\ chain' = Append(chain, connecting)
  /\ stores' = Processed(connecting) /\ contracts' = Traded(connecting)
  /\ phase' = "end"
  /\ UNCHANGED <<files, connecting, reorg, early, crashes, disconnects>>

\* mastercore_handler_block_end.
BlockEnd ==
  /\ phase = "end"
  /\ files' = Saved(chain)
  /\ phase' = "idle"
  /\ connecting' = NoBlock
  /\ UNCHANGED <<chain, stores, contracts, reorg, early, crashes, disconnects>>

\* DisconnectTip and mastercore_handler_disc_begin.
Disconnect ==
  /\ phase = "idle" /\ chain # <<>> /\ disconnects < MaxDisconnects
  /\ disconnects' = disconnects + 1
  /\ chain' = SubSeq(chain, 1, Len(chain) - 1)
  /\ reorg' = TRUE
  /\ UNCHANGED <<stores, contracts, files, phase, connecting, early, crashes>>

(***************************************************************************)
(* The process stops and its memory is gone.  Databases and files stay as  *)
(* they are; the chain on disk may end at an earlier block than the chain  *)
(* in memory.                                                              *)
(***************************************************************************)
Crash ==
  /\ phase # "down" /\ crashes < MaxCrashes
  /\ crashes' = crashes + 1
  /\ \E n \in 0..Len(chain) : chain' = SubSeq(chain, 1, n)
  /\ stores' = [s \in Store |-> IF s \in MemoryStore THEN <<>> ELSE stores[s]]
  /\ contracts' = "none"
  /\ phase' = "down"
  /\ connecting' = NoBlock
  /\ reorg' = FALSE /\ early' = FALSE
  /\ UNCHANGED <<files, disconnects>>

\* mastercore_init.
Restart ==
  /\ phase = "down"
  /\ ~ StateLoaded
  /\ stores' = clear_all_state /\ contracts' = Uncleared
  /\ phase' = "scan"
  /\ UNCHANGED <<chain, files, connecting, reorg, early, crashes, disconnects>>
------------------------------------------------------------------------------
(***************************************************************************)
(* Properties.                                                             *)
(***************************************************************************)
\* The transactions of the next block are about to be processed, or would
\* be as soon as it arrives, and no scan stopped early.
Ready == ~ early /\ (phase = "transactions" \/ (phase = "idle" /\ ~ reorg))

\* Block i of the chain as the stores reflect it: orders for contracts that were
\* left over spoil the blocks from the first one on that is about contracts.
Reflected(i) ==
  IF contracts = "matched" /\ \E j \in 1..i : chain[j] \in ContractBlock THEN Spoiled ELSE chain[i]

\* Whatever reorganisations and stops came before, also in the middle of a
\* block or of a scan: unless a scan stopped early, the transactions of a
\* block are processed on the state of its parent chain, every block of it
\* processed exactly once; orders for contracts that clear_all_state left over
\* from before a reorganisation spoil the blocks from the first contract on,
\* and nothing else does.
StateFollowsChain ==
  Ready => \A s \in Store :
    /\ Len(stores[s]) = Len(chain)
    /\ \A i \in 1..Len(chain) : stores[s][i] = Reflected(i)

\* A node that stopped has caught up with the chain some time later, unless it
\* is told to stop again or cannot read a block.
CatchesUp == (phase = "down") ~> (shutdown \/ early \/ (Ready /\ stores["state"] = chain))

\* Comments of mastercore_handler_block_begin: "clear state and reparse",
\* "remove stale stale state bits and reparse from the beginning": after a
\* reorganisation the orders for contracts are those of the chain, too.
ContractsFollowChain == Ready => contracts \notin {"left over", "matched"}

\* Comment of load_most_relevant_state: "walk backwards until we find a valid
\* and full set of persisted state files": a node that was saved at the tip
\* starts with that state.
SavedStateUsed ==
  [][(Restart /\ chain # <<>> /\ chain \in files) => stores'["state"] = chain]_vars
==============================================================================
