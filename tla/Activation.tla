------------------------------ MODULE Activation ------------------------------
(***************************************************************************)
(* Feature activation (activation.cpp, rules.cpp and the handlers of       *)
(* tx.cpp).  A transaction of an authorized sender announces the block as  *)
(* of which a feature is live; another one takes a live feature back at    *)
(* once.  A client that is too old stops when the feature goes live.       *)
(*                                                                         *)
(* A reorganisation that reaches Omni Core, and a restart, replay the      *)
(* chain from the start (module Node).  The transactions of the replay are *)
(* again any: the new chain may have others.                               *)
(***************************************************************************)
EXTENDS Naturals

CONSTANTS
  Feature,        \* identifiers this client knows
  Unknown,        \* identifiers it does not
  InitialBlock,   \* parameters of CMainConsensusParams
  Never,          \* 999999
  MIN_ACTIVATION_BLOCKS, MAX_ACTIVATION_BLOCKS,
  Version,        \* OMNICORE_VERSION
  Versions,       \* client versions transactions may demand
  MaxBlock        \* bound: the last block

ASSUME ActivationAssumption ==
  /\ Feature \cap Unknown = {}
  /\ InitialBlock \in [Feature -> Nat]
  /\ {Never, MIN_ACTIVATION_BLOCKS, MAX_ACTIVATION_BLOCKS, Version, MaxBlock} \subseteq Nat
  /\ Versions \subseteq Nat

\* The main network's minimum is 2048 blocks.
ASSUME NoticeAssumption == MIN_ACTIVATION_BLOCKS > 0 /\ MaxBlock > 0

VARIABLES
  block,       \* height of the block being processed
  params,      \* activation block of each known feature
  pending,     \* vecPendingActivations
  completed,   \* vecCompletedActivations
  stopping,    \* ShutdownRequested, by AbortNode or the user
  told         \* history: the announcement of a feature that is in force

vars == <<block, params, pending, completed, stopping, told>>

FeatureActivation == [feature : Feature \cup Unknown, block : Nat, version : Versions]

\* An announcement with the block of its transaction; none has block 0.
Announcement   == [at : Nat, block : Nat, version : Nat]
NoAnnouncement == [at |-> 0, block |-> 0, version |-> 0]

Init ==
  /\ block = 1
  /\ params = InitialBlock
  /\ pending = {} /\ completed = {}
  /\ stopping = FALSE
  /\ told = [f \in Feature \cup Unknown |-> NoAnnouncement]

IsFeatureActivated(f, b) == f \in Feature /\ b >= params[f]

Notice(b) ==
  /\ b >= block + MIN_ACTIVATION_BLOCKS
  /\ b <= block + MAX_ACTIVATION_BLOCKS

\* Mutant: an earlier activation of the feature stays pending.
PendingKept(f, b, v) == pending \cup {[feature |-> f, block |-> b, version |-> v]}

AddPendingActivation(f, b, v) ==
  {a \in pending : a.feature # f} \cup {[feature |-> f, block |-> b, version |-> v]}

\* logicMath_Activation with ActivateFeature.
ActivateFeature(f, b, v) ==
  /\ Notice(b)
  /\ ~ IsFeatureActivated(f, block)
  /\ params' = [g \in Feature |-> IF g = f THEN b ELSE params[g]]
  /\ pending' = AddPendingActivation(f, b, v)
  /\ told' = [told EXCEPT ![f] = [at |-> block, block |-> b, version |-> v]]
  /\ UNCHANGED <<block, completed, stopping>>

\* logicMath_Deactivation with DeactivateFeature; what becomes of open orders
\* is in module MetaDEx.
DeactivateFeature(f) ==
  /\ IsFeatureActivated(f, block)
  /\ params' = [params EXCEPT ![f] = Never]
  /\ told' = [told EXCEPT ![f] = NoAnnouncement]
  /\ UNCHANGED <<block, pending, completed, stopping>>

\* Mutant: an activation completes one block late.
LiveLater(b) == {a \in pending : a.block < b}

\* The pending activations that go live with block b.
Live(b) == {a \in pending : a.block <= b}

\* mastercore_handler_block_begin of block h: CheckLiveActivations.  It is the
\* next block, or a later one when a scan stopped early.
BlockBegin(h) ==
  /\ h > block
  /\ block' = h
  /\ stopping' = (stopping \/ \E a \in Live(h) : Version < a.version)
  /\ pending' = pending \ Live(h)
  /\ completed' = completed \cup Live(h)
  /\ UNCHANGED <<params, told>>

\* StartShutdown for another reason: the user stops the client.
StartShutdown ==
  /\ stopping' = TRUE
  /\ UNCHANGED <<block, params, pending, completed, told>>

\* Mutant: the lists of activations are not cleared.
reset_params ==
  /\ params' = InitialBlock
  /\ UNCHANGED <<pending, completed>>

\* Mutant: the parameters are not reset.
clear_activations ==
  /\ pending' = {} /\ completed' = {}
  /\ UNCHANGED params

\* clear_all_state: ResetConsensusParams and ClearActivations.
clear_all_state ==
  /\ params' = InitialBlock
  /\ pending' = {} /\ completed' = {}

\* The chain is processed again from the start.
Reparse ==
  /\ clear_all_state
  /\ block' = 1
  /\ told' = [f \in Feature \cup Unknown |-> NoAnnouncement]
  /\ UNCHANGED stopping

\* The process ends, and mastercore_init starts another one from nothing: no
\* saved state is used (module Node).
Restart ==
  /\ clear_all_state
  /\ block' = 1
  /\ stopping' = FALSE
  /\ told' = [f \in Feature \cup Unknown |-> NoAnnouncement]

Next ==
  \/ \E f \in Feature \cup Unknown, b \in 1..(MaxBlock + 1), v \in Versions : ActivateFeature(f, b, v)
  \/ \E f \in Feature : DeactivateFeature(f)
  \/ \E h \in 1..MaxBlock : BlockBegin(h)
  \/ StartShutdown
  \/ Reparse
  \/ Restart

Spec == Init /\ [][Next]_vars
-------------------------------------------------------------------------------
(***************************************************************************)
(* Properties.                                                             *)
(***************************************************************************)
\* What users are shown as pending is what will happen: at most one
\* activation of a feature is pending, it lies ahead, it is the announcement
\* in force, and it is the block the rules use.
PendingIsTrue ==
  \A a \in pending :
    /\ \A c \in pending : c.feature = a.feature => c = a
    /\ a.block > block
    /\ told[a.feature].block = a.block /\ told[a.feature].version = a.version
    /\ a.feature \in Feature => params[a.feature] = a.block

\* Release notes: "All changes of the consensus rules are enabled by
\* activation transactions", and the comment of ActivateFeature: none within
\* the notice period.  A live feature was live from the start or announced
\* in time, on this chain.
LiveIsAnnounced ==
  \A f \in Feature : IsFeatureActivated(f, block) =>
    \/ params[f] = InitialBlock[f] /\ params[f] # Never
    \/ /\ told[f] # NoAnnouncement
       /\ told[f].at + MIN_ACTIVATION_BLOCKS <= told[f].block
       /\ told[f].block <= block

\* A client that is too old for an announced feature has stopped by the time
\* the feature is live, whatever was announced before or replaced.
TooOldStops ==
  \A f \in Feature \cup Unknown :
    told[f] # NoAnnouncement /\ told[f].block <= block /\ Version < told[f].version => stopping

\* Warning of ActivateFeature for a feature that is not supported: "AS OF BLOCK
\* %d THIS CLIENT WILL BE OUT OF CONSENSUS AND WILL AUTOMATICALLY SHUTDOWN".
UnsupportedStops ==
  \A f \in Unknown : told[f] # NoAnnouncement /\ told[f].block <= block => stopping
===============================================================================
