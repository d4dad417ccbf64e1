------------------------ MODULE NodeActivationProofs -------------------------
(***************************************************************************)
(* What is proved of modules Activation and NodeActivation: first of the   *)
(* rules of feature activation, for all sets of features, notice periods,  *)
(* versions and numbers of blocks; then of a node that applies them, for all *)
(* chains, transactions, numbers of stops and of disconnected blocks.      *)
(***************************************************************************)
EXTENDS NodeActivation, TLAPS, SequenceTheorems

LOCAL INSTANCE WellFoundedInduction

(***************************************************************************)
(* Activation.                                                             *)
(***************************************************************************)
\* The types of all variables but the list of completed activations, which
\* no rule reads.
Types ==
  /\ block \in 1..MaxBlock
  /\ params \in [Feature -> Nat]
  /\ pending \subseteq FeatureActivation
  /\ stopping \in BOOLEAN
  /\ told \in [Feature \cup Unknown -> Announcement]

\* A parameter is an initial one, the one of a deactivated feature, or the
\* announced block; LiveIsAnnounced says so only of features that are live.
ParamsExplained ==
  \A f \in Feature :
    \/ params[f] = InitialBlock[f]
    \/ params[f] = Never
    \/ /\ told[f] # NoAnnouncement
       /\ told[f].block = params[f]
       /\ told[f].at + MIN_ACTIVATION_BLOCKS <= told[f].block

\* An announcement a client is too old for stops it or is still pending.
TooOldPends ==
  \A f \in Feature \cup Unknown :
    told[f] # NoAnnouncement /\ Version < told[f].version =>
      stopping \/ [feature |-> f, block |-> told[f].block, version |-> told[f].version] \in pending

IInv == Types /\ PendingIsTrue /\ ParamsExplained /\ TooOldPends

\* The initial values of all variables, with the client stopping or not.
LEMMA InitialHolds ==
  ASSUME block = 1, params = InitialBlock, pending = {}, stopping \in BOOLEAN,
         told = [f \in Feature \cup Unknown |-> NoAnnouncement]
  PROVE  IInv
<1>1. NoAnnouncement \in Announcement
  BY DEF NoAnnouncement, Announcement
<1>2. Types
  BY <1>1, ActivationAssumption, NoticeAssumption DEF Types
<1>3. PendingIsTrue
  BY DEF PendingIsTrue
<1>4. ParamsExplained
  BY DEF ParamsExplained
<1>5. TooOldPends
  BY Zenon DEF TooOldPends
<1> QED
  BY <1>2, <1>3, <1>4, <1>5 DEF IInv

LEMMA InitHolds == Init => IInv
  BY InitialHolds, Zenon DEF Init

\* A replay of the chain starts from the initial state.
LEMMA ClearedHolds ==
  ASSUME clear_all_state, block' = 1, stopping' \in BOOLEAN,
         told' = [f \in Feature \cup Unknown |-> NoAnnouncement]
  PROVE  IInv'
<1>1. NoAnnouncement \in Announcement
  BY DEF NoAnnouncement, Announcement
<1>2. Types'
  BY <1>1, ActivationAssumption, NoticeAssumption DEF Types, clear_all_state
<1>3. PendingIsTrue'
  BY DEF PendingIsTrue, clear_all_state
<1>4. ParamsExplained'
  BY DEF ParamsExplained, clear_all_state
<1>5. TooOldPends'
  BY Zenon DEF TooOldPends
<1> QED
  BY <1>2, <1>3, <1>4, <1>5 DEF IInv

\* An announcement replaces the pending one of its feature.
LEMMA ActivateHolds ==
  ASSUME IInv, NEW f \in Feature \cup Unknown, NEW b \in Nat, NEW v \in Versions,
         ActivateFeature(f, b, v)
  PROVE  IInv'
<1> DEFINE new == [feature |-> f, block |-> b, version |-> v]
           note == [at |-> block, block |-> b, version |-> v]
<1> USE ActivationAssumption, NoticeAssumption
<1>1. /\ Types /\ PendingIsTrue /\ ParamsExplained /\ TooOldPends
      /\ block \in Nat /\ block >= 1
  BY DEF IInv, Types
<1>2. /\ b >= block + MIN_ACTIVATION_BLOCKS
      /\ params' = [g \in Feature |-> IF g = f THEN b ELSE params[g]]
      /\ pending' = {a \in pending : a.feature # f} \cup {new}
      /\ told' = [told EXCEPT ![f] = note]
      /\ block' = block /\ stopping' = stopping
  BY DEF ActivateFeature, AddPendingActivation, Notice
<1>3. note \in Announcement /\ new \in FeatureActivation /\ b > block
  BY <1>1, <1>2 DEF Announcement, FeatureActivation
<1>4. note # NoAnnouncement
  BY <1>1 DEF NoAnnouncement
<1>5. told'[f] = note /\ \A g \in (Feature \cup Unknown) \ {f} : told'[g] = told[g]
  BY <1>1, <1>2 DEF Types
<1>6. \A g \in Feature : params'[g] = IF g = f THEN b ELSE params[g]
  BY <1>2
<1>7. Types'
  BY <1>1, <1>2, <1>3 DEF Types
<1>8. PendingIsTrue'
  <2> SUFFICES ASSUME NEW a \in pending'
               PROVE  /\ \A c \in pending' : c.feature = a.feature => c = a
                      /\ a.block > block
                      /\ told'[a.feature].block = a.block /\ told'[a.feature].version = a.version
                      /\ a.feature \in Feature => params'[a.feature] = a.block
    BY <1>2 DEF PendingIsTrue
  <2>1. CASE a = new
    BY <2>1, <1>2, <1>3, <1>5, <1>6
  <2>2. CASE a \in pending /\ a.feature # f
    <3>1. a.feature \in (Feature \cup Unknown) \ {f}
      BY <2>2, <1>1 DEF Types, FeatureActivation
    <3> QED
      BY <3>1, <2>2, <1>1, <1>2, <1>5, <1>6 DEF PendingIsTrue
  <2> QED
    BY <2>1, <2>2, <1>2
<1>9. ParamsExplained'
  <2> SUFFICES ASSUME NEW g \in Feature
               PROVE  \/ params'[g] = InitialBlock[g]
                      \/ params'[g] = Never
                      \/ /\ told'[g] # NoAnnouncement
                         /\ told'[g].block = params'[g]
                         /\ told'[g].at + MIN_ACTIVATION_BLOCKS <= told'[g].block
    BY DEF ParamsExplained
  <2>1. CASE g = f
    BY <2>1, <1>2, <1>4, <1>5, <1>6
  <2>2. CASE g # f
    BY <2>2, <1>1, <1>5, <1>6 DEF ParamsExplained
  <2> QED
    BY <2>1, <2>2
<1>10. TooOldPends'
  <2> SUFFICES ASSUME NEW g \in Feature \cup Unknown,
                      told'[g] # NoAnnouncement, Version < told'[g].version, ~ stopping
               PROVE  [feature |-> g, block |-> told'[g].block, version |-> told'[g].version] \in pending'
    BY <1>2 DEF TooOldPends
  <2>1. CASE g = f
    BY <2>1, <1>2, <1>5
  <2>2. CASE g # f
    BY <2>2, <1>1, <1>2, <1>5 DEF TooOldPends
  <2> QED
    BY <2>1, <2>2
<1> QED
  BY <1>7, <1>8, <1>9, <1>10 DEF IInv

\* A feature that is live is not pending, so nothing pending is forgotten.
LEMMA DeactivateHolds ==
  ASSUME IInv, NEW f \in Feature, DeactivateFeature(f)
  PROVE  IInv'
<1> USE ActivationAssumption, NoticeAssumption
<1>1. /\ Types /\ PendingIsTrue /\ ParamsExplained /\ TooOldPends
      /\ block \in Nat
  BY DEF IInv, Types
<1>2. /\ block >= params[f]
      /\ params' = [params EXCEPT ![f] = Never]
      /\ told' = [told EXCEPT ![f] = NoAnnouncement]
      /\ block' = block /\ pending' = pending /\ stopping' = stopping
  BY DEF DeactivateFeature, IsFeatureActivated
<1>3. NoAnnouncement \in Announcement
  BY DEF NoAnnouncement, Announcement
<1>4. /\ told'[f] = NoAnnouncement
      /\ \A g \in (Feature \cup Unknown) \ {f} : told'[g] = told[g]
      /\ params'[f] = Never
      /\ \A g \in Feature \ {f} : params'[g] = params[g]
  BY <1>1, <1>2 DEF Types
<1>5. Types'
  BY <1>1, <1>2, <1>3 DEF Types
<1>6. \A a \in pending : a.feature \in (Feature \cup Unknown) \ {f}
  <2> SUFFICES ASSUME NEW a \in pending
               PROVE  a.feature \in (Feature \cup Unknown) \ {f}
    OBVIOUS
  <2>1. a.feature \in Feature \cup Unknown /\ a.block \in Nat /\ a.block > block
    BY <1>1 DEF Types, FeatureActivation, PendingIsTrue
  <2>2. a.feature # f
    BY <2>1, <1>1, <1>2 DEF PendingIsTrue
  <2> QED
    BY <2>1, <2>2
<1>7. PendingIsTrue'
  <2> SUFFICES ASSUME NEW a \in pending
               PROVE  /\ \A c \in pending : c.feature = a.feature => c = a
                      /\ a.block > block
                      /\ told'[a.feature].block = a.block /\ told'[a.feature].version = a.version
                      /\ a.feature \in Feature => params'[a.feature] = a.block
    BY <1>2 DEF PendingIsTrue
  <2> QED
    BY <1>1, <1>4, <1>6 DEF PendingIsTrue
<1>8. ParamsExplained'
  BY <1>1, <1>4, Zenon DEF ParamsExplained
<1>9. TooOldPends'
  <2> SUFFICES ASSUME NEW g \in Feature \cup Unknown,
                      told'[g] # NoAnnouncement, Version < told'[g].version, ~ stopping
               PROVE  [feature |-> g, block |-> told'[g].block, version |-> told'[g].version] \in pending
    BY <1>2 DEF TooOldPends
  <2> QED
    BY <1>1, <1>4 DEF TooOldPends
<1> QED
  BY <1>5, <1>7, <1>8, <1>9 DEF IInv

\* What goes live leaves pending, and stops a client that is too old for it.
LEMMA BlockBeginHolds ==
  ASSUME IInv, NEW h \in 1..MaxBlock, BlockBegin(h)
  PROVE  IInv'
<1> USE ActivationAssumption, NoticeAssumption
<1>1. /\ Types /\ PendingIsTrue /\ ParamsExplained /\ TooOldPends
      /\ block \in 1..MaxBlock
  BY DEF IInv, Types
<1>2. /\ block' > block /\ block' \in 1..MaxBlock
      /\ pending' = {a \in pending : ~ (a.block <= block')}
      /\ params' = params /\ told' = told
      /\ stopping \/ (\E a \in pending : a.block <= block' /\ Version < a.version) => stopping'
      /\ stopping' \in BOOLEAN
  <2>1. block' > block /\ block' \in 1..MaxBlock
    BY <1>1 DEF BlockBegin
  <2>2. pending' = {a \in pending : ~ (a.block <= block')} /\ params' = params /\ told' = told
    BY Zenon DEF BlockBegin, Live
  <2>3. stopping' = (stopping \/ \E a \in Live(block') : Version < a.version)
    BY Zenon DEF BlockBegin
  <2>4. stopping \/ (\E a \in pending : a.block <= block' /\ Version < a.version) => stopping'
    BY <2>3, Zenon DEF Live
  <2>5. stopping' \in BOOLEAN
    BY <2>3, Zenon
  <2> QED
    BY <2>1, <2>2, <2>4, <2>5
<1>3. Types'
  BY <1>1, <1>2 DEF Types
<1>4. PendingIsTrue'
  <2> SUFFICES ASSUME NEW a \in pending, ~ (a.block <= block')
               PROVE  /\ \A c \in pending' : c.feature = a.feature => c = a
                      /\ a.block > block'
                      /\ told[a.feature].block = a.block /\ told[a.feature].version = a.version
                      /\ a.feature \in Feature => params[a.feature] = a.block
    BY <1>2 DEF PendingIsTrue
  <2>1. a.block \in Nat
    BY <1>1 DEF Types, FeatureActivation
  <2> QED
    BY <2>1, <1>1, <1>2 DEF PendingIsTrue
<1>5. ParamsExplained'
  BY <1>1, <1>2, Zenon DEF ParamsExplained
<1>6. TooOldPends'
  <2> SUFFICES ASSUME NEW g \in Feature \cup Unknown,
                      told[g] # NoAnnouncement, Version < told[g].version, ~ stopping'
               PROVE  [feature |-> g, block |-> told[g].block, version |-> told[g].version] \in pending'
    BY <1>2, Zenon DEF TooOldPends
  <2> DEFINE a == [feature |-> g, block |-> told[g].block, version |-> told[g].version]
  <2>1. a \in pending
    BY <1>1, <1>2 DEF TooOldPends
  <2>2. a.version = told[g].version
    OBVIOUS
  <2>3. ~ (a.block <= block')
    BY <2>1, <2>2, <1>2
  <2> QED
    BY <2>1, <2>3, <1>2
<1> QED
  BY <1>3, <1>4, <1>5, <1>6 DEF IInv

\* Every step preserves IInv.
LEMMA StepHolds ==
  ASSUME IInv, [Next]_vars
  PROVE  IInv'
<1>1. ASSUME NEW f \in Feature \cup Unknown, NEW b \in 1..(MaxBlock + 1), NEW v \in Versions,
             ActivateFeature(f, b, v)
      PROVE  IInv'
  BY <1>1, ActivateHolds, ActivationAssumption
<1>2. ASSUME NEW f \in Feature, DeactivateFeature(f)
      PROVE  IInv'
  BY <1>2, DeactivateHolds
<1>3. ASSUME NEW h \in 1..MaxBlock, BlockBegin(h)
      PROVE  IInv'
  BY <1>3, BlockBeginHolds
<1>4. CASE Reparse
  BY <1>4, ClearedHolds DEF Reparse, IInv, Types
<1>5. CASE Restart
  <2>1. FALSE \in BOOLEAN
    OBVIOUS
  <2> QED
    BY <2>1, <1>5, ClearedHolds, Zenon DEF Restart
<1>6. CASE StartShutdown
  BY <1>6 DEF StartShutdown, IInv, Types, PendingIsTrue, ParamsExplained, TooOldPends
<1>7. CASE UNCHANGED vars
  BY <1>7 DEF IInv, Types, PendingIsTrue, ParamsExplained, TooOldPends, vars
<1> QED
  BY <1>1, <1>2, <1>3, <1>4, <1>5, <1>6, <1>7 DEF Next

\* IInv is an invariant.
LEMMA Inductive == Spec => []IInv
  BY InitHolds, StepHolds, PTL DEF Spec

\* Pending activations are the announcements in force, on every chain and
\* whatever was announced, replaced, deactivated or replayed before.
THEOREM PendingStaysTrue == Spec => []PendingIsTrue
<1>1. IInv => PendingIsTrue
  BY DEF IInv
<1> QED
  BY <1>1, Inductive, PTL

\* Before block Never no feature is live that was neither live from the start
\* nor announced with the notice ActivateFeature demands.
THEOREM FeaturesAreAnnounced ==
  ASSUME MaxBlock < Never
  PROVE  Spec => []LiveIsAnnounced
<1>1. IInv => LiveIsAnnounced
  <2> SUFFICES ASSUME IInv, NEW f \in Feature, IsFeatureActivated(f, block)
               PROVE  \/ params[f] = InitialBlock[f] /\ params[f] # Never
                      \/ /\ told[f] # NoAnnouncement
                         /\ told[f].at + MIN_ACTIVATION_BLOCKS <= told[f].block
                         /\ told[f].block <= block
    BY DEF LiveIsAnnounced
  <2>1. params[f] # Never /\ params[f] <= block
    BY ActivationAssumption DEF IInv, Types, IsFeatureActivated
  <2> QED
    BY <2>1 DEF IInv, ParamsExplained
<1> QED
  BY <1>1, Inductive, PTL

\* A client too old for an announced feature has stopped when the feature is
\* live (CheckLiveActivations).
THEOREM OldClientsStop == Spec => []TooOldStops
<1>1. IInv => TooOldStops
  <2> SUFFICES ASSUME IInv, NEW f \in Feature \cup Unknown,
                      told[f] # NoAnnouncement, told[f].block <= block, Version < told[f].version,
                      ~ stopping
               PROVE  FALSE
    BY Zenon DEF TooOldStops
  <2> DEFINE a == [feature |-> f, block |-> told[f].block, version |-> told[f].version]
  <2>1. a \in pending
    BY DEF IInv, TooOldPends
  <2>2. a.block = told[f].block /\ a.block \in Nat /\ block \in Nat
    BY <2>1, ActivationAssumption DEF IInv, Types, FeatureActivation
  <2>3. a.block > block
    BY <2>1 DEF IInv, PendingIsTrue
  <2> QED
    BY <2>2, <2>3
<1> QED
  BY <1>1, Inductive, PTL
------------------------------------------------------------------------------
(***************************************************************************)
(* The node.                                                               *)
(***************************************************************************)
Phases == {"idle", "scan", "replay", "transactions", "end", "down"}

NodeTypes ==
  /\ chain \in Seq(Block) /\ Len(chain) <= MaxHeight
  /\ stores \in [N!Store -> Seq(Block \cup {N!Spoiled})]
  /\ contracts \in {"none", "processed", "left over", "matched"}
  /\ phase \in Phases
  /\ connecting \in Block \cup {N!NoBlock}
  /\ reorg \in BOOLEAN /\ early \in BOOLEAN

\* A block that is being connected still fits.
RoomLeft ==
  /\ phase \in {"scan", "replay"} /\ connecting # N!NoBlock => Len(chain) < MaxHeight
  /\ phase = "transactions" => Len(chain) < MaxHeight /\ connecting \in Block
  /\ phase = "down" => connecting = N!NoBlock

\* The stores S reflect the first k blocks of c, with the orders t.
HasContract(c, k) == \E j \in 1..k : c[j] \in ContractBlock

Entry(t, c, i) == IF t = "matched" /\ HasContract(c, i) THEN N!Spoiled ELSE c[i]

Reflects(S, t, c, k) ==
  /\ \A s \in N!Store : Len(S[s]) = k /\ \A i \in 1..k : S[s][i] = Entry(t, c, i)
  /\ t = "matched" => HasContract(c, k)
  /\ t = "left over" => ~ HasContract(c, k)

\* A scan has processed the first blocks of the chain, and has begun the next
\* one, or not yet.
Scanned == Len(stores["state"])

ScanFollows ==
  /\ phase \in {"scan", "replay"} => Scanned <= Len(chain) /\ Reflects(stores, contracts, chain, Scanned)
  /\ phase = "scan" => block = Scanned + 1
  /\ phase = "replay" => block = Scanned + 2 /\ Scanned < Len(chain)

\* Nothing is to be scanned again.
Settled == phase \in {"transactions", "end"} \/ (phase = "idle" /\ ~ reorg)

UpToDate == Settled /\ ~ early => Reflects(stores, contracts, chain, Len(chain))

\* A block is connected at its own height.
AtHeight == phase = "transactions" => block = Len(chain) + 2

NodeShape == NodeTypes /\ RoomLeft /\ ScanFollows /\ UpToDate /\ AtHeight

\* R is the activations after each number of blocks of chain c.
IsReplay(R, c) ==
  R = [n \in 0..Len(c) |-> IF n = 0 THEN NoActivations
                           ELSE Announced(Begun(R[n - 1], n + 1), Transaction[c[n]], n + 1)]

\* The activations are those of the blocks that are processed.
Follows(R) ==
  /\ phase = "scan" => Activations = R[Scanned]
  /\ phase = "replay" => Activations = Begun(R[Scanned], Scanned + 2)
  /\ phase = "transactions" /\ ~ early => Activations = Begun(R[Len(chain)], Len(chain) + 2)
  /\ phase = "end" \/ (phase = "idle" /\ ~ reorg) => (~ early => Activations = R[Len(chain)])

FollowsReplay == \E R : IsReplay(R, chain) /\ Follows(R)

NodeInv == IInv /\ NodeShape /\ FollowsReplay
-------------------------------------------------------------------------------
(***************************************************************************)
(* The stores.                                                             *)
(***************************************************************************)
LEMMA StoreFacts == "state" \in N!Store
  BY DEF N!Store, N!MemoryStore, N!Database

LEMMA NoIndex == \A i \in 1..0 : FALSE
  OBVIOUS

\* clear_all_state leaves stores that reflect no block.
LEMMA ClearFacts ==
  ASSUME contracts \in {"none", "processed", "left over", "matched"}
  PROVE  /\ N!clear_all_state \in [N!Store -> Seq(Block \cup {N!Spoiled})]
         /\ Len(N!clear_all_state["state"]) = 0
         /\ N!Uncleared \in {"none", "left over"}
         /\ \A c : Reflects(N!clear_all_state, N!Uncleared, c, 0)
<1>1. <<>> \in Seq(Block \cup {N!Spoiled}) /\ Len(<<>>) = 0
  BY EmptySeq
<1>2. /\ N!clear_all_state \in [N!Store -> Seq(Block \cup {N!Spoiled})]
      /\ \A s \in N!Store : N!clear_all_state[s] = <<>>
  BY <1>1, Zenon DEF N!clear_all_state
<1>3. N!Uncleared \in {"none", "left over"}
  BY DEF N!Uncleared
<1>4. \A i \in 1..0 : FALSE
  BY NoIndex
<1>5. \A c : ~ HasContract(c, 0)
  BY <1>4, Zenon DEF HasContract
<1> QED
  BY <1>1, <1>2, <1>3, <1>4, <1>5, StoreFacts, Zenon DEF Reflects

LEMMA LastIndex ==
  ASSUME NEW k \in Nat
  PROVE  /\ k + 1 \in 1..(k + 1)
         /\ \A i \in 1..(k + 1) : i \in 1..k \/ i = k + 1
         /\ \A i \in 1..k : i \in 1..(k + 1) /\ 1..i \subseteq 1..k
  OBVIOUS

LEMMA OneMore ==
  ASSUME NEW T, NEW q \in Seq(T), NEW x \in T
  PROVE  /\ Append(q, x) \in Seq(T) /\ Len(Append(q, x)) = Len(q) + 1
         /\ \A i \in 1..Len(q) : Append(q, x)[i] = q[i]
         /\ Append(q, x)[Len(q) + 1] = x
  BY AppendProperties

\* Blocks about contracts in a chain c that d continues.
LEMMA ContractFacts ==
  ASSUME NEW c, NEW d, NEW k \in Nat, \A i \in 1..k : d[i] = c[i]
  PROVE  /\ HasContract(d, k + 1) <=> HasContract(c, k) \/ d[k + 1] \in ContractBlock
         /\ \A i \in 1..k : HasContract(d, i) <=> HasContract(c, i)
         /\ \A i \in 1..k : HasContract(c, i) => HasContract(c, k)
<1>1. HasContract(d, k + 1) <=> HasContract(c, k) \/ d[k + 1] \in ContractBlock
  BY LastIndex, Zenon DEF HasContract
<1>2. ASSUME NEW i \in 1..k
      PROVE  /\ HasContract(d, i) <=> HasContract(c, i)
             /\ HasContract(c, i) => HasContract(c, k)
  <2>1. 1..i \subseteq 1..k
    BY LastIndex
  <2> QED
    BY <2>1, Zenon DEF HasContract
<1> QED
  BY <1>1, <1>2

LEMMA ProcessedTypes ==
  ASSUME stores \in [N!Store -> Seq(Block \cup {N!Spoiled})],
         contracts \in {"none", "processed", "left over", "matched"},
         NEW b \in Block
  PROVE  /\ N!Processed(b) \in [N!Store -> Seq(Block \cup {N!Spoiled})]
         /\ N!Traded(b) \in {"none", "processed", "left over", "matched"}
<1>1. N!Traded(b) \in {"none", "processed", "left over", "matched"}
  BY DEF N!Traded
<1>2. ASSUME NEW s \in N!Store, NEW e \in Block \cup {N!Spoiled}
      PROVE  Append(stores[s], e) \in Seq(Block \cup {N!Spoiled})
  BY AppendProperties
<1> QED
  BY <1>1, <1>2 DEF N!Processed

\* One block more: what was left over spoils it and all that follow.
LEMMA ReflectsGrows ==
  ASSUME stores \in [N!Store -> Seq(Block \cup {N!Spoiled})],
         contracts \in {"none", "processed", "left over", "matched"},
         NEW k \in Nat, NEW c, Reflects(stores, contracts, c, k),
         NEW d, \A i \in 1..k : d[i] = c[i], d[k + 1] \in Block
  PROVE  /\ Len(N!Processed(d[k + 1])["state"]) = k + 1
         /\ Reflects(N!Processed(d[k + 1]), N!Traded(d[k + 1]), d, k + 1)
<1> DEFINE b == d[k + 1]
           t == N!Traded(b)
           e == IF t = "matched" THEN N!Spoiled ELSE b
           S == N!Processed(b)
<1>1. PICK T : T = Block \cup {N!Spoiled}
  OBVIOUS
<1>2. e \in Block \cup {N!Spoiled}
  OBVIOUS
<1>3. S = [s \in N!Store |-> Append(stores[s], e)]
  BY Zenon DEF N!Processed
<1>4. /\ HasContract(d, k + 1) <=> HasContract(c, k) \/ b \in ContractBlock
      /\ \A i \in 1..k : HasContract(d, i) <=> HasContract(c, i)
      /\ \A i \in 1..k : HasContract(c, i) => HasContract(c, k)
  BY ContractFacts, Zenon
<1>5. /\ t = "matched" => HasContract(d, k + 1)
      /\ t = "left over" => ~ HasContract(d, k + 1)
      /\ t # "matched" => contracts # "matched"
      /\ t = "matched" /\ contracts # "matched" => ~ HasContract(c, k)
  BY <1>4 DEF N!Traded, Reflects
<1> HIDE DEF b, t, e
<1>6. ASSUME NEW s \in N!Store
      PROVE  /\ Len(S[s]) = k + 1
             /\ \A i \in 1..(k + 1) : S[s][i] = Entry(t, d, i)
  <2>1. stores[s] \in Seq(Block \cup {N!Spoiled}) /\ Len(stores[s]) = k /\ \A i \in 1..k : stores[s][i] = Entry(contracts, c, i)
    BY DEF Reflects
  <2>2. S[s] = Append(stores[s], e)
    BY <1>3
  <2> HIDE DEF S
  <2>3. /\ Len(Append(stores[s], e)) = k + 1
        /\ \A i \in 1..k : Append(stores[s], e)[i] = stores[s][i]
        /\ Append(stores[s], e)[k + 1] = e
    <3>1. stores[s] \in Seq(T) /\ e \in T /\ Len(stores[s]) = k
      BY <2>1, <1>2, <1>1
    <3>2. PICK q \in Seq(T) : q = stores[s]
      BY <3>1
    <3>3. PICK x \in T : x = e
      BY <3>1
    <3>4. /\ Append(q, x) \in Seq(T) /\ Len(Append(q, x)) = Len(q) + 1
          /\ \A i \in 1..Len(q) : Append(q, x)[i] = q[i]
          /\ Append(q, x)[Len(q) + 1] = x
      BY OneMore
    <3> QED
      BY <3>1, <3>2, <3>3, <3>4, <1>1
  <2>4. ASSUME NEW i \in 1..k
        PROVE  Entry(contracts, c, i) = Entry(t, d, i)
    BY <1>4, <1>5 DEF Entry
  <2>5. e = Entry(t, d, k + 1)
    BY <1>5 DEF Entry, e, b
  <2> QED
    BY <2>1, <2>2, <2>3, <2>4, <2>5, LastIndex, Zenon
<1>7. Reflects(S, t, d, k + 1)
  BY <1>5, <1>6, Zenon DEF Reflects
<1> QED
  BY <1>6, <1>7, StoreFacts, Zenon DEF b, t

\* What stops or disconnects leave of a chain.
LEMMA PrefixFacts ==
  ASSUME NEW S, NEW c \in Seq(S), NEW n \in 0..Len(c)
  PROVE  /\ SubSeq(c, 1, n) \in Seq(S) /\ Len(SubSeq(c, 1, n)) = n
         /\ \A i \in 1..n : SubSeq(c, 1, n)[i] = c[i]
<1>1. Len(c) \in Nat /\ \A i \in 1..n : c[i] \in S
  BY ElementOfSeq, LenProperties
<1> QED
  BY <1>1, SubSeqProperties
-------------------------------------------------------------------------------
(***************************************************************************)
(* The activations of a chain.                                             *)
(***************************************************************************)
LEMMA LeastElement ==
  ASSUME NEW T, T \subseteq Nat, T # {}
  PROVE  \E m \in T : \A k \in T : m <= k
<1> DEFINE R == {ss \in Nat \X Nat : ss[1] < ss[2]}
<1>1. IsWellFoundedOn(R, Nat)
  BY NatLessThanWellFounded, Zenon DEF OpToRel
<1> HIDE DEF R
<1>2. \A x, y \in Nat : <<y, x>> \in R <=> y < x
  BY DEF R
<1>3. PICK m \in T : \A y \in T : ~ (<<y, m>> \in R)
  BY <1>1, WFMin, Zenon
<1>4. \A k \in T : m <= k
  <2> TAKE k \in T
  <2>1. k \in Nat /\ m \in Nat
    OBVIOUS
  <2>2. ~ (k < m)
    BY <1>2, <1>3, <2>1, Zenon
  <2> QED BY <2>1, <2>2
<1> QED BY <1>4

\* One step of a replay.
Step(A, c, n) == Announced(Begun(A, n + 1), Transaction[c[n]], n + 1)

LEMMA ReplayFacts ==
  ASSUME NEW c, Len(c) \in Nat, NEW R
  PROVE  IsReplay(R, c) <=> /\ R = [n \in 0..Len(c) |-> R[n]]
                            /\ R[0] = NoActivations
                            /\ \A n \in 1..Len(c) : R[n] = Step(R[n - 1], c, n)
<1>1. /\ \A n \in 0..Len(c) : n = 0 \/ n \in 1..Len(c)
      /\ \A n \in 1..Len(c) : n # 0 /\ n \in 0..Len(c)
      /\ 0 \in 0..Len(c)
  OBVIOUS
<1>2. ASSUME IsReplay(R, c)
      PROVE  /\ R = [n \in 0..Len(c) |-> R[n]]
             /\ R[0] = NoActivations
             /\ \A n \in 1..Len(c) : R[n] = Step(R[n - 1], c, n)
  <2>1. \A n \in 0..Len(c) : R[n] = IF n = 0 THEN NoActivations ELSE Step(R[n - 1], c, n)
    BY <1>2, Zenon DEF IsReplay, Step
  <2>2. R = [n \in 0..Len(c) |-> R[n]]
    BY <1>2, Zenon DEF IsReplay
  <2> QED
    BY <2>1, <2>2, <1>1, Zenon
<1>3. ASSUME R = [n \in 0..Len(c) |-> R[n]], R[0] = NoActivations,
             \A n \in 1..Len(c) : R[n] = Step(R[n - 1], c, n)
      PROVE  IsReplay(R, c)
  <2>1. \A n \in 0..Len(c) : R[n] = IF n = 0 THEN NoActivations ELSE Step(R[n - 1], c, n)
    BY <1>1, <1>3, Zenon
  <2> QED
    BY <2>1, <1>3, Zenon DEF IsReplay, Step
<1> QED
  BY <1>2, <1>3, Zenon

LEMMA ReplaySteps ==
  ASSUME NEW c, Len(c) \in Nat, NEW X, IsReplay(X, c)
  PROVE  X[0] = NoActivations /\ \A n \in 1..Len(c) : X[n] = Step(X[n - 1], c, n)
  BY ReplayFacts, Zenon

\* The empty chain.
LEMMA ReplayEmpty ==
  ASSUME NEW c, Len(c) = 0
  PROVE  \E R : IsReplay(R, c)
<1> DEFINE R == [n \in 0..Len(c) |-> NoActivations]
<1>1. R = [n \in 0..Len(c) |-> R[n]] /\ R[0] = NoActivations
  OBVIOUS
<1>2. \A n \in 1..Len(c) : FALSE
  BY NoIndex
<1>3. Len(c) \in Nat
  OBVIOUS
<1> HIDE DEF R
<1> QED
  BY <1>1, <1>2, <1>3, ReplayFacts, Zenon

\* A chain with the blocks of c, and one more.
LEMMA ReplayGrows ==
  ASSUME NEW c, Len(c) \in Nat, NEW R, IsReplay(R, c),
         NEW d, Len(d) = Len(c) + 1, \A i \in 1..Len(c) : d[i] = c[i]
  PROVE  \E Q : /\ IsReplay(Q, d) /\ Q[Len(d)] = Step(R[Len(c)], d, Len(d))
                /\ \A n \in 0..Len(c) : Q[n] = R[n]
<1> DEFINE k == Len(c)
           Q == [n \in 0..(k + 1) |-> IF n = k + 1 THEN Step(R[k], d, k + 1) ELSE R[n]]
<1>1. /\ \A n \in 0..k : n \in 0..(k + 1) /\ n # k + 1
      /\ \A n \in 1..k : n - 1 \in 0..k /\ n \in 0..k
      /\ \A n \in 1..(k + 1) : n \in 1..k \/ n = k + 1
      /\ k + 1 \in 0..(k + 1) /\ 0 \in 0..k /\ (k + 1) - 1 = k /\ k \in 0..k
  OBVIOUS
<1>2. /\ \A n \in 0..k : Q[n] = R[n]
      /\ Q[k + 1] = Step(R[k], d, k + 1)
      /\ Q = [n \in 0..(k + 1) |-> Q[n]]
  BY <1>1, Zenon
<1>3. R[0] = NoActivations /\ \A n \in 1..k : R[n] = Step(R[n - 1], c, n)
  BY ReplayFacts, Zenon
<1> HIDE DEF Q
<1>4. Q[0] = NoActivations
  BY <1>1, <1>2, <1>3, Zenon
<1>5. ASSUME NEW n \in 1..k
      PROVE  Q[n] = Step(Q[n - 1], d, n)
  <2>1. Q[n] = R[n] /\ Q[n - 1] = R[n - 1] /\ d[n] = c[n] /\ R[n] = Step(R[n - 1], c, n)
    BY <1>1, <1>2, <1>3, Zenon
  <2> QED
    BY <2>1, Zenon DEF Step
<1>6. Q[k + 1] = Step(Q[(k + 1) - 1], d, k + 1)
  BY <1>1, <1>2, Zenon
<1>7. \A n \in 1..(k + 1) : Q[n] = Step(Q[n - 1], d, n)
  BY <1>1, <1>5, <1>6, Zenon
<1>8. IsReplay(Q, d)
  <2>1. Len(d) = k + 1 /\ Len(d) \in Nat
    OBVIOUS
  <2> HIDE DEF k
  <2> QED
    BY <2>1, <1>2, <1>4, <1>7, ReplayFacts, Zenon
<1> QED
  BY <1>2, <1>8, Zenon

\* A chain with the first blocks of c.
LEMMA ReplayShrinks ==
  ASSUME NEW c, Len(c) \in Nat, NEW R, IsReplay(R, c),
         NEW d, Len(d) \in 0..Len(c), \A i \in 1..Len(d) : d[i] = c[i]
  PROVE  \E Q : IsReplay(Q, d) /\ \A n \in 0..Len(d) : Q[n] = R[n]
<1> DEFINE k == Len(d)
           Q == [n \in 0..k |-> R[n]]
<1>1. /\ \A n \in 1..k : n - 1 \in 0..k /\ n \in 0..k /\ n \in 1..Len(c)
      /\ 0 \in 0..k /\ k \in Nat
  OBVIOUS
<1>2. (\A n \in 0..k : Q[n] = R[n]) /\ Q = [n \in 0..k |-> Q[n]]
  BY Zenon
<1>3. R[0] = NoActivations /\ \A n \in 1..Len(c) : R[n] = Step(R[n - 1], c, n)
  BY ReplayFacts, Zenon
<1> HIDE DEF Q
<1>4. ASSUME NEW n \in 1..k
      PROVE  Q[n] = Step(Q[n - 1], d, n)
  <2>1. Q[n] = R[n] /\ Q[n - 1] = R[n - 1] /\ d[n] = c[n] /\ R[n] = Step(R[n - 1], c, n)
    BY <1>1, <1>2, <1>3, Zenon
  <2> QED
    BY <2>1, Zenon DEF Step
<1>5. IsReplay(Q, d)
  BY <1>1, <1>2, <1>3, <1>4, ReplayFacts, Zenon
<1> QED
  BY <1>2, <1>5, Zenon

\* There is only one.
LEMMA ReplayUnique ==
  ASSUME NEW c, Len(c) \in Nat, NEW R, NEW Q, IsReplay(R, c), IsReplay(Q, c)
  PROVE  R[Len(c)] = Q[Len(c)]
<1> DEFINE Bad == {n \in 0..Len(c) : R[n] # Q[n]}
<1> SUFFICES ASSUME Bad # {} PROVE FALSE
  <2>1. Len(c) \in 0..Len(c)
    OBVIOUS
  <2> QED
    BY <2>1, Zenon
<1>1. Bad \subseteq Nat
  OBVIOUS
<1>2. PICK m \in Bad : \A n \in Bad : m <= n
  BY <1>1, LeastElement, Zenon
<1>3. /\ R[0] = NoActivations /\ \A n \in 1..Len(c) : R[n] = Step(R[n - 1], c, n)
      /\ Q[0] = NoActivations /\ \A n \in 1..Len(c) : Q[n] = Step(Q[n - 1], c, n)
  BY ReplaySteps, Zenon
<1>4. m # 0
  BY <1>3, Zenon
<1>5. m \in 1..Len(c) /\ m - 1 \in 0..Len(c) /\ ~ (m <= m - 1)
  BY <1>4
<1>6. R[m - 1] = Q[m - 1]
  BY <1>2, <1>5, Zenon
<1> QED
  BY <1>3, <1>5, <1>6, Zenon

\* It is what ActivationsFollowChain compares with.
LEMMA ReplayIs ==
  ASSUME NEW c, Len(c) \in Nat, NEW Q, IsReplay(Q, c)
  PROVE  Replay(c) = Q[Len(c)]
<1> DEFINE R[n \in 0..Len(c)] == IF n = 0 THEN NoActivations
                                 ELSE Announced(Begun(R[n - 1], n + 1), Transaction[c[n]], n + 1)
<1>1. IsReplay(R, c)
  BY Zenon DEF IsReplay
<1>2. Replay(c) = R[Len(c)]
  BY DEF Replay
<1> HIDE DEF R
<1> QED
  BY <1>1, <1>2, ReplayUnique, Zenon

\* CheckLiveActivations.
LEMMA BeginBegins ==
  ASSUME Types, NEW h \in Nat, BlockBegin(h)
  PROVE  Activations' = Begun(Activations, h)
<1>1. \A a \in pending : a.block \in Nat
  BY DEF Types, FeatureActivation
<1>2. pending \ Live(h) = {a \in pending : a.block > h}
  BY <1>1 DEF Live
<1>3. Activations.params = params /\ Activations.pending = pending /\ Activations.completed = completed
  BY DEF Activations
<1>4. Activations' = [params |-> params, pending |-> pending \ Live(h), completed |-> completed \cup Live(h)]
  BY Zenon DEF BlockBegin, Activations
<1> QED
  BY <1>2, <1>3, <1>4, Zenon DEF Begun, Live

\* ActivateFeature and DeactivateFeature, or neither.
LEMMA ProcessAnnounces ==
  ASSUME Types, NEW b \in Block, Process(b)
  PROVE  Activations' = Announced(Activations, Transaction[b], block)
<1> DEFINE t == Transaction[b]
           live == t.feature \in Feature /\ block >= params[t.feature]
<1>1. t.block \in Nat /\ block \in Nat
  BY NodeActivationAssumption, ActivationAssumption DEF Types
<1>2. Notice(t.block) <=> t.block - block \in MIN_ACTIVATION_BLOCKS..MAX_ACTIVATION_BLOCKS
  BY <1>1, ActivationAssumption DEF Notice
<1>3. IsFeatureActivated(t.feature, block) <=> live
  BY Zenon DEF IsFeatureActivated
<1>4. params = [f \in Feature |-> params[f]] /\ "activate" # "deactivate"
  BY DEF Types
<1> HIDE DEF t
<1> DEFINE soon == t.block - block \in MIN_ACTIVATION_BLOCKS..MAX_ACTIVATION_BLOCKS
           announced == [params |-> [f \in Feature |-> IF f = t.feature THEN t.block ELSE params[f]],
                         pending |-> {a \in pending : a.feature # t.feature}
                           \cup {[feature |-> t.feature, block |-> t.block, version |-> t.version]},
                         completed |-> completed]
           withdrawn == [params |-> [f \in Feature |-> IF f = t.feature THEN Never ELSE params[f]],
                         pending |-> pending, completed |-> completed]
           A == Announced(Activations, t, block)
<1>5. /\ t.type = "activate" /\ ~ live /\ soon => A = announced
      /\ t.type = "deactivate" /\ live => A = withdrawn
      /\ ~ (t.type = "activate" /\ ~ live /\ soon) /\ ~ (t.type = "deactivate" /\ live) => A = Activations
  <2>1. Activations.params = params /\ Activations.pending = pending /\ Activations.completed = completed
    BY DEF Activations
  <2> QED
    BY <2>1, <1>4, Zenon DEF Announced
<1> HIDE DEF live, soon, A
<1>6. CASE t.type = "activate" /\ ActivateFeature(t.feature, t.block, t.version)
  <2>1. soon /\ ~ live
    BY <1>2, <1>3, <1>6, Zenon DEF ActivateFeature, soon
  <2>2. Activations' = announced
    BY <1>6, Zenon DEF ActivateFeature, AddPendingActivation, Activations
  <2> QED
    BY <2>1, <2>2, <1>5, <1>6, Zenon DEF A, t
<1>7. CASE t.type = "deactivate" /\ t.feature \in Feature /\ DeactivateFeature(t.feature)
  <2>1. [params EXCEPT ![t.feature] = Never] = [f \in Feature |-> IF f = t.feature THEN Never ELSE params[f]]
    BY <1>4, <1>7 DEF Types
  <2>2. live /\ t.type # "activate"
    BY <1>3, <1>4, <1>7, Zenon DEF DeactivateFeature
  <2>3. Activations' = withdrawn
    BY <2>1, <1>7, Zenon DEF DeactivateFeature, Activations
  <2> QED
    BY <2>2, <2>3, <1>5, <1>7, Zenon DEF A, t
<1>8. CASE ~ Accepted(t) /\ UNCHANGED vars
  <2>1. Activations' = Activations
    BY <1>8, Zenon DEF vars, Activations
  <2>2. ~ (t.type = "activate" /\ ~ live /\ soon) /\ ~ (t.type = "deactivate" /\ live)
    BY <1>2, <1>3, <1>8, Zenon DEF Accepted, soon
  <2> QED
    BY <2>1, <2>2, <1>5, Zenon DEF A, t
<1> QED
  BY <1>6, <1>7, <1>8, Zenon DEF Process, t
-------------------------------------------------------------------------------
(***************************************************************************)
(* The steps of the node.  Each is a step of Activation, or leaves its     *)
(* variables as they are.                                                  *)
(***************************************************************************)
LEMMA BeginIsStep ==
  ASSUME NEW h \in 1..MaxBlock, BlockBegin(h)
  PROVE  [Next]_vars
  BY Zenon DEF Next

LEMMA ProcessIsStep ==
  ASSUME NEW b \in Block, Process(b)
  PROVE  [Next]_vars /\ block' = block
<1> DEFINE t == Transaction[b]
<1>1. t.feature \in Feature \cup Unknown /\ t.block \in 1..(MaxBlock + 1) /\ t.version \in Versions
  BY NodeActivationAssumption
<1> HIDE DEF t
<1>2. CASE ActivateFeature(t.feature, t.block, t.version)
  BY <1>1, <1>2, Zenon DEF Next, ActivateFeature
<1>3. CASE t.feature \in Feature /\ DeactivateFeature(t.feature)
  BY <1>3, Zenon DEF Next, DeactivateFeature
<1>4. CASE UNCHANGED vars
  BY <1>4, Zenon DEF vars
<1> QED
  BY <1>2, <1>3, <1>4, Zenon DEF Process, t

LEMMA HeightFacts ==
  ASSUME NodeTypes
  PROVE  /\ Len(chain) \in Nat /\ Len(chain) <= MaxHeight
         /\ MaxHeight \in Nat /\ MaxBlock = MaxHeight + 1
         /\ Scanned \in Nat
         /\ \A i \in 1..Len(chain) : chain[i] \in Block
<1>1. stores["state"] \in Seq(Block \cup {N!Spoiled})
  BY StoreFacts DEF NodeTypes
<1>2. Scanned \in Nat
  BY <1>1, LenProperties, Zenon DEF Scanned
<1>3. chain \in Seq(Block) /\ Len(chain) <= MaxHeight
  BY DEF NodeTypes
<1>4. Len(chain) \in Nat /\ \A i \in 1..Len(chain) : chain[i] \in Block
  BY <1>3, LenProperties, ElementOfSeq
<1>5. MaxHeight \in Nat /\ MaxBlock = MaxHeight + 1
  BY NodeActivationAssumption
<1> QED
  BY <1>2, <1>3, <1>4, <1>5

\* Everything is cleared, and a scan starts (mastercore_init, or a block after
\* disconnected ones).
LEMMA ClearedScans ==
  ASSUME NodeTypes, FollowsReplay, Reparse, chain' = chain,
         connecting' # N!NoBlock => Len(chain) < MaxHeight,
         connecting' \in Block \cup {N!NoBlock}, reorg' \in BOOLEAN, early' \in BOOLEAN,
         stores' = N!clear_all_state, contracts' = N!Uncleared, phase' = "scan"
  PROVE  NodeShape' /\ FollowsReplay'
<1>1. contracts \in {"none", "processed", "left over", "matched"}
  BY DEF NodeTypes
<1>2. /\ N!clear_all_state \in [N!Store -> Seq(Block \cup {N!Spoiled})]
      /\ Len(N!clear_all_state["state"]) = 0
      /\ N!Uncleared \in {"none", "left over"}
      /\ Reflects(N!clear_all_state, N!Uncleared, chain, 0)
  BY <1>1, ClearFacts, Zenon
<1>3. Scanned' = 0
  BY <1>2 DEF Scanned
<1>4. Reflects(stores, contracts, chain, Scanned)'
  BY <1>2, <1>3
<1>5. NodeTypes'
  BY <1>2 DEF NodeTypes, Phases
<1>6. RoomLeft'
  BY DEF RoomLeft
<1>7. ScanFollows'
  BY <1>3, <1>4, HeightFacts DEF ScanFollows, Reparse
<1>8. UpToDate' /\ AtHeight'
  BY DEF UpToDate, AtHeight, Settled
<1>9. PICK R : IsReplay(R, chain)
  BY Zenon DEF FollowsReplay
<1>10. R[0] = NoActivations
  BY <1>9, HeightFacts, ReplaySteps, Zenon
<1>11. Activations' = NoActivations
  BY Zenon DEF Activations, NoActivations, Reparse, clear_all_state
<1>12. Follows(R)'
  BY <1>3, <1>10, <1>11 DEF Follows
<1> QED
  BY <1>5, <1>6, <1>7, <1>8, <1>9, <1>12, Zenon DEF NodeShape, FollowsReplay

LEMMA NodeBlockBeginHolds ==
  ASSUME NodeInv, NEW b \in Block, NodeBlockBegin(b)
  PROVE  [Next]_vars /\ NodeShape' /\ FollowsReplay'
<1>1. /\ Types /\ NodeTypes /\ FollowsReplay /\ phase = "idle"
      /\ Len(chain) < MaxHeight
      /\ chain' = chain /\ connecting' = b /\ reorg' = FALSE
  BY DEF NodeInv, IInv, NodeShape, NodeBlockBegin, N!BlockBegin
<1>2. CASE reorg
  <2>1. /\ Reparse /\ stores' = N!clear_all_state /\ contracts' = N!Uncleared
        /\ phase' = "scan" /\ early' = FALSE
    BY <1>2, Zenon DEF NodeBlockBegin, N!BlockBegin
  <2>2. /\ connecting' # N!NoBlock => Len(chain) < MaxHeight
        /\ connecting' \in Block \cup {N!NoBlock} /\ reorg' \in BOOLEAN /\ early' \in BOOLEAN
    BY <2>1, <1>1
  <2>3. NodeShape' /\ FollowsReplay'
    BY <2>1, <2>2, <1>1, ClearedScans, Zenon
  <2> QED
    BY <2>1, <2>3, Zenon DEF Next
<1>3. CASE ~ reorg
  <2>1. /\ BlockBegin(Len(chain) + 2) /\ phase' = "transactions"
        /\ stores' = stores /\ contracts' = contracts /\ early' = early
    BY <1>3, Zenon DEF NodeBlockBegin, N!BlockBegin
  <2>2. Len(chain) + 2 \in 1..MaxBlock /\ Len(chain) + 2 \in Nat
    BY <1>1, HeightFacts
  <2>3. NodeTypes'
    BY <2>1, <1>1 DEF NodeTypes, Phases
  <2>4. RoomLeft' /\ ScanFollows'
    BY <2>1, <1>1 DEF RoomLeft, ScanFollows
  <2>5. UpToDate'
    BY <2>1, <1>1, <1>3 DEF UpToDate, Settled, NodeInv, NodeShape
  <2>6. AtHeight'
    BY <2>1, <1>1 DEF AtHeight, BlockBegin
  <2>7. PICK R : IsReplay(R, chain) /\ Follows(R)
    BY <1>1, Zenon DEF FollowsReplay
  <2>8. Activations' = Begun(Activations, Len(chain) + 2)
    BY <2>1, <2>2, <1>1, BeginBegins
  <2>9. ~ early => Activations = R[Len(chain)]
    BY <2>7, <1>1, <1>3 DEF Follows
  <2>10. Follows(R)'
    BY <2>1, <2>8, <2>9, <1>1 DEF Follows
  <2> QED
    BY <2>1, <2>2, <2>3, <2>4, <2>5, <2>6, <2>7, <2>10, <1>1, BeginIsStep, Zenon DEF NodeShape, FollowsReplay
<1> QED
  BY <1>2, <1>3, Zenon

LEMMA ScanBeginHolds ==
  ASSUME NodeInv, ScanBegin
  PROVE  [Next]_vars /\ NodeShape' /\ FollowsReplay'
<1>1. /\ Types /\ NodeTypes /\ RoomLeft /\ ScanFollows /\ FollowsReplay
      /\ phase = "scan" /\ phase' = "replay" /\ Scanned < Len(chain)
      /\ UNCHANGED <<chain, stores, contracts, connecting, reorg, early>>
      /\ BlockBegin(Scanned + 2)
  BY DEF NodeInv, IInv, NodeShape, ScanBegin, N!ScanBegin, N!ToScan, Scanned
<1>2. Scanned' = Scanned
  BY <1>1 DEF Scanned
<1>3. Scanned + 2 \in 1..MaxBlock /\ Scanned + 2 \in Nat
  BY <1>1, HeightFacts
<1>4. NodeTypes'
  BY <1>1 DEF NodeTypes, Phases
<1>5. RoomLeft'
  BY <1>1 DEF RoomLeft
<1>6. ScanFollows'
  BY <1>1, <1>2 DEF ScanFollows, BlockBegin
<1>7. UpToDate' /\ AtHeight'
  BY <1>1 DEF UpToDate, Settled, AtHeight
<1>8. PICK R : IsReplay(R, chain) /\ Follows(R)
  BY <1>1, Zenon DEF FollowsReplay
<1>9. Activations' = Begun(Activations, Scanned + 2)
  BY <1>1, <1>3, BeginBegins
<1>10. Follows(R)'
  BY <1>1, <1>2, <1>8, <1>9 DEF Follows
<1>11. IsReplay(R, chain)'
  BY <1>1, <1>8
<1> QED
  BY <1>1, <1>3, <1>4, <1>5, <1>6, <1>7, <1>10, <1>11, BeginIsStep, Zenon DEF NodeShape, FollowsReplay

LEMMA ScanTransactionHolds ==
  ASSUME NodeInv, ScanTransaction
  PROVE  [Next]_vars /\ NodeShape' /\ FollowsReplay'
<1>1. /\ Types /\ NodeTypes /\ RoomLeft /\ ScanFollows /\ FollowsReplay
      /\ phase = "replay" /\ phase' = "scan"
      /\ UNCHANGED <<chain, connecting, reorg, early>>
  BY DEF NodeInv, IInv, NodeShape, ScanTransaction, N!ScanTransactions
<1>2. PICK k \in Nat : k = Scanned
  BY <1>1, HeightFacts
<1>3. PICK c : c = chain
  OBVIOUS
<1>4. /\ k + 1 \in 1..Len(c) /\ Len(c) \in Nat /\ c[k + 1] \in Block
      /\ Reflects(stores, contracts, c, k)
      /\ block = k + 2
  BY <1>1, <1>2, <1>3, HeightFacts DEF ScanFollows
<1>5. /\ stores' = N!Processed(c[k + 1]) /\ contracts' = N!Traded(c[k + 1])
      /\ Process(c[k + 1])
  BY <1>2, <1>3, Zenon DEF ScanTransaction, N!ScanTransactions, Scanned
<1>6. /\ stores \in [N!Store -> Seq(Block \cup {N!Spoiled})]
      /\ contracts \in {"none", "processed", "left over", "matched"}
  BY <1>1 DEF NodeTypes
<1>7. /\ N!Processed(c[k + 1]) \in [N!Store -> Seq(Block \cup {N!Spoiled})]
      /\ N!Traded(c[k + 1]) \in {"none", "processed", "left over", "matched"}
  BY <1>4, <1>6, ProcessedTypes, Zenon
<1>8. /\ Len(N!Processed(c[k + 1])["state"]) = k + 1
      /\ Reflects(N!Processed(c[k + 1]), N!Traded(c[k + 1]), c, k + 1)
  <2>1. \A i \in 1..k : c[i] = c[i]
    OBVIOUS
  <2> QED
    BY <2>1, <1>4, <1>6, ReflectsGrows, Zenon
<1>9. [Next]_vars /\ block' = block
  BY <1>4, <1>5, ProcessIsStep, Zenon
<1>10. Scanned' = k + 1
  BY <1>5, <1>8 DEF Scanned
<1>11. NodeTypes'
  BY <1>1, <1>5, <1>7 DEF NodeTypes, Phases
<1>12. RoomLeft'
  BY <1>1 DEF RoomLeft
<1>13. ScanFollows'
  <2>1. Reflects(stores, contracts, chain, Scanned)'
    BY <1>1, <1>3, <1>5, <1>8, <1>10
  <2> QED
    BY <2>1, <1>1, <1>3, <1>4, <1>9, <1>10 DEF ScanFollows
<1>14. UpToDate' /\ AtHeight'
  BY <1>1 DEF UpToDate, Settled, AtHeight
<1>15. PICK R : IsReplay(R, c) /\ Follows(R)
  BY <1>1, <1>3, Zenon DEF FollowsReplay
<1>16. Activations = Begun(R[k], k + 2)
  BY <1>1, <1>2, <1>15, Zenon DEF Follows
<1>17. Activations' = Announced(Activations, Transaction[c[k + 1]], k + 2)
  <2>1. Activations' = Announced(Activations, Transaction[c[k + 1]], block)
    BY <1>1, <1>4, <1>5, ProcessAnnounces, Zenon
  <2> QED
    BY <2>1, <1>4, Zenon
<1>18. R[k + 1] = Announced(Begun(R[k], k + 2), Transaction[c[k + 1]], k + 2)
  <2>1. (k + 1) - 1 = k /\ (k + 1) + 1 = k + 2
    OBVIOUS
  <2>2. R[k + 1] = Step(R[(k + 1) - 1], c, k + 1)
    BY <1>4, <1>15, ReplaySteps, Zenon
  <2> QED
    BY <2>1, <2>2, Zenon DEF Step
<1>19. Activations' = R[k + 1]
  BY <1>16, <1>17, <1>18, Zenon
<1>20. Follows(R)'
  BY <1>1, <1>10, <1>19 DEF Follows
<1>21. IsReplay(R, chain)'
  BY <1>1, <1>3, <1>15
<1> QED
  BY <1>9, <1>11, <1>12, <1>13, <1>14, <1>20, <1>21, Zenon DEF NodeShape, FollowsReplay

\* A scan ends; unless it ends early, it has processed the whole chain.  A
\* block that waited for it begins.
LEMMA ScanEnds ==
  ASSUME NodeInv, phase \in {"scan", "replay"}, phase' = N!AfterScan, WaitingBegins,
         early' \in BOOLEAN, ~ early' => phase = "scan" /\ Scanned = Len(chain),
         UNCHANGED <<chain, stores, contracts, connecting, reorg>>
  PROVE  [Next]_vars /\ NodeShape' /\ FollowsReplay'
<1>1. Types /\ NodeTypes /\ RoomLeft /\ ScanFollows /\ FollowsReplay
  BY DEF NodeInv, IInv, NodeShape
<1>2. /\ phase' \in {"idle", "transactions"}
      /\ phase' = "idle" <=> connecting = N!NoBlock
  BY DEF N!AfterScan
<1>3. PICK R : IsReplay(R, chain) /\ Follows(R)
  BY <1>1, Zenon DEF FollowsReplay
<1>4. ~ early' => Reflects(stores, contracts, chain, Len(chain)) /\ Activations = R[Len(chain)]
  BY <1>1, <1>3 DEF ScanFollows, Follows
<1>5. NodeTypes'
  BY <1>1, <1>2 DEF NodeTypes, Phases
<1>6. ScanFollows'
  BY <1>2 DEF ScanFollows
<1>7. UpToDate'
  BY <1>4 DEF UpToDate
<1>8. IsReplay(R, chain)'
  BY <1>3
<1>9. CASE connecting = N!NoBlock
  <2>1. UNCHANGED vars /\ phase' = "idle"
    BY <1>2, <1>9, Zenon DEF WaitingBegins
  <2>2. Activations' = Activations
    BY <2>1, Zenon DEF vars, Activations
  <2>3. RoomLeft' /\ AtHeight'
    BY <2>1 DEF RoomLeft, AtHeight
  <2>4. Follows(R)'
    BY <2>1, <2>2, <1>4 DEF Follows
  <2> QED
    BY <2>1, <2>3, <2>4, <1>5, <1>6, <1>7, <1>8, Zenon DEF NodeShape, FollowsReplay
<1>10. CASE connecting # N!NoBlock
  <2>1. BlockBegin(Len(chain) + 2) /\ phase' = "transactions"
    BY <1>2, <1>10 DEF WaitingBegins
  <2>2. Len(chain) < MaxHeight /\ connecting \in Block
    BY <1>1, <1>10 DEF RoomLeft, NodeTypes
  <2>3. Len(chain) + 2 \in 1..MaxBlock /\ Len(chain) + 2 \in Nat
    BY <2>2, <1>1, HeightFacts
  <2>4. Activations' = Begun(Activations, Len(chain) + 2)
    BY <2>1, <2>3, <1>1, BeginBegins
  <2>5. RoomLeft'
    BY <2>1, <2>2 DEF RoomLeft
  <2>6. AtHeight'
    BY <2>1 DEF AtHeight, BlockBegin
  <2>7. Follows(R)'
    BY <2>1, <2>4, <1>4 DEF Follows
  <2> QED
    BY <2>1, <2>3, <2>5, <2>6, <2>7, <1>5, <1>6, <1>7, <1>8, BeginIsStep, Zenon DEF NodeShape, FollowsReplay
<1> QED
  BY <1>9, <1>10, Zenon

LEMMA ScanDoneHolds ==
  ASSUME NodeInv, ScanDone
  PROVE  [Next]_vars /\ NodeShape' /\ FollowsReplay'
<1>1. /\ NodeTypes /\ ScanFollows /\ stopping \in BOOLEAN
      /\ phase = "scan" /\ phase' = N!AfterScan /\ WaitingBegins
      /\ UNCHANGED <<chain, stores, contracts, connecting, reorg>>
  BY DEF NodeInv, IInv, Types, NodeShape, ScanDone, N!ScanDone
<1>2. early' = (stopping /\ Scanned < Len(chain)) /\ ~ (~ stopping /\ Scanned < Len(chain))
  BY Zenon DEF ScanDone, N!ScanDone, N!ToScan, Scanned
<1>3. ~ early' => ~ (Scanned < Len(chain))
  BY <1>2, Zenon
<1>4. Scanned <= Len(chain)
  BY <1>1 DEF ScanFollows
<1>5. ~ early' => Scanned = Len(chain)
  BY <1>1, <1>3, <1>4, HeightFacts
<1>6. early' \in BOOLEAN
  BY <1>2, Zenon
<1>7. phase \in {"scan", "replay"}
  BY <1>1
<1> QED
  BY <1>1, <1>5, <1>6, <1>7, ScanEnds, Zenon

LEMMA ScanBrokenHolds ==
  ASSUME NodeInv, ScanBroken
  PROVE  [Next]_vars /\ NodeShape' /\ FollowsReplay'
<1>1. /\ phase \in {"scan", "replay"} /\ phase' = N!AfterScan /\ WaitingBegins
      /\ early' \in BOOLEAN /\ (~ early' => phase = "scan" /\ Scanned = Len(chain))
      /\ UNCHANGED <<chain, stores, contracts, connecting, reorg>>
  BY DEF ScanBroken, N!ScanBroken
<1> QED
  BY <1>1, ScanEnds, Zenon

LEMMA TransactionsHolds ==
  ASSUME NodeInv, Transactions
  PROVE  [Next]_vars /\ NodeShape' /\ FollowsReplay'
<1>1. /\ Types /\ NodeTypes /\ FollowsReplay
      /\ phase = "transactions" /\ phase' = "end"
      /\ UNCHANGED <<connecting, reorg, early>>
  BY DEF NodeInv, IInv, NodeShape, Transactions, N!Transactions
<1>2. Len(chain) < MaxHeight /\ connecting \in Block /\ block = Len(chain) + 2
  BY <1>1 DEF NodeInv, NodeShape, RoomLeft, AtHeight
<1>3. PICK b \in Block : b = connecting
  BY <1>2
<1>4. PICK c \in Seq(Block) : c = chain
  BY <1>1 DEF NodeTypes
<1>5. PICK d : d = Append(c, b)
  OBVIOUS
<1>6. PICK k \in Nat : k = Len(c)
  BY <1>1, <1>4, HeightFacts
<1>7. /\ d \in Seq(Block) /\ Len(d) = k + 1
      /\ \A i \in 1..k : d[i] = c[i]
      /\ d[k + 1] = b
  BY <1>5, <1>6, AppendProperties
<1>8. /\ chain' = d /\ stores' = N!Processed(b) /\ contracts' = N!Traded(b) /\ Process(b)
  BY <1>3, <1>4, <1>5, Zenon DEF Transactions, N!Transactions
<1>9. /\ stores \in [N!Store -> Seq(Block \cup {N!Spoiled})]
      /\ contracts \in {"none", "processed", "left over", "matched"}
  BY <1>1 DEF NodeTypes
<1>10. /\ N!Processed(b) \in [N!Store -> Seq(Block \cup {N!Spoiled})]
       /\ N!Traded(b) \in {"none", "processed", "left over", "matched"}
  BY <1>9, ProcessedTypes, Zenon
<1>11. NodeTypes'
  <2>1. k + 1 <= MaxHeight
    BY <1>1, <1>2, <1>4, <1>6, HeightFacts
  <2> QED
    BY <2>1, <1>1, <1>7, <1>8, <1>10 DEF NodeTypes, Phases
<1>12. RoomLeft' /\ ScanFollows' /\ AtHeight'
  BY <1>1 DEF RoomLeft, ScanFollows, AtHeight
<1>13. UpToDate'
  <2> SUFFICES ASSUME ~ early
               PROVE  Reflects(stores, contracts, chain, Len(chain))'
    BY <1>1, Zenon DEF UpToDate
  <2>1. Reflects(stores, contracts, c, k)
    BY <1>1, <1>4, <1>6 DEF NodeInv, NodeShape, UpToDate, Settled
  <2>2. d[k + 1] \in Block
    BY <1>7
  <2>3. Reflects(N!Processed(d[k + 1]), N!Traded(d[k + 1]), d, k + 1)
    BY <2>1, <2>2, <1>7, <1>9, ReflectsGrows, Zenon
  <2> QED
    BY <2>3, <1>7, <1>8
<1>14. [Next]_vars
  BY <1>8, ProcessIsStep, Zenon
<1>15. PICK R : IsReplay(R, c) /\ Follows(R)
  BY <1>1, <1>4, Zenon DEF FollowsReplay
<1>16. PICK Q : IsReplay(Q, d) /\ Q[k + 1] = Step(R[k], d, k + 1)
  <2>1. /\ Len(c) \in Nat /\ Len(d) = Len(c) + 1 /\ \A i \in 1..Len(c) : d[i] = c[i]
        /\ IsReplay(R, c)
    BY <1>6, <1>7, <1>15
  <2>2. \E Q : /\ IsReplay(Q, d) /\ Q[Len(d)] = Step(R[Len(c)], d, Len(d))
               /\ \A n \in 0..Len(c) : Q[n] = R[n]
    BY <2>1, ReplayGrows
  <2> QED
    BY <2>2, <1>6, <1>7, Zenon
<1>17. ~ early => Activations' = Q[k + 1]
  <2> SUFFICES ASSUME ~ early PROVE Activations' = Q[k + 1]
    OBVIOUS
  <2>1. Activations = Begun(R[k], k + 2)
    BY <1>1, <1>4, <1>6, <1>15, Zenon DEF Follows
  <2>2. Activations' = Announced(Activations, Transaction[b], block)
    BY <1>1, <1>8, ProcessAnnounces, Zenon
  <2>3. block = k + 2
    BY <1>2, <1>4, <1>6, Zenon
  <2>4. (k + 1) + 1 = k + 2
    OBVIOUS
  <2>5. Step(R[k], d, k + 1) = Announced(Begun(R[k], k + 2), Transaction[b], k + 2)
    BY <2>4, <1>7, Zenon DEF Step
  <2> QED
    BY <2>1, <2>2, <2>3, <2>5, <1>16, Zenon
<1>18. Follows(Q)'
  BY <1>1, <1>7, <1>8, <1>17 DEF Follows
<1>19. IsReplay(Q, chain)'
  BY <1>8, <1>16
<1> QED
  BY <1>11, <1>12, <1>13, <1>14, <1>18, <1>19, Zenon DEF NodeShape, FollowsReplay

\* What is left of the chain has a replay as well.
LEMMA ShorterReplays ==
  ASSUME NodeTypes, FollowsReplay, NEW n \in 0..Len(chain), chain' = SubSeq(chain, 1, n)
  PROVE  /\ chain' \in Seq(Block) /\ Len(chain') <= MaxHeight
         /\ \E R : IsReplay(R, chain')
<1>1. PICK c \in Seq(Block) : c = chain
  BY DEF NodeTypes
<1>2. n \in 0..Len(c) /\ Len(c) \in Nat /\ Len(c) <= MaxHeight
  BY <1>1, HeightFacts
<1>3. PICK d : d = SubSeq(c, 1, n)
  OBVIOUS
<1>4. d \in Seq(Block) /\ Len(d) = n /\ \A i \in 1..n : d[i] = c[i]
  BY <1>2, <1>3, PrefixFacts
<1>5. Len(d) \in 0..Len(c) /\ (\A i \in 1..Len(d) : d[i] = c[i]) /\ Len(d) <= MaxHeight
  BY <1>2, <1>4, NodeActivationAssumption
<1>6. PICK R : IsReplay(R, c)
  BY <1>1, Zenon DEF FollowsReplay
<1>7. \E Q : IsReplay(Q, d)
  BY <1>2, <1>5, <1>6, ReplayShrinks, Zenon
<1>8. chain' = d
  BY <1>1, <1>3, Zenon
<1> QED
  BY <1>4, <1>5, <1>7, <1>8, Zenon

LEMMA QuietHolds ==
  ASSUME NodeInv, Quiet
  PROVE  [Next]_vars /\ NodeShape' /\ FollowsReplay'
<1>1. Types /\ NodeTypes /\ FollowsReplay /\ UNCHANGED vars
  BY DEF NodeInv, IInv, NodeShape, Quiet
<1>2. Activations' = Activations /\ block' = block
  BY <1>1, Zenon DEF vars, Activations
<1>3. CASE N!BlockEnd
  <2>1. /\ phase = "end" /\ phase' = "idle" /\ connecting' = N!NoBlock
        /\ UNCHANGED <<chain, stores, contracts, reorg, early>>
    BY <1>3 DEF N!BlockEnd
  <2>2. NodeTypes'
    BY <2>1, <1>1 DEF NodeTypes, Phases
  <2>3. RoomLeft' /\ ScanFollows' /\ AtHeight'
    BY <2>1 DEF RoomLeft, ScanFollows, AtHeight
  <2>4. UpToDate'
    BY <2>1 DEF UpToDate, Settled, NodeInv, NodeShape
  <2>5. PICK R : IsReplay(R, chain) /\ Follows(R)
    BY <1>1, Zenon DEF FollowsReplay
  <2>6. Follows(R)'
    BY <2>1, <2>5, <1>2 DEF Follows
  <2>7. IsReplay(R, chain)'
    BY <2>1, <2>5
  <2> QED
    BY <2>2, <2>3, <2>4, <2>6, <2>7, <1>1, Zenon DEF NodeShape, FollowsReplay
<1>4. CASE N!Disconnect
  <2>1. /\ phase = "idle" /\ chain # <<>> /\ phase' = phase
        /\ chain' = SubSeq(chain, 1, Len(chain) - 1) /\ reorg' = TRUE
        /\ UNCHANGED <<stores, contracts, connecting, early>>
    BY <1>4 DEF N!Disconnect
  <2>2. Len(chain) - 1 \in 0..Len(chain)
    <3>1. Len(chain) \in Nat \ {0}
      BY <2>1, <1>1, EmptySeq DEF NodeTypes
    <3> QED
      BY <3>1
  <2>3. /\ chain' \in Seq(Block) /\ Len(chain') <= MaxHeight
        /\ \E R : IsReplay(R, chain')
    BY <2>1, <2>2, <1>1, ShorterReplays, Zenon
  <2>4. NodeTypes'
    BY <2>1, <2>3, <1>1 DEF NodeTypes
  <2>5. RoomLeft' /\ ScanFollows' /\ AtHeight' /\ UpToDate'
    BY <2>1 DEF RoomLeft, ScanFollows, AtHeight, UpToDate, Settled
  <2>6. PICK R : IsReplay(R, chain')
    BY <2>3
  <2>7. Follows(R)'
    BY <2>1 DEF Follows
  <2> QED
    BY <2>4, <2>5, <2>6, <2>7, <1>1, Zenon DEF NodeShape, FollowsReplay
<1> QED
  BY <1>3, <1>4, Zenon DEF Quiet

LEMMA StopHolds ==
  ASSUME NodeInv, Stop
  PROVE  [Next]_vars /\ NodeShape' /\ FollowsReplay'
<1>1. /\ StartShutdown /\ UNCHANGED <<chain, stores, contracts, phase, connecting, reorg, early>>
      /\ NodeShape /\ FollowsReplay
  BY DEF Stop, nodeVars, NodeInv
<1>2. Activations' = Activations /\ block' = block
  BY <1>1, Zenon DEF StartShutdown, Activations
<1>3. NodeTypes' /\ RoomLeft' /\ UpToDate'
  BY <1>1 DEF NodeShape, NodeTypes, RoomLeft, UpToDate, Settled
<1>4. ScanFollows' /\ AtHeight'
  BY <1>1, <1>2 DEF NodeShape, ScanFollows, Scanned, AtHeight
<1>5. PICK R : IsReplay(R, chain) /\ Follows(R)
  BY <1>1, Zenon DEF FollowsReplay
<1>6. Follows(R)'
  BY <1>1, <1>2, <1>5 DEF Follows, Scanned
<1>7. IsReplay(R, chain)'
  BY <1>1, <1>5
<1> QED
  BY <1>1, <1>3, <1>4, <1>6, <1>7, Zenon DEF NodeShape, FollowsReplay, Next

LEMMA CrashHolds ==
  ASSUME NodeInv, Crash
  PROVE  [Next]_vars /\ NodeShape' /\ FollowsReplay'
<1>1. /\ NodeTypes /\ FollowsReplay /\ Restart
      /\ stores' = [s \in N!Store |-> IF s \in N!MemoryStore THEN <<>> ELSE stores[s]]
      /\ contracts' = "none" /\ phase' = "down" /\ connecting' = N!NoBlock
      /\ reorg' = FALSE /\ early' = FALSE
  BY DEF NodeInv, NodeShape, Crash, N!Crash
<1>2. PICK n \in 0..Len(chain) : chain' = SubSeq(chain, 1, n)
  BY DEF Crash, N!Crash
<1>3. /\ chain' \in Seq(Block) /\ Len(chain') <= MaxHeight
      /\ \E R : IsReplay(R, chain')
  BY <1>1, <1>2, ShorterReplays, Zenon
<1>4. <<>> \in Seq(Block \cup {N!Spoiled})
  BY EmptySeq
<1>5. stores' \in [N!Store -> Seq(Block \cup {N!Spoiled})]
  BY <1>1, <1>4 DEF NodeTypes
<1>6. NodeTypes'
  BY <1>1, <1>3, <1>5 DEF NodeTypes, Phases
<1>7. RoomLeft' /\ ScanFollows' /\ UpToDate' /\ AtHeight'
  BY <1>1 DEF RoomLeft, ScanFollows, UpToDate, Settled, AtHeight
<1>8. PICK R : IsReplay(R, chain')
  BY <1>3
<1>9. Follows(R)'
  BY <1>1 DEF Follows
<1> QED
  BY <1>1, <1>6, <1>7, <1>8, <1>9, Zenon DEF NodeShape, FollowsReplay, Next

LEMMA StartHolds ==
  ASSUME NodeInv, Start
  PROVE  [Next]_vars /\ NodeShape' /\ FollowsReplay'
<1>1. /\ NodeTypes /\ FollowsReplay /\ Reparse
      /\ stores' = N!clear_all_state /\ contracts' = N!Uncleared /\ phase' = "scan"
      /\ chain' = chain
  BY DEF NodeInv, NodeShape, Start, N!Restart
<1>2. /\ connecting' # N!NoBlock => Len(chain) < MaxHeight
      /\ connecting' \in Block \cup {N!NoBlock}
      /\ reorg' \in BOOLEAN /\ early' \in BOOLEAN
  BY DEF NodeInv, NodeShape, NodeTypes, RoomLeft, Start, N!Restart
<1> QED
  BY <1>1, <1>2, ClearedScans, Zenon DEF Next

\* NodeInv is inductive, and every step of the node is one of Activation.
LEMMA NodeStepHolds ==
  ASSUME NodeInv, [NodeNext]_allVars
  PROVE  [Next]_vars /\ NodeInv'
<1>1. [Next]_vars /\ NodeShape' /\ FollowsReplay'
  <2>1. ASSUME NEW b \in Block, NodeBlockBegin(b)
        PROVE  [Next]_vars /\ NodeShape' /\ FollowsReplay'
    BY <2>1, NodeBlockBeginHolds
  <2>2. CASE UNCHANGED allVars
    <3>1. /\ UNCHANGED vars /\ NodeShape /\ FollowsReplay
          /\ UNCHANGED <<chain, stores, contracts, phase, connecting, reorg, early>>
      BY <2>2 DEF allVars, nodeVars, NodeInv
    <3>2. Activations' = Activations /\ block' = block
      BY <3>1, Zenon DEF vars, Activations
    <3>3. NodeTypes' /\ RoomLeft' /\ UpToDate'
      BY <3>1 DEF NodeShape, NodeTypes, RoomLeft, UpToDate, Settled
    <3>4. ScanFollows' /\ AtHeight'
      BY <3>1, <3>2 DEF NodeShape, ScanFollows, Scanned, AtHeight
    <3>5. PICK R : IsReplay(R, chain) /\ Follows(R)
      BY <3>1, Zenon DEF FollowsReplay
    <3>6. Follows(R)' /\ IsReplay(R, chain)'
      BY <3>1, <3>2, <3>5 DEF Follows, Scanned
    <3> QED
      BY <3>1, <3>3, <3>4, <3>6, Zenon DEF NodeShape, FollowsReplay
  <2> QED
    BY <2>1, <2>2, ScanBeginHolds, ScanTransactionHolds, ScanDoneHolds, ScanBrokenHolds,
       TransactionsHolds, QuietHolds, StopHolds, CrashHolds, StartHolds, Zenon DEF NodeNext
<1>2. IInv'
  BY <1>1, StepHolds, Zenon DEF NodeInv
<1> QED
  BY <1>1, <1>2, Zenon DEF NodeInv

LEMMA NodeInitHolds == NodeInit => Init /\ NodeInv
<1> SUFFICES ASSUME NodeInit PROVE Init /\ NodeInv
  OBVIOUS
<1>1. /\ Init /\ chain = <<>> /\ stores = [s \in N!Store |-> <<>>] /\ contracts = "none"
      /\ phase = "idle" /\ connecting = N!NoBlock /\ reorg = FALSE /\ early = FALSE
  BY DEF NodeInit, N!Init
<1>2. IInv
  BY <1>1, InitHolds
<1>3. <<>> \in Seq(Block) /\ <<>> \in Seq(Block \cup {N!Spoiled}) /\ Len(<<>>) = 0
  BY EmptySeq
<1>4. NodeTypes
  <2>1. chain \in Seq(Block) /\ Len(chain) <= MaxHeight
    BY <1>1, <1>3, NodeActivationAssumption
  <2>2. stores \in [N!Store -> Seq(Block \cup {N!Spoiled})]
    BY <1>1, <1>3, Zenon
  <2> QED
    BY <2>1, <2>2, <1>1 DEF NodeTypes, Phases
<1>5. RoomLeft /\ ScanFollows /\ AtHeight
  BY <1>1 DEF RoomLeft, ScanFollows, AtHeight
<1>6. UpToDate
  <2>1. Len(chain) = 0
    BY <1>1, <1>3
  <2>2. \A s \in N!Store : Len(stores[s]) = 0
    BY <1>1, <1>3
  <2>3. Reflects(stores, contracts, chain, 0)
    BY <2>2, <1>1, NoIndex DEF Reflects
  <2> QED
    BY <2>1, <2>3 DEF UpToDate
<1>7. FollowsReplay
  <2>1. Len(chain) = 0
    BY <1>1, <1>3
  <2>2. PICK R : IsReplay(R, chain)
    BY <2>1, ReplayEmpty
  <2>3. R[0] = NoActivations
    BY <2>1, <2>2, ReplaySteps
  <2>4. Activations = NoActivations
    BY <1>1, Zenon DEF Init, Activations, NoActivations
  <2>5. Follows(R)
    BY <2>1, <2>3, <2>4, <1>1 DEF Follows
  <2> QED
    BY <2>2, <2>5, Zenon DEF FollowsReplay
<1> QED
  BY <1>1, <1>2, <1>4, <1>5, <1>6, <1>7, Zenon DEF NodeInv, NodeShape
-------------------------------------------------------------------------------
(***************************************************************************)
(* What a node keeps.                                                      *)
(***************************************************************************)
LEMMA NodeInductive == NodeSpec => []NodeInv
  BY NodeInitHolds, NodeStepHolds, PTL DEF NodeSpec

\* What holds of the rules of activation holds on a node that stops, scans
\* and reorganises.
LEMMA NodeRefines == NodeSpec => Spec
  BY NodeInitHolds, NodeStepHolds, PTL DEF NodeSpec, Spec

\* Hence on a node, too, what users are shown as pending is what will happen,
\* and a client that is too old stops.
THEOREM NodePendingTrue == NodeSpec => []PendingIsTrue /\ []TooOldStops
  BY NodeRefines, PendingStaysTrue, OldClientsStop, PTL

\* On a node, too, no feature is live before block Never that was neither live
\* from the start nor announced with notice.
THEOREM NodeFeaturesAnnounced ==
  ASSUME MaxBlock < Never
  PROVE  NodeSpec => []LiveIsAnnounced
  BY NodeRefines, FeaturesAreAnnounced, PTL

\* Unless a scan stopped early, the transactions of a block are processed on the
\* state of its parent chain, each of its blocks processed once, whatever
\* reorganisations and stops came before; the blocks from the first contract on
\* are spoiled when orders left over from before a reorganisation were matched
\* again, and no others (mastercore_handler_block_begin, msc_initial_scan,
\* mastercore_init).
THEOREM NodeStateFollows == NodeSpec => []StateFollowsChain
<1>1. NodeInv => StateFollowsChain
  <2> SUFFICES ASSUME NodeInv, N!Ready, NEW s \in N!Store
               PROVE  /\ Len(stores[s]) = Len(chain)
                      /\ \A i \in 1..Len(chain) : stores[s][i] = N!Reflected(i)
    BY Zenon DEF StateFollowsChain, N!StateFollowsChain
  <2>1. Reflects(stores, contracts, chain, Len(chain))
    BY DEF NodeInv, NodeShape, UpToDate, Settled, N!Ready
  <2> QED
    BY <2>1, Zenon DEF Reflects, Entry, HasContract, N!Reflected
<1> QED
  BY <1>1, NodeInductive, PTL

\* Unless a scan stopped early, the parameters and the pending and completed
\* activations are those of a node that processed the active chain once: none
\* of an orphaned block stays, none of the chain is lost or applied twice.
THEOREM NodeActivationsFollow == NodeSpec => []ActivationsFollowChain
<1>1. NodeInv => ActivationsFollowChain
  <2> SUFFICES ASSUME NodeInv, N!Ready
               PROVE  Activations = IF phase = "idle" THEN Replay(chain) ELSE Begun(Replay(chain), Len(chain) + 2)
    BY Zenon DEF ActivationsFollowChain
  <2>1. PICK R : IsReplay(R, chain) /\ Follows(R)
    BY Zenon DEF NodeInv, FollowsReplay
  <2>2. Len(chain) \in Nat
    BY HeightFacts DEF NodeInv, NodeShape
  <2>3. Replay(chain) = R[Len(chain)]
    BY <2>1, <2>2, ReplayIs
  <2> QED
    BY <2>1, <2>3 DEF Follows, N!Ready
<1> QED
  BY <1>1, NodeInductive, PTL
===============================================================================
