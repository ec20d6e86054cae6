-------------------------- MODULE BlockChainProofs --------------------------
(***************************************************************************)
(* The main chain of BlockChain, for every tree of blocks, every order of  *)
(* delivery and any number of rescans and restarts: the chain never gets   *)
(* shorter, is the longest the manager holds, leaves no orphan behind, and *)
(* the blocks of the present interval are held for the next transition.    *)
(* What the wallet does with the transactions plays no part in it.         *)
(*                                                                         *)
(* Then the wallet: through every step of the chain the balance is the sum *)
(* of the unspent outputs, no output is spent twice by transactions that   *)
(* count, what the wallet says can be sent can be, what it creates spends  *)
(* what it should, and what is locked is pending, as long as no block      *)
(* frees a transaction that is listed; the lists of wallet and database    *)
(* agree then too.  Before the first restart and removal none is freed.    *)
(* Until the first rescan the heights of the transactions follow the chain *)
(* as long as the list is in their order.                                  *)
(***************************************************************************)
EXTENDS BlockChain, WalletProofs

ChainTypes ==
    /\ blocks \subseteq Block /\ lastBlock \in Block /\ saved \subseteq Block
    /\ orphans \subseteq Block /\ next \subseteq Block
    /\ lostTrack \in BOOLEAN

\* The strengthening of FollowsLongest: a restart may bring back saved blocks.
HeldIsLower == ~lostTrack => \A b \in blocks \cup saved : Height[b] <= Height[lastBlock]

\* Only rescans, restarts and removals are counted, and each counts down.
BudgetType == budget \in [rescan : Nat, restart : Nat, drop : Nat]

ChainInv == ChainTypes /\ HeldIsLower /\ NoForgottenOrphan

\* What is kept or walked over was held before.
LEMMA KeptIsHeld == \A b \in Block : KeptBlocks(b) \subseteq blocks
  BY DEF KeptBlocks

LEMMA SavedIsHeld ==
  ASSUME NEW held, NEW b, NEW complete
  PROVE  SaveBlocks(held, b, complete) \subseteq saved \cup held \cup {b}
<1>1. Walk(held, b) \subseteq held
  BY DEF Walk
<1>2. ToSave(held, b, complete) \subseteq {b} \cup Walk(held, b)
  BY DEF ToSave
<1> QED
  BY <1>1, <1>2 DEF SaveBlocks

\* A block whose parent is held is at most one above the main chain.
LEMMA NextHeight ==
  ASSUME ChainInv, ~lostTrack, NEW b \in Block, Parent[b] \in blocks
  PROVE  /\ b # Checkpoint /\ Height[b] \in Nat
         /\ Height[b] = Height[Parent[b]] + 1 /\ Height[b] <= Height[lastBlock] + 1
<1>1. b # Checkpoint /\ Parent[b] \in Block
  BY ChainAssumption DEF ChainInv, ChainTypes
<1>2. Height[b] = Height[Parent[b]] + 1 /\ Height[b] \in Nat /\ Height[Parent[b]] \in Nat
       /\ Height[lastBlock] \in Nat
  BY <1>1, ChainAssumption DEF ChainInv, ChainTypes
<1>3. Height[Parent[b]] <= Height[lastBlock]
  BY DEF ChainInv, HeldIsLower
<1> QED
  BY <1>1, <1>2, <1>3

\* What every way of accepting a block b comes down to: b joins the blocks that
\* are kept, the chain does not get shorter and is not below b, what is saved
\* was held, and of the orphans at most the ones that follow b are taken.
LEMMA Accepted ==
  ASSUME ChainInv, NEW b \in Block,
         lastBlock' \in Block, lostTrack' \in BOOLEAN, lostTrack => lostTrack',
         blocks' \subseteq blocks \cup {b}, saved' \subseteq saved \cup blocks \cup {b},
         ~lostTrack' => Height[lastBlock'] >= Height[lastBlock] /\ Height[lastBlock'] >= Height[b],
         orphans' \subseteq {o \in orphans : Parent[o] # b}, next' \subseteq next \cup orphans
  PROVE  ChainInv'
<1>1. ChainTypes'
  BY DEF ChainInv, ChainTypes
<1>2. \A x \in Block : Height[x] \in Nat
  BY ChainAssumption
<1>3. HeldIsLower'
  <2> SUFFICES ASSUME ~lostTrack', NEW x \in (blocks \cup saved)'
               PROVE  Height[x] <= Height[lastBlock']
    BY DEF HeldIsLower
  <2>1. x \in blocks \cup saved \/ x = b
    OBVIOUS
  <2>2. CASE x = b
    BY <2>2, <1>2
  <2>3. CASE x \in blocks \cup saved
    <3>1. Height[x] <= Height[lastBlock] /\ x \in Block /\ lastBlock \in Block
      BY <2>3 DEF ChainInv, ChainTypes, HeldIsLower
    <3> QED
      BY <3>1, <1>2
  <2> QED
    BY <2>1, <2>2, <2>3
<1>4. NoForgottenOrphan'
  <2> SUFFICES ASSUME ~lostTrack', NEW o \in orphans', Parent[o] \in blocks'
               PROVE  Height[o] <= Height[lastBlock']
    BY DEF NoForgottenOrphan
  <2>1. o \in orphans /\ Parent[o] \in blocks
    OBVIOUS
  <2>2. Height[o] <= Height[lastBlock] /\ o \in Block /\ lastBlock \in Block
    BY <2>1 DEF ChainInv, ChainTypes, NoForgottenOrphan
  <2> QED
    BY <2>2, <1>2
<1> QED
  BY <1>1, <1>3, <1>4 DEF ChainInv

\* Steps that leave the blocks alone, and add no orphan.
LEMMA Untouched ==
  ASSUME ChainInv, UNCHANGED <<lastBlock, saved, lostTrack>>,
         blocks' \subseteq blocks, orphans' \subseteq orphans, next' \subseteq next
  PROVE  ChainInv'
  BY DEF ChainInv, ChainTypes, HeldIsLower, NoForgottenOrphan

LEMMA InitInv == Init => ChainInv /\ BudgetType
<1> SUFFICES ASSUME Init PROVE ChainInv /\ BudgetType
  OBVIOUS
<1>1. /\ blocks = {Checkpoint} /\ lastBlock = Checkpoint
      /\ orphans = {} /\ next = {} /\ saved = {} /\ lostTrack = FALSE
      /\ budget = [rescan |-> MaxRescans, restart |-> MaxRestarts, drop |-> MaxDrops]
  BY Zenon DEF Init
<1>2. lostTrack \in BOOLEAN
  BY <1>1, Zenon
<1>3. ChainTypes
  BY <1>1, <1>2, ChainAssumption DEF ChainTypes
<1>4. HeldIsLower /\ NoForgottenOrphan
  BY <1>1, ChainAssumption DEF HeldIsLower, NoForgottenOrphan
<1>5. BudgetType
  BY <1>1, ChainAssumption DEF BudgetType
<1> QED
  BY <1>3, <1>4, <1>5 DEF ChainInv

-----------------------------------------------------------------------------
(* One lemma for each kind of step *)

LEMMA WalletStep ==
  ASSUME ChainInv,
         \/ \E t \in NetTx : RelayTx(t)
         \/ \E t \in Tx, verified \in BOOLEAN : MarkVerified(t, verified)
         \/ \E lost \in SUBSET ToSet(wallet.list) : DropUnrelayed(lost)
         \/ \E t \in OwnTx, amount \in Amounts, swap \in BOOLEAN : CreateTransaction(t, amount, swap)
         \/ \E t \in OwnTx : RequestTx(t)
         \/ LoadBloomFilter
         \/ \E rate \in Fees : SetFeePerKb(rate)
  PROVE  ChainInv' /\ lastBlock' = lastBlock
<1>1. /\ UNCHANGED <<lastBlock, saved, lostTrack>>
      /\ blocks' \subseteq blocks /\ orphans' \subseteq orphans /\ next' \subseteq next
  BY DEF RelayTx, MarkVerified, DropUnrelayed, CreateTransaction, Create, RequestTx, LoadBloomFilter,
         SetFeePerKb, chainVars, history
<1> QED
  BY <1>1, Untouched

LEMMA InvalidStep ==
  ASSUME ChainInv, NEW b \in Block, InvalidBlock(b)
  PROVE  ChainInv' /\ lastBlock' = lastBlock
<1>1. KeptBlocks(b) \subseteq blocks
  BY KeptIsHeld
<1>2. /\ UNCHANGED <<lastBlock, saved, lostTrack, orphans>>
      /\ blocks' \subseteq blocks /\ next' \subseteq next
  BY <1>1 DEF InvalidBlock, history
<1> QED
  BY <1>2, Untouched

LEMMA OrphanStep ==
  ASSUME ChainInv, NEW b \in Block, OrphanBlock(b)
  PROVE  ChainInv' /\ lastBlock' = lastBlock
<1>1. /\ UNCHANGED <<lastBlock, saved, lostTrack, blocks>>
      /\ orphans' \subseteq orphans \cup {b} /\ next' \subseteq next /\ Parent[b] \notin blocks
  BY DEF OrphanBlock, AddOrphan, history
<1> QED
  BY <1>1 DEF ChainInv, ChainTypes, HeldIsLower, NoForgottenOrphan

LEMMA AheadStep ==
  ASSUME ChainInv, NEW b \in Block, BlockAhead(b)
  PROVE  ChainInv' /\ lastBlock' = lastBlock
<1>1. /\ UNCHANGED <<lastBlock, saved, lostTrack>>
      /\ orphans' \subseteq orphans \cup {b} /\ next' \subseteq next \cup orphans \cup {b}
      /\ Parent[b] \in blocks /\ Height[b] > Height[lastBlock] + 1
  BY DEF BlockAhead, TakeNextFrom, AddOrphan, history
<1>2. blocks' \subseteq blocks
  BY KeptIsHeld DEF BlockAhead
<1>3. lostTrack
  <2> SUFFICES ASSUME ~lostTrack PROVE FALSE
    OBVIOUS
  <2>1. Height[b] \in Nat /\ Height[b] <= Height[lastBlock] + 1 /\ Height[lastBlock] \in Nat
    BY <1>1, NextHeight, ChainAssumption DEF ChainInv, ChainTypes
  <2> QED
    BY <1>1, <2>1
<1> QED
  BY <1>1, <1>2, <1>3 DEF ChainInv, ChainTypes, HeldIsLower, NoForgottenOrphan

LEMMA ExistingStep ==
  ASSUME ChainInv, NEW b \in Block, ExistingBlock(b)
  PROVE  ChainInv' /\ lastBlock' = lastBlock
<1>1. /\ UNCHANGED <<lastBlock, saved, lostTrack>> /\ b \in blocks
      /\ orphans' \subseteq {o \in orphans : Parent[o] # b} /\ next' \subseteq next \cup orphans
  BY DEF ExistingBlock, TakeNext, TakeNextFrom, history
<1>2. blocks' \subseteq blocks \cup {b}
  BY KeptIsHeld DEF ExistingBlock
<1>3. ~lostTrack' => Height[lastBlock'] >= Height[lastBlock] /\ Height[lastBlock'] >= Height[b]
  <2>1. ~lostTrack => Height[b] <= Height[lastBlock]
    BY <1>1 DEF ChainInv, HeldIsLower
  <2> QED
    BY <1>1, <2>1, ChainAssumption DEF ChainInv, ChainTypes
<1> QED
  BY <1>1, <1>2, <1>3, Accepted DEF ChainInv, ChainTypes

LEMMA ForkStep ==
  ASSUME ChainInv, NEW b \in Block, ForkBlock(b)
  PROVE  ChainInv' /\ lastBlock' = lastBlock
<1>1. /\ UNCHANGED <<lastBlock, saved, lostTrack>> /\ ~(Height[b] > Height[lastBlock])
      /\ orphans' \subseteq {o \in orphans : Parent[o] # b} /\ next' \subseteq next \cup orphans
  BY DEF ForkBlock, Longer, TakeNext, TakeNextFrom, history
<1>2. blocks' \subseteq blocks \cup {b}
  BY KeptIsHeld DEF ForkBlock
<1>3. Height[lastBlock'] >= Height[lastBlock] /\ Height[lastBlock'] >= Height[b]
  BY <1>1, ChainAssumption DEF ChainInv, ChainTypes
<1> QED
  BY <1>1, <1>2, <1>3, Accepted DEF ChainInv, ChainTypes

LEMMA ExtendStep ==
  ASSUME ChainInv, NEW b \in Block, NEW phase \in Progress, ExtendChain(b, phase)
  PROVE  ChainInv' /\ Height[lastBlock'] >= Height[lastBlock]
<1>1. /\ lastBlock' = b /\ UNCHANGED lostTrack /\ Parent[b] = lastBlock
      /\ orphans' \subseteq {o \in orphans : Parent[o] # b} /\ next' \subseteq next \cup orphans
  BY DEF ExtendChain, TakeNextFrom, HeldOrphans, history
<1>2. blocks' \subseteq blocks \cup {b}
  BY KeptIsHeld DEF ExtendChain
<1>3. saved' \subseteq saved \cup blocks \cup {b}
  BY <1>2, SavedIsHeld DEF ExtendChain
<1>4. Height[b] = Height[lastBlock] + 1 /\ Height[b] \in Nat /\ Height[lastBlock] \in Nat
  BY <1>1, ChainAssumption DEF ChainInv, ChainTypes
<1> QED
  BY <1>1, <1>2, <1>3, <1>4, Accepted DEF ChainInv, ChainTypes

LEMMA ReorganizeStep ==
  ASSUME ChainInv, NEW b \in Block, NEW phase \in Progress, Reorganize(b, phase)
  PROVE  ChainInv' /\ Height[lastBlock'] >= Height[lastBlock]
<1>1. /\ lastBlock' = b /\ Height[b] > Height[lastBlock]
      /\ orphans' \subseteq {o \in orphans : Parent[o] # b} /\ next' \subseteq next \cup orphans
  BY DEF Reorganize, Longer, TakeNextFrom, HeldOrphans
<1>2. blocks' \subseteq blocks \cup {b}
  BY KeptIsHeld DEF Reorganize
<1>3. saved' \subseteq saved \cup blocks \cup {b}
  BY <1>2, SavedIsHeld DEF Reorganize
<1>4. lostTrack' \in BOOLEAN /\ (lostTrack => lostTrack')
  <2>1. PICK first : lostTrack' = (lostTrack \/ first)
    BY Zenon DEF Reorganize
  <2> QED
    BY <2>1, Zenon
<1>5. Height[b] \in Nat /\ Height[lastBlock] \in Nat
  BY ChainAssumption DEF ChainInv, ChainTypes
<1> QED
  BY <1>1, <1>2, <1>3, <1>4, <1>5, Accepted DEF ChainInv, ChainTypes

LEMMA RescanStep ==
  ASSUME ChainInv, Rescan
  PROVE  ChainInv'
<1>1. /\ lastBlock' = Checkpoint /\ UNCHANGED <<blocks, orphans, next, saved>>
      /\ lostTrack' = (lostTrack \/ lastBlock # Checkpoint)
  BY DEF Rescan
<1>2. lostTrack' \in BOOLEAN /\ (lostTrack => lostTrack') /\ (lastBlock # Checkpoint => lostTrack')
  BY <1>1, Zenon
<1> QED
  BY <1>1, <1>2, ChainAssumption DEF ChainInv, ChainTypes, HeldIsLower, NoForgottenOrphan

LEMMA RestartStep ==
  ASSUME ChainInv, Restart
  PROVE  ChainInv'
<1>1. UNCHANGED saved /\ next' = {} /\ lostTrack' = (lostTrack \/ lastBlock' # lastBlock)
  BY DEF Restart
<1>2. lostTrack' \in BOOLEAN /\ (~lostTrack' => ~lostTrack /\ lastBlock' = lastBlock)
  BY <1>1, Zenon
<1>3. lastBlock' \in saved \cup {Checkpoint} /\ blocks' \subseteq saved \cup {Checkpoint}
      /\ orphans' \subseteq saved
  BY DEF Restart, Highest, LoadFrom, Transitions, OnePerParent
<1>4. ChainTypes'
  BY <1>1, <1>2, <1>3, ChainAssumption DEF ChainInv, ChainTypes
<1>5. ~lostTrack' => \A x \in saved \cup {Checkpoint} : Height[x] <= Height[lastBlock']
  BY <1>2, ChainAssumption DEF ChainInv, ChainTypes, HeldIsLower
<1> QED
  BY <1>1, <1>3, <1>4, <1>5 DEF ChainInv, HeldIsLower, NoForgottenOrphan

-----------------------------------------------------------------------------
(* Every step *)

\* Rescans and restarts count down; nothing else moves the main chain back.
LEMMA CountsDown ==
  ASSUME BudgetType, Next
  PROVE  BudgetType' /\ (Rescan \/ Restart => budget' # budget)
<1>1. CASE Rescan
  <2>1. budget.rescan > 0 /\ budget' = [budget EXCEPT !.rescan = budget.rescan - 1]
    BY <1>1 DEF Rescan
  <2>2. BudgetType'
    BY <2>1 DEF BudgetType
  <2>3. budget'.rescan = budget.rescan - 1 /\ budget.rescan \in Nat
    BY <2>1 DEF BudgetType
  <2> QED
    BY <2>2, <2>3
<1>2. CASE Restart
  <2>1. budget.restart > 0 /\ budget' = [budget EXCEPT !.restart = budget.restart - 1]
    BY <1>2 DEF Restart
  <2>2. BudgetType'
    BY <2>1 DEF BudgetType
  <2>3. budget'.restart = budget.restart - 1 /\ budget.restart \in Nat
    BY <2>1 DEF BudgetType
  <2> QED
    BY <2>2, <2>3
<1>3. CASE \E lost \in SUBSET ToSet(wallet.list) : DropUnrelayed(lost)
  <2>1. budget.drop > 0 /\ budget' = [budget EXCEPT !.drop = budget.drop - 1]
    BY <1>3 DEF DropUnrelayed
  <2>2. BudgetType'
    BY <2>1 DEF BudgetType
  <2> QED
    BY <2>2, <1>1, <1>2
<1>4. CASE UNCHANGED budget
  BY <1>4, <1>1, <1>2 DEF BudgetType
<1>5. ASSUME NEW b \in Block, NEW phase \in Progress, ExtendChain(b, phase) \/ Reorganize(b, phase)
      PROVE  UNCHANGED budget
  BY <1>5 DEF ExtendChain, Reorganize, history
<1>6. ASSUME NEW b \in Block,
             \/ OrphanBlock(b) \/ InvalidBlock(b) \/ ExistingBlock(b)
             \/ BlockAhead(b) \/ ForkBlock(b)
      PROVE  UNCHANGED budget
  BY <1>6 DEF OrphanBlock, InvalidBlock, ExistingBlock, BlockAhead, ForkBlock, history
<1>7. CASE \/ \E t \in NetTx : RelayTx(t)
           \/ \E t \in Tx, verified \in BOOLEAN : MarkVerified(t, verified)
           \/ \E t \in OwnTx, amount \in Amounts, swap \in BOOLEAN : CreateTransaction(t, amount, swap)
           \/ \E t \in OwnTx : RequestTx(t)
           \/ LoadBloomFilter
           \/ \E rate \in Fees : SetFeePerKb(rate)
  <2>1. UNCHANGED budget
    BY <1>7 DEF RelayTx, MarkVerified, CreateTransaction, Create, RequestTx, LoadBloomFilter,
                SetFeePerKb, chainVars, history
  <2> QED
    BY <2>1, <1>4
<1> QED
  BY <1>1, <1>2, <1>3, <1>4, <1>5, <1>6, <1>7 DEF Next

LEMMA NextStep ==
  ASSUME ChainInv, BudgetType, Next
  PROVE  ChainInv' /\ (Height[lastBlock'] >= Height[lastBlock] \/ budget' # budget)
<1>1. Height[lastBlock] \in Nat
  BY ChainAssumption DEF ChainInv, ChainTypes
<1>2. lastBlock' = lastBlock => Height[lastBlock'] >= Height[lastBlock]
  BY <1>1
<1>3. CASE Rescan \/ Restart
  BY <1>3, CountsDown, RescanStep, RestartStep
<1>4. CASE \E b \in Block, phase \in Progress : ExtendChain(b, phase) \/ Reorganize(b, phase)
  BY <1>4, ExtendStep, ReorganizeStep
<1>5. CASE \E b \in Block : \/ OrphanBlock(b) \/ InvalidBlock(b) \/ ExistingBlock(b)
                            \/ BlockAhead(b) \/ ForkBlock(b)
  BY <1>5, <1>2, OrphanStep, InvalidStep, ExistingStep, AheadStep, ForkStep
<1>6. CASE \/ \E t \in NetTx : RelayTx(t)
           \/ \E t \in Tx, verified \in BOOLEAN : MarkVerified(t, verified)
           \/ \E lost \in SUBSET ToSet(wallet.list) : DropUnrelayed(lost)
           \/ \E t \in OwnTx, amount \in Amounts, swap \in BOOLEAN : CreateTransaction(t, amount, swap)
           \/ \E t \in OwnTx : RequestTx(t)
           \/ LoadBloomFilter
           \/ \E rate \in Fees : SetFeePerKb(rate)
  BY <1>6, <1>2, WalletStep
<1> QED
  BY <1>3, <1>4, <1>5, <1>6, Zenon DEF Next

LEMMA Stutter ==
  ASSUME ChainInv, BudgetType, UNCHANGED vars
  PROVE  ChainInv' /\ BudgetType'
<1>1. UNCHANGED <<blocks, lastBlock, orphans, next, saved, budget, lostTrack>>
  BY DEF vars, chainVars, history
<1> QED
  BY <1>1 DEF ChainInv, ChainTypes, HeldIsLower, NoForgottenOrphan, BudgetType

\* The invariant of the chain: types, the height of everything held or saved,
\* and the orphans.
THEOREM ChainInvariant == Spec => [](ChainInv /\ BudgetType)
<1>1. ChainInv /\ BudgetType /\ [Next]_vars => (ChainInv /\ BudgetType)'
  BY NextStep, CountsDown, Stutter
<1> QED
  BY InitInv, <1>1, PTL DEF Spec

\* _peerRelayedBlock follows the longest branch: while the wallet has been told
\* of every move, no block that is held is above lastBlock.
THEOREM ChainIsLongest == Spec => []FollowsLongest
<1>1. ChainInv => FollowsLongest
  BY DEF ChainInv, HeldIsLower, FollowsLongest
<1> QED
  BY <1>1, ChainInvariant, PTL

\* No orphan that would lengthen the chain waits for a block that is held.
THEOREM NoOrphanLeft == Spec => []NoForgottenOrphan
<1>1. ChainInv => NoForgottenOrphan
  BY DEF ChainInv
<1> QED
  BY <1>1, ChainInvariant, PTL

\* Only a rescan or a restart moves the chain back.
THEOREM ChainGrows == Spec => NeverShorter
<1>1. ChainInv /\ BudgetType /\ [Next]_vars
        => [Height[lastBlock'] >= Height[lastBlock] \/ budget' # budget]_vars
  BY NextStep
<1> QED
  BY <1>1, ChainInvariant, PTL DEF Spec, NeverShorter

-----------------------------------------------------------------------------
(* The tree of blocks *)

\* Sets that hold the previous block of each of their blocks.
Closed == {s \in SUBSET Block : \A y \in s : Parent[y] # NoBlock => Parent[y] \in s}

\* Branch is what its definition says: the smallest closed sets satisfy its equation.
LEMMA BranchEquation ==
  \A b \in Block : Branch[b] = {b} \cup (IF Parent[b] = NoBlock THEN {} ELSE Branch[Parent[b]])
<1> DEFINE C(b) == {x \in Block : \A s \in Closed : b \in s => x \in s}
           G == [b \in Block |-> C(b)]
           RHS(f) == [b \in Block |-> {b} \cup (IF Parent[b] = NoBlock THEN {} ELSE f[Parent[b]])]
<1>1. \A b \in Block : Parent[b] # NoBlock => Parent[b] \in Block
  BY ChainAssumption
<1>2. \A b \in Block : b \in C(b) /\ C(b) \in Closed
  BY <1>1 DEF Closed
<1>3. ASSUME NEW b \in Block, Parent[b] = NoBlock PROVE C(b) = {b}
  <2>1. {b} \in Closed
    BY <1>3 DEF Closed
  <2> QED
    BY <1>2, <2>1
<1>4. ASSUME NEW b \in Block, Parent[b] # NoBlock PROVE C(b) = {b} \cup C(Parent[b])
  <2>1. Parent[b] \in Block
    BY <1>1, <1>4
  <2>2. {b} \cup C(Parent[b]) \in Closed
    <3>1. Parent[b] \in C(Parent[b]) /\ C(Parent[b]) \in Closed
      BY <1>2, <2>1
    <3> HIDE DEF C
    <3> QED
      BY <3>1 DEF Closed
  <2>3. C(b) \subseteq {b} \cup C(Parent[b])
    <3> SUFFICES ASSUME NEW x \in C(b) PROVE x \in {b} \cup C(Parent[b])
      OBVIOUS
    <3> DEFINE S == {b} \cup C(Parent[b])
    <3>1. S \in Closed /\ b \in S
      BY <2>2
    <3> HIDE DEF S
    <3>2. x \in S
      BY <3>1
    <3> QED
      BY <3>2 DEF S
  <2>4. C(Parent[b]) \subseteq C(b)
    BY <1>4, <2>1 DEF Closed
  <2>5. b \in C(b)
    BY <1>2
  <2> HIDE DEF C
  <2> QED
    BY <2>3, <2>4, <2>5
<1>5. G = RHS(G)
  <2>1. \A b \in Block : G[b] = {b} \cup (IF Parent[b] = NoBlock THEN {} ELSE G[Parent[b]])
    <3> HIDE DEF C
    <3> QED
      BY <1>1, <1>3, <1>4
  <2>2. G = [b \in Block |-> G[b]]
    <3> HIDE DEF C
    <3> QED
      OBVIOUS
  <2> HIDE DEF G
  <2> QED
    BY <2>1, <2>2, Zenon
<1> HIDE DEF G
<1>6. Branch = CHOOSE f : f = RHS(f)
  BY Zenon DEF Branch
<1>7. Branch = RHS(Branch)
  <2> HIDE DEF RHS
  <2> QED
    BY <1>5, <1>6, Zenon
<1> DEFINE E(b) == {b} \cup (IF Parent[b] = NoBlock THEN {} ELSE Branch[Parent[b]])
<1>8. Branch = [b \in Block |-> E(b)]
  BY <1>7, Zenon
<1>9. \A b \in Block : Branch[b] = E(b)
  <2> HIDE DEF E
  <2> QED
    BY <1>8
<1> QED
  BY <1>9

\* A branch is a block, and the branch of the block before it, one lower.
LEMMA BranchBelow ==
  /\ Branch[Checkpoint] = {Checkpoint}
  /\ \A b \in Block \ {Checkpoint} :
        /\ Branch[b] = {b} \cup Branch[Parent[b]]
        /\ Parent[b] \in Block
        /\ Height[b] \in Nat /\ Height[Parent[b]] \in Nat /\ Height[b] = Height[Parent[b]] + 1
<1>1. \A b \in Block \ {Checkpoint} : Parent[b] \in Block /\ Parent[b] # NoBlock
  BY ChainAssumption
<1>2. Branch[Checkpoint] = {Checkpoint}
  BY BranchEquation, ChainAssumption
<1>3. \A b \in Block \ {Checkpoint} : Branch[b] = {b} \cup Branch[Parent[b]]
  BY <1>1, BranchEquation
<1>4. \A b \in Block \ {Checkpoint} :
        Height[b] \in Nat /\ Height[Parent[b]] \in Nat /\ Height[b] = Height[Parent[b]] + 1
  BY <1>1, ChainAssumption
<1> QED
  BY <1>1, <1>2, <1>3, <1>4

\* Induction over the tree: a set of blocks that holds the checkpoint, and each
\* block whose previous block it holds, holds all blocks.
LEMMA TreeInduction ==
  ASSUME NEW S, Checkpoint \in S,
         \A b \in Block \ {Checkpoint} : Parent[b] \in S => b \in S
  PROVE  \A b \in Block : b \in S
<1> SUFFICES ASSUME NEW b \in Block, b \notin S PROVE FALSE
  OBVIOUS
<1> DEFINE T == {n \in Nat : \E x \in Block : x \notin S /\ Height[x] = n}
<1>1. T \in SUBSET Nat /\ T # {}
  <2>1. Height[b] \in Nat
    BY ChainAssumption
  <2> QED
    BY <2>1
<1>2. PICK m \in T : \A n \in T : m <= n
  <2> HIDE DEF T
  <2> QED
    BY <1>1, SmallestNumber
<1>3. PICK x \in Block : x \notin S /\ Height[x] = m
  BY <1>2
<1>4. x # Checkpoint
  BY <1>3
<1>5. Parent[x] \in Block /\ Height[Parent[x]] \in Nat /\ m = Height[Parent[x]] + 1
  BY <1>3, <1>4, BranchBelow
<1>6. Parent[x] \notin S
  BY <1>3, <1>4
<1>7. Height[Parent[x]] \in T
  BY <1>5, <1>6
<1> QED
  BY <1>2, <1>5, <1>7

\* The other blocks of a branch are lower, and there is one at every height.
LEMMA BranchHeights ==
  \A b \in Block :
     /\ Branch[b] \subseteq Block /\ b \in Branch[b]
     /\ \A x \in Branch[b] : x = b \/ Height[x] < Height[b]
     /\ \A h \in 0 .. Height[b] : \E x \in Branch[b] : Height[x] = h
<1> DEFINE S == {b \in Block :
                   /\ Branch[b] \subseteq Block /\ b \in Branch[b]
                   /\ \A x \in Branch[b] : x = b \/ Height[x] < Height[b]
                   /\ \A h \in 0 .. Height[b] : \E x \in Branch[b] : Height[x] = h}
<1>0. \A b \in Block : Height[b] \in Nat
  BY ChainAssumption
<1>1. Checkpoint \in S
  BY BranchBelow, ChainAssumption
<1>2. ASSUME NEW b \in Block \ {Checkpoint}, Parent[b] \in S PROVE b \in S
  <2>1. /\ Branch[b] = {b} \cup Branch[Parent[b]] /\ Parent[b] \in Block
        /\ Height[b] \in Nat /\ Height[Parent[b]] \in Nat /\ Height[b] = Height[Parent[b]] + 1
    BY BranchBelow
  <2>2. Branch[Parent[b]] \subseteq Block
    BY <1>2
  <2>3. \A x \in Branch[Parent[b]] : Height[x] < Height[b]
    <3> TAKE x \in Branch[Parent[b]]
    <3>1. x = Parent[b] \/ Height[x] < Height[Parent[b]]
      BY <1>2
    <3>2. Height[x] \in Nat
      BY <1>0, <2>2
    <3> QED
      BY <2>1, <3>1, <3>2
  <2>4. \A h \in 0 .. Height[b] : \E x \in Branch[b] : Height[x] = h
    <3> TAKE h \in 0 .. Height[b]
    <3>1. CASE h = Height[b]
      BY <2>1, <3>1
    <3>2. CASE h # Height[b]
      <4>1. h \in 0 .. Height[Parent[b]]
        BY <2>1, <3>2
      <4>2. PICK x \in Branch[Parent[b]] : Height[x] = h
        BY <1>2, <4>1
      <4> QED
        BY <2>1, <4>2
    <3> QED
      BY <3>1, <3>2
  <2> QED
    BY <2>1, <2>2, <2>3, <2>4
<1>3. \A b \in Block : b \in S
  <2> HIDE DEF S
  <2> QED
    BY <1>1, <1>2, TreeInduction
<1> QED
  BY <1>3

\* Two blocks of a branch are on one branch, the lower one below the other.
LEMMA BranchIsLine ==
  \A b \in Block : \A y \in Branch[b] :
     /\ Branch[y] \subseteq Branch[b]
     /\ \A x \in Branch[b] : Height[x] <= Height[y] => x \in Branch[y]
<1> DEFINE S == {b \in Block : \A y \in Branch[b] :
                   /\ Branch[y] \subseteq Branch[b]
                   /\ \A x \in Branch[b] : Height[x] <= Height[y] => x \in Branch[y]}
<1>1. Checkpoint \in S
  BY BranchBelow, ChainAssumption
<1>2. ASSUME NEW b \in Block \ {Checkpoint}, Parent[b] \in S PROVE b \in S
  <2>1. Branch[b] = {b} \cup Branch[Parent[b]] /\ Parent[b] \in Block
    BY BranchBelow
  <2> SUFFICES ASSUME NEW y \in Branch[b]
               PROVE  /\ Branch[y] \subseteq Branch[b]
                      /\ \A x \in Branch[b] : Height[x] <= Height[y] => x \in Branch[y]
    OBVIOUS
  <2>2. CASE y = b
    BY <2>2
  <2>3. CASE y # b
    <3>1. y \in Branch[Parent[b]]
      BY <2>1, <2>3
    <3>2. Branch[y] \subseteq Branch[b]
      BY <1>2, <2>1, <3>1
    <3>3. ASSUME NEW x \in Branch[b], Height[x] <= Height[y] PROVE x \in Branch[y]
      <4>1. x # b
        <5>1. Height[y] < Height[b] /\ y \in Block /\ Height[y] \in Nat /\ Height[b] \in Nat
          BY <2>3, BranchHeights, ChainAssumption
        <5> QED
          BY <3>3, <5>1
      <4>2. x \in Branch[Parent[b]]
        BY <2>1, <4>1
      <4> QED
        BY <1>2, <3>1, <3>3, <4>2
    <3> QED
      BY <3>2, <3>3
  <2> QED
    BY <2>2, <2>3
<1>3. \A b \in Block : b \in S
  <2> HIDE DEF S
  <2> QED
    BY <1>1, <1>2, TreeInduction
<1> QED
  BY <1>3

-----------------------------------------------------------------------------
(* The blocks of the present interval *)

\* Numbers and the intervals they are in.
LEMMA Intervals ==
  ASSUME NEW m \in Nat, NEW n \in Nat
  PROVE  /\ m \div Interval \in Nat /\ m % Interval \in 0 .. Interval - 1
         /\ m = Interval * (m \div Interval) + (m % Interval)
         /\ m \div Interval < n \div Interval
              => Interval * (m \div Interval) + Interval <= Interval * (n \div Interval)
<1>0. Interval \in Nat /\ Interval > 0
  BY ChainAssumption
<1>1. m \div Interval \in Nat /\ n \div Interval \in Nat
  BY <1>0
<1>2. m % Interval \in 0 .. Interval - 1
  BY <1>0
<1>3. m = Interval * (m \div Interval) + (m % Interval)
  BY <1>0
<1> DEFINE p == m \div Interval
           q == n \div Interval
<1>4. p < q => Interval * p + Interval <= Interval * q
  <2>1. p \in Nat /\ q \in Nat
    BY <1>1
  <2> HIDE DEF p, q
  <2> SUFFICES ASSUME p < q PROVE Interval * p + Interval <= Interval * q
    OBVIOUS
  <2>2. Interval * (p + 1) = Interval * p + Interval
    BY <1>0, <2>1
  <2>3. Interval * (p + 1) <= Interval * q
    BY <1>0, <2>1
  <2> QED
    BY <2>2, <2>3
<1> QED
  BY <1>1, <1>2, <1>3, <1>4

LEMMA IntervalFacts ==
  ASSUME NEW k \in Nat, NEW m \in Nat, NEW n \in Nat
  PROVE  /\ m + Interval <= n => m \div Interval # n \div Interval
         /\ m < n /\ n % Interval = 0 => m \div Interval # n \div Interval
         /\ n = m + 1 /\ n % Interval # 0 => m \div Interval = n \div Interval
         /\ k % Interval = 0 /\ k <= n /\ m \div Interval = n \div Interval => k <= m
         /\ m <= k /\ k <= n /\ m \div Interval = n \div Interval
              => k \div Interval = n \div Interval
<1> DEFINE kq == k \div Interval
           mq == m \div Interval
           nq == n \div Interval
           kr == k % Interval
           mr == m % Interval
           nr == n % Interval
           kp == Interval * kq
           mp == Interval * mq
           np == Interval * nq
<1>0. Interval \in Nat /\ Interval > 0
  BY ChainAssumption
<1>1. /\ kq \in Nat /\ mq \in Nat /\ nq \in Nat
      /\ kr \in 0 .. Interval - 1 /\ mr \in 0 .. Interval - 1 /\ nr \in 0 .. Interval - 1
      /\ k = kp + kr /\ m = mp + mr /\ n = np + nr
  BY Intervals
<1>2. /\ kq < nq => kp + Interval <= np
      /\ nq < kq => np + Interval <= kp
      /\ mq < nq => mp + Interval <= np
      /\ nq < mq => np + Interval <= mp
  BY Intervals
<1>3. kp \in Nat /\ mp \in Nat /\ np \in Nat
  <2> HIDE DEF kq, mq, nq
  <2> QED
    BY <1>0, <1>1
<1>4. (mq = nq => mp = np) /\ (kq = nq => kp = np)
  OBVIOUS
<1> HIDE DEF kq, mq, nq, kr, mr, nr, kp, mp, np
<1>5. /\ m + Interval <= n => mq # nq
      /\ m < n /\ nr = 0 => mq # nq
      /\ n = m + 1 /\ nr # 0 => mq = nq
      /\ kr = 0 /\ k <= n /\ mq = nq => k <= m
      /\ m <= k /\ k <= n /\ mq = nq => kq = nq
  BY <1>0, <1>1, <1>2, <1>3, <1>4
<1> QED
  BY <1>5 DEF kq, mq, nq, kr, mr, nr

Present(x) == Height[x] \div Interval = Height[lastBlock] \div Interval

\* The strengthening of IntervalHeld, until there was a rescan: nothing that is held is
\* above the main chain, and not only the main chain but every branch that is held and
\* has come to the present interval is held back to where that interval begins.
HeldInv ==
    budget.rescan = MaxRescans =>
        /\ lastBlock \in blocks
        /\ \A x \in blocks : Height[x] <= Height[lastBlock]
        /\ \A x \in blocks : Present(x) => \A y \in Branch[x] : Present(y) => y \in blocks

\* A transition that is verified frees only blocks that are a whole interval lower.
LEMMA KeepsInterval ==
  ASSUME ChainTypes, NEW b \in Block, Parent[b] \in blocks,
         NEW x \in blocks, x \notin KeptBlocks(b)
  PROVE  Height[x] + Interval < Height[b]
<1>1. b # Checkpoint /\ Height[b] \in Nat /\ Height[b] > 0 /\ Interval \in Nat \ {0}
  <2>1. b # Checkpoint
    BY ChainAssumption DEF ChainTypes
  <2> QED
    BY <2>1, BranchBelow, ChainAssumption
<1>2. Height[b] % Interval = 0 /\ x \in Walk(blocks, TransitionBlock(b))
  BY DEF KeptBlocks
<1>3. Height[b] - Interval \in 0 .. Height[b]
  <2> DEFINE q == Height[b] \div Interval
             h == Height[b]
  <2>1. q \in Nat /\ h = Interval * q
    <3>1. q \in Nat /\ h = Interval * q + (Height[b] % Interval)
      BY <1>1, Intervals
    <3>2. Interval * q \in Nat
      <4> HIDE DEF q
      <4> QED
        BY <1>1, <3>1
    <3> QED
      BY <1>2, <3>1, <3>2
  <2>2. h \in Nat /\ h > 0
    BY <1>1
  <2> HIDE DEF q, h
  <2>3. q # 0
    BY <1>1, <2>1, <2>2
  <2>4. Interval * q >= Interval
    BY <1>1, <2>1, <2>3
  <2>5. h >= Interval
    BY <2>1, <2>4
  <2>6. h - Interval \in 0 .. h
    BY <1>1, <2>2, <2>5
  <2> QED
    BY <2>6 DEF h
<1>4. \E t \in Branch[b] : Height[t] = Height[b] - Interval
  BY <1>3, BranchHeights
<1> DEFINE t == TransitionBlock(b)
<1>5. t \in Branch[b] /\ Height[t] = Height[b] - Interval
  BY <1>4, Zenon DEF TransitionBlock
<1>6. t \in Block
  BY <1>5, BranchHeights
<1>7. x \in Branch[t] \ {t}
  BY <1>2 DEF Walk
<1> HIDE DEF t
<1>8. Height[x] < Height[t] /\ x \in Block /\ Height[x] \in Nat
  BY <1>6, <1>7, BranchHeights, ChainAssumption
<1> QED
  BY <1>1, <1>5, <1>8

RescansLeft == budget.rescan <= MaxRescans

\* Only a rescan is counted as one.
LEMMA RescansCount ==
  ASSUME BudgetType, Next
  PROVE  /\ Rescan => budget'.rescan = budget.rescan - 1
         /\ ~Rescan => budget'.rescan = budget.rescan
<1>1. Rescan => budget'.rescan = budget.rescan - 1
  BY DEF Rescan, BudgetType
<1>2. Restart => budget'.rescan = budget.rescan
  BY DEF Restart, BudgetType
<1>3. (\E lost \in SUBSET ToSet(wallet.list) : DropUnrelayed(lost)) => budget'.rescan = budget.rescan
  BY DEF DropUnrelayed, BudgetType
<1>4. ASSUME NEW b \in Block,
             \/ \E phase \in Progress : ExtendChain(b, phase) \/ Reorganize(b, phase)
             \/ OrphanBlock(b) \/ InvalidBlock(b) \/ ExistingBlock(b)
             \/ BlockAhead(b) \/ ForkBlock(b)
      PROVE  UNCHANGED budget
  BY <1>4 DEF ExtendChain, Reorganize, OrphanBlock, InvalidBlock, ExistingBlock, BlockAhead,
              ForkBlock, history
<1>5. ASSUME \/ \E t \in NetTx : RelayTx(t)
             \/ \E t \in Tx, verified \in BOOLEAN : MarkVerified(t, verified)
             \/ \E t \in OwnTx, amount \in Amounts, swap \in BOOLEAN : CreateTransaction(t, amount, swap)
             \/ \E t \in OwnTx : RequestTx(t)
             \/ LoadBloomFilter
             \/ \E rate \in Fees : SetFeePerKb(rate)
      PROVE  UNCHANGED budget
  BY <1>5 DEF RelayTx, MarkVerified, CreateTransaction, Create, RequestTx, LoadBloomFilter,
              SetFeePerKb, chainVars, history
<1>6. Rescan \/ budget'.rescan = budget.rescan
  BY <1>2, <1>3, <1>4, <1>5, Zenon DEF Next
<1> QED
  BY <1>1, <1>6

\* What every way of dealing with a block b on a block that is held comes down to.
LEMMA HeldAccepts ==
  ASSUME ChainTypes, HeldInv, NEW b \in Block, Parent[b] \in blocks, UNCHANGED budget,
         KeptBlocks(b) \subseteq blocks', blocks' \subseteq blocks \cup {b},
         \/ lastBlock' = lastBlock
         \/ lastBlock' = b /\ b \in blocks' /\ Height[b] > Height[lastBlock],
         b \in blocks' => Height[b] <= Height[lastBlock']
  PROVE  HeldInv'
<1> SUFFICES ASSUME budget'.rescan = MaxRescans
             PROVE  /\ lastBlock' \in blocks'
                    /\ \A x \in blocks' : Height[x] <= Height[lastBlock']
                    /\ \A x \in blocks' : Present(x)' =>
                          \A y \in Branch[x] : Present(y)' => y \in blocks'
  BY DEF HeldInv, Present
<1>0. /\ lastBlock \in blocks
      /\ \A x \in blocks : Height[x] <= Height[lastBlock]
      /\ \A x \in blocks : Present(x) => \A y \in Branch[x] : Present(y) => y \in blocks
  BY DEF HeldInv
<1>1. /\ blocks \subseteq Block /\ lastBlock \in Block /\ lastBlock' \in Block
      /\ blocks' \subseteq Block
      /\ \A x \in Block : Height[x] \in Nat
      /\ Interval \in Nat \ {0}
  BY ChainAssumption DEF ChainTypes
<1>2. b # Checkpoint /\ Height[b] = Height[Parent[b]] + 1 /\ Branch[b] = {b} \cup Branch[Parent[b]]
  <2>1. b # Checkpoint
    BY <1>1, ChainAssumption
  <2> QED
    BY <2>1, BranchBelow
<1>3. Height[b] <= Height[lastBlock] + 1 /\ Parent[b] \in Block
  BY <1>0, <1>1, <1>2
<1>4. ASSUME NEW x \in blocks, Present(x) PROVE x \in blocks'
  <2> SUFFICES ASSUME x \notin KeptBlocks(b) PROVE FALSE
    OBVIOUS
  <2>1. Height[x] + Interval < Height[b]
    BY KeepsInterval
  <2>2. Height[x] + Interval <= Height[lastBlock]
    BY <1>1, <1>3, <2>1
  <2>3. Height[x] \in Nat /\ Height[lastBlock] \in Nat
    BY <1>1
  <2> QED
    BY <1>4, <2>2, <2>3, IntervalFacts DEF Present
<1>5. lastBlock' \in blocks'
  <2>1. Present(lastBlock)
    BY DEF Present
  <2> QED
    BY <1>0, <1>4, <2>1
<1>6. \A x \in blocks' : Height[x] <= Height[lastBlock']
  <2> TAKE x \in blocks'
  <2>1. Height[lastBlock] <= Height[lastBlock']
    BY <1>1
  <2>2. CASE x = b
    BY <2>2
  <2>3. CASE x \in blocks
    BY <1>0, <1>1, <2>1, <2>3
  <2> QED
    BY <2>2, <2>3
<1>7. ASSUME NEW x \in blocks', Present(x)', NEW y \in Branch[x], Present(y)' PROVE y \in blocks'
  <2>0. /\ x \in Block /\ y \in Block /\ Height[x] \in Nat /\ Height[y] \in Nat
        /\ Height[lastBlock] \in Nat /\ Height[lastBlock'] \in Nat /\ Height[b] \in Nat
        /\ y = x \/ Height[y] < Height[x]
        /\ Height[x] <= Height[lastBlock']
    BY <1>1, <1>6, BranchHeights
  <2>1. CASE lastBlock' = b /\ Height[b] % Interval = 0 /\ lastBlock' # lastBlock
    <3>1. y # x => Height[y] < Height[lastBlock']
      BY <2>0
    <3>2. y = x
      BY <1>7, <2>0, <2>1, <3>1, IntervalFacts DEF Present
    <3> QED
      BY <3>2
  <2>2. CASE ~(lastBlock' = b /\ Height[b] % Interval = 0 /\ lastBlock' # lastBlock)
    <3>1. Height[lastBlock'] \div Interval = Height[lastBlock] \div Interval
      <4>1. CASE lastBlock' = lastBlock
        BY <4>1
      <4>2. CASE lastBlock' # lastBlock
        <5>1. lastBlock' = b /\ Height[b] = Height[lastBlock] + 1 /\ Height[b] % Interval # 0
          BY <1>3, <2>0, <2>2, <4>2
        <5>2. Height[lastBlock] \div Interval = Height[b] \div Interval
          BY <2>0, <5>1, IntervalFacts
        <5> QED
          BY <5>1, <5>2
      <4> QED
        BY <4>1, <4>2
    <3>2. Present(x) /\ Present(y)
      BY <1>7, <3>1 DEF Present
    <3>3. CASE x \in blocks
      <4>1. y \in blocks
        BY <1>0, <3>2, <3>3
      <4> QED
        BY <1>4, <3>2, <4>1
    <3>4. CASE x = b /\ y # b
      <4>1. y \in Branch[Parent[b]]
        BY <1>2, <3>4
      <4>2. Height[y] <= Height[Parent[b]] /\ Height[Parent[b]] <= Height[x]
        BY <1>1, <1>2, <1>3, <2>0, <3>4, <4>1, BranchHeights
      <4>3. Present(Parent[b])
        <5>1. Height[Parent[b]] \in Nat /\ Height[y] \div Interval = Height[x] \div Interval
          BY <1>1, <1>3, <3>2 DEF Present
        <5>2. Height[Parent[b]] \div Interval = Height[x] \div Interval
          BY <2>0, <4>2, <5>1, IntervalFacts
        <5> QED
          BY <3>2, <5>2 DEF Present
      <4>4. y \in blocks
        BY <1>0, <3>2, <4>1, <4>3
      <4> QED
        BY <1>4, <3>2, <4>4
    <3>5. CASE x = b /\ y = b
      BY <3>5
    <3> QED
      BY <3>3, <3>4, <3>5
  <2> QED
    BY <2>1, <2>2
<1> QED
  BY <1>5, <1>6, <1>7

LEMMA HeldSame ==
  ASSUME HeldInv, UNCHANGED <<blocks, lastBlock>>, budget'.rescan = budget.rescan
  PROVE  HeldInv'
  BY DEF HeldInv, Present

LEMMA HeldBlocks ==
  ASSUME ChainTypes, HeldInv, NEW b \in Block,
         \/ OrphanBlock(b) \/ InvalidBlock(b) \/ ExistingBlock(b)
         \/ BlockAhead(b) \/ ForkBlock(b)
         \/ \E phase \in Progress : ExtendChain(b, phase)
         \/ \E phase \in Progress : Reorganize(b, phase)
  PROVE  HeldInv'
<1>0. \A x \in Block : Height[x] \in Nat
  BY ChainAssumption
<1>1. KeptBlocks(b) \subseteq blocks
  BY KeptIsHeld
<1>2. CASE budget.rescan # MaxRescans
  <2>1. UNCHANGED budget
    BY DEF OrphanBlock, InvalidBlock, ExistingBlock, BlockAhead, ForkBlock, ExtendChain,
           Reorganize, history
  <2> QED
    BY <1>2, <2>1 DEF HeldInv
<1>3. CASE budget.rescan = MaxRescans
  <2>0. lastBlock \in blocks /\ lastBlock \in Block
    BY <1>3 DEF HeldInv, ChainTypes
  <2>1. CASE OrphanBlock(b)
    BY <2>1, HeldSame DEF OrphanBlock, history
  <2>2. CASE InvalidBlock(b) \/ BlockAhead(b)
    <3>1. /\ Parent[b] \in blocks /\ blocks' = KeptBlocks(b) /\ UNCHANGED <<lastBlock, budget>>
      BY <2>2 DEF InvalidBlock, BlockAhead, history
    <3>2. b \in blocks' => Height[b] <= Height[lastBlock']
      BY <1>1, <1>3, <3>1 DEF HeldInv
    <3> QED
      BY <1>1, <3>1, <3>2, HeldAccepts
  <2>3. CASE ExistingBlock(b)
    <3>1. /\ Parent[b] \in blocks /\ blocks' = KeptBlocks(b) \cup {b} /\ b \in blocks
          /\ UNCHANGED <<lastBlock, budget>>
      BY <2>3 DEF ExistingBlock, history
    <3>2. Height[b] <= Height[lastBlock']
      BY <1>3, <3>1 DEF HeldInv
    <3> QED
      BY <1>1, <3>1, <3>2, HeldAccepts
  <2>4. CASE ForkBlock(b)
    <3>1. /\ Parent[b] \in blocks /\ blocks' = KeptBlocks(b) \cup {b}
          /\ UNCHANGED <<lastBlock, budget>> /\ ~(Height[b] > Height[lastBlock])
      BY <2>4 DEF ForkBlock, OnFork, Longer, history
    <3>2. Height[b] <= Height[lastBlock']
      BY <1>0, <2>0, <3>1
    <3> QED
      BY <1>1, <3>1, <3>2, HeldAccepts
  <2>5. CASE \E phase \in Progress : ExtendChain(b, phase)
    <3>1. /\ Parent[b] = lastBlock /\ blocks' = KeptBlocks(b) \cup {b}
          /\ lastBlock' = b /\ UNCHANGED budget
      BY <2>5 DEF ExtendChain, history
    <3>2. Height[b] > Height[lastBlock] /\ Height[b] <= Height[lastBlock']
      <4>1. b # Checkpoint
        BY <2>0, <3>1, ChainAssumption
      <4> QED
        BY <3>1, <4>1, BranchBelow
    <3> QED
      BY <1>1, <2>0, <3>1, <3>2, HeldAccepts
  <2>6. CASE \E phase \in Progress : Reorganize(b, phase)
    <3>1. /\ Parent[b] \in blocks /\ blocks' = KeptBlocks(b) \cup {b}
          /\ lastBlock' = b /\ Height[b] > Height[lastBlock] /\ UNCHANGED budget
      BY <2>6 DEF Reorganize, OnFork, Longer
    <3>2. Height[b] <= Height[lastBlock']
      BY <1>0, <3>1
    <3> QED
      BY <1>1, <3>1, <3>2, HeldAccepts
  <2> QED
    BY <2>1, <2>2, <2>3, <2>4, <2>5, <2>6
<1> QED
  BY <1>2, <1>3

\* A restart loads whole intervals: from a transition on, each block with all the
\* saved blocks between.
LEMMA HeldRestart == ChainTypes /\ HeldInv /\ Restart => HeldInv'
<1> SUFFICES ASSUME ChainTypes, HeldInv, Restart, budget'.rescan = MaxRescans
             PROVE  /\ lastBlock' \in blocks'
                    /\ \A x \in blocks' : Height[x] <= Height[lastBlock']
                    /\ \A x \in blocks' : Present(x)' =>
                          \A y \in Branch[x] : Present(y)' => y \in blocks'
  BY DEF HeldInv, Present
<1>0. /\ \A x \in Block : Height[x] \in Nat
      /\ Checkpoint \in Block /\ Height[Checkpoint] = 0 /\ saved \subseteq Block
  BY ChainAssumption DEF ChainTypes
<1>1. CASE blocks' = {Checkpoint} /\ lastBlock' = Checkpoint
  BY <1>0, <1>1, BranchBelow
<1>2. ASSUME NEW top \in Transitions, NEW last \in Highest(LoadFrom(top)),
             blocks' = {Checkpoint} \cup LoadFrom(top), lastBlock' = last
      PROVE  /\ lastBlock' \in blocks'
             /\ \A x \in blocks' : Height[x] <= Height[lastBlock']
             /\ \A x \in blocks' : Present(x)' =>
                   \A y \in Branch[x] : Present(y)' => y \in blocks'
  <2>1. /\ last \in LoadFrom(top) /\ \A x \in LoadFrom(top) : Height[x] <= Height[last]
        /\ LoadFrom(top) \subseteq Block /\ last \in Block
        /\ top \in Block /\ Height[top] % Interval = 0 /\ top \in Branch[last]
    BY <1>0, <1>2 DEF Highest, LoadFrom, Transitions
  <2>2. Height[top] <= Height[last]
    BY <1>0, <2>1, BranchHeights
  <2>3. \A x \in blocks' : Height[x] <= Height[lastBlock']
    BY <1>0, <1>2, <2>1
  <2>4. ASSUME NEW x \in LoadFrom(top), NEW y \in Branch[x], Present(y)'
        PROVE  y \in LoadFrom(top)
    <3>1. /\ x \in Block /\ top \in Branch[x]
          /\ \A z \in Branch[x] : Height[z] >= Height[top] => z \in saved
      BY <2>1 DEF LoadFrom
    <3>2. y \in Block
      BY <3>1, BranchHeights
    <3>3. Height[y] \in Nat /\ Height[top] \in Nat /\ Height[last] \in Nat
      BY <1>0, <2>1, <3>2
    <3>4. Height[top] <= Height[y]
      <4>1. Height[y] \div Interval = Height[last] \div Interval
        BY <1>2, <2>4 DEF Present
      <4> QED
        BY <2>1, <2>2, <3>3, <4>1, IntervalFacts
    <3>5. y \in saved
      BY <3>1, <3>3, <3>4
    <3>6. top \in Branch[y] /\ Branch[y] \subseteq Branch[x]
      BY <3>1, <3>4, BranchIsLine
    <3> QED
      BY <3>1, <3>5, <3>6 DEF LoadFrom
  <2>5. ASSUME NEW x \in blocks', NEW y \in Branch[x], Present(y)' PROVE y \in blocks'
    <3>1. CASE x = Checkpoint
      BY <1>2, <3>1, BranchBelow
    <3>2. CASE x \in LoadFrom(top)
      BY <1>2, <2>4, <2>5, <3>2
    <3> QED
      BY <1>2, <3>1, <3>2
  <2> QED
    BY <1>2, <2>1, <2>3, <2>5
<1>3. Highest(Transitions) \subseteq Transitions
  BY DEF Highest
<1> QED
  BY <1>1, <1>2, <1>3 DEF Restart

LEMMA HeldNext ==
  ChainInv /\ BudgetType /\ RescansLeft /\ HeldInv /\ [Next]_vars => (RescansLeft /\ HeldInv)'
<1> SUFFICES ASSUME ChainInv, BudgetType, RescansLeft, HeldInv, [Next]_vars
             PROVE  (RescansLeft /\ HeldInv)'
  OBVIOUS
<1>0. ChainTypes /\ budget.rescan \in Nat /\ MaxRescans \in Nat
  BY ChainAssumption DEF ChainInv, BudgetType
<1>1. CASE UNCHANGED vars
  BY <1>1, HeldSame DEF vars, chainVars, history, RescansLeft
<1>2. CASE Rescan
  <2>1. budget'.rescan = budget.rescan - 1
    BY <1>2, RescansCount DEF Next
  <2> QED
    BY <1>0, <2>1 DEF RescansLeft, HeldInv
<1>3. CASE Next /\ ~Rescan
  <2>1. budget'.rescan = budget.rescan
    BY <1>3, RescansCount
  <2>2. RescansLeft'
    BY <2>1 DEF RescansLeft
  <2>3. CASE Restart
    BY <1>0, <2>2, <2>3, HeldRestart
  <2>4. CASE \E b \in Block : \/ OrphanBlock(b) \/ InvalidBlock(b) \/ ExistingBlock(b)
                              \/ BlockAhead(b) \/ ForkBlock(b)
                              \/ \E phase \in Progress : ExtendChain(b, phase)
                              \/ \E phase \in Progress : Reorganize(b, phase)
    BY <1>0, <2>2, <2>4, HeldBlocks
  <2>5. CASE \/ \E t \in NetTx : RelayTx(t)
             \/ \E t \in Tx, verified \in BOOLEAN : MarkVerified(t, verified)
             \/ \E lost \in SUBSET ToSet(wallet.list) : DropUnrelayed(lost)
             \/ \E t \in OwnTx, amount \in Amounts, swap \in BOOLEAN : CreateTransaction(t, amount, swap)
             \/ \E t \in OwnTx : RequestTx(t)
             \/ LoadBloomFilter
             \/ \E rate \in Fees : SetFeePerKb(rate)
    <3>1. UNCHANGED <<blocks, lastBlock>>
      BY <2>5 DEF RelayTx, MarkVerified, DropUnrelayed, CreateTransaction, Create, RequestTx,
                  LoadBloomFilter, SetFeePerKb, chainVars
    <3> QED
      BY <2>1, <2>2, <3>1, HeldSame
  <2> QED
    BY <1>3, <2>3, <2>4, <2>5, Zenon DEF Next
<1> QED
  BY <1>1, <1>2, <1>3

\* For every tree of blocks, with forks of any length and restarts at any moment: until
\* the user rescans, the blocks of the interval the main chain is in are all held, so
\* that the next difficulty transition finds the block one interval back.
THEOREM PresentIntervalHeld == Spec => []IntervalHeld
<1>1. Init => RescansLeft /\ HeldInv
  <2> SUFFICES ASSUME Init PROVE RescansLeft /\ HeldInv
    OBVIOUS
  <2>1. /\ blocks = {Checkpoint} /\ lastBlock = Checkpoint
        /\ budget = [rescan |-> MaxRescans, restart |-> MaxRestarts, drop |-> MaxDrops]
    BY Zenon DEF Init
  <2>2. budget.rescan = MaxRescans
    BY <2>1
  <2> QED
    BY <2>1, <2>2, ChainAssumption, BranchBelow DEF RescansLeft, HeldInv
<1>2. Spec => []HeldInv
  BY <1>1, HeldNext, ChainInvariant, PTL DEF Spec
<1>3. HeldInv => IntervalHeld
  BY DEF HeldInv, IntervalHeld, Present
<1> QED
  BY <1>2, <1>3, PTL

-----------------------------------------------------------------------------
(* The wallet, step by step *)

\* Every block is below TX_UNCONFIRMED.
LEMMA BlocksBelow ==
  Unconfirmed \in Nat /\ \A b \in Block : Height[b] \in Nat /\ Height[b] < Unconfirmed
<1>1. Unconfirmed \in Nat
  BY SMT DEF Unconfirmed
<1>2. Height \in [Block -> 0 .. Unconfirmed - 1]
  BY ChainAssumption
<1> QED
  BY <1>1, <1>2, SMT

\* The ledger was computed with addresses the wallet still has.
KnownBounded(w) == \A c \in Chains : w.ledger.known[c] \in Nat /\ w.ledger.known[c] <= w.count[c]

\* A wallet whose ledger is right.
RightWallet(w) ==
    /\ DOMAIN w = DOMAIN EmptyWallet /\ w.rate \in Nat
    /\ w.ledger.utxos \in Seq(Outpoints)
    /\ BalanceRight(w) /\ SpendOnce(w) /\ AddrsOK(w) /\ KnownBounded(w)

\* Everything but the addresses is the same.
SameBut(w, v) ==
    /\ DOMAIN v = DOMAIN w
    /\ v.list = w.list /\ v.all = w.all /\ v.height = w.height /\ v.tip = w.tip
    /\ v.ledger = w.ledger /\ v.rate = w.rate
    /\ AddrsOK(w) => v.count \in [Chains -> Nat] /\ \A c \in Chains : w.count[c] <= v.count[c]

\* The fields of a wallet.
LEMMA WalletFields ==
  DOMAIN EmptyWallet = {"list", "all", "height", "stamped", "tip", "count", "ledger", "rate"}
BY DEF EmptyWallet

\* _BRWalletUpdateBalance changes nothing but the ledger.
LEMMA UpdateFields ==
  ASSUME NEW w, DOMAIN w = DOMAIN EmptyWallet
  PROVE  /\ DOMAIN UpdateBalance(w) = DOMAIN w
         /\ UpdateBalance(w).list = w.list /\ UpdateBalance(w).all = w.all
         /\ UpdateBalance(w).height = w.height /\ UpdateBalance(w).tip = w.tip
         /\ UpdateBalance(w).rate = w.rate /\ UpdateBalance(w).count = w.count
<1> DEFINE e == FoldLeft(LAMBDA l, t : LedgerStep(w, l, t), [EmptyLedger EXCEPT !.known = w.count], w.list)
<1>1. UpdateBalance(w) = [w EXCEPT !.ledger = e]
  BY Zenon DEF UpdateBalance
<1> HIDE DEF e
<1> QED
  BY <1>1, WalletFields

\* What it computes is right.
LEMMA UpdateIsRight ==
  ASSUME NEW w, IsWallet(w), BodiesOK, w.rate \in Nat, w.count \in [Chains -> Nat]
  PROVE  RightWallet(UpdateBalance(w))
<1>1. BalanceRight(UpdateBalance(w)) /\ SpendOnce(UpdateBalance(w))
  BY BalanceComputed, DoubleSpendRejected
<1>2. UpdateBalance(w).ledger.utxos \in Seq(Outpoints)
  <2>1. UpdateBalance(w).ledger \in Ledgers(w)
    BY BooksKept
  <2> QED
    BY <2>1 DEF Ledgers
<1>3. DOMAIN UpdateBalance(w) = DOMAIN EmptyWallet /\ UpdateBalance(w).rate \in Nat
  BY UpdateFields DEF IsWallet
<1>4. AddrsOK(UpdateBalance(w))
  BY UpdateFields, UsedBounded DEF IsWallet, AddrsOK
<1>5. KnownBounded(UpdateBalance(w))
  <2>1. UpdateBalance(w).ledger.known = w.count
    BY BooksKept DEF Ledgers
  <2> QED
    BY <2>1, UpdateFields DEF KnownBounded, IsWallet
<1> QED
  BY <1>1, <1>2, <1>3, <1>4, <1>5 DEF RightWallet

\* The ledger stays right while heights change from unconfirmed to a height and
\* addresses are added.
LEMMA SameIsRight ==
  ASSUME NEW w, NEW v, RightWallet(w), DOMAIN v = DOMAIN w,
         v.list = w.list, v.ledger = w.ledger, v.rate \in Nat, v.count \in [Chains -> Nat],
         \A c \in Chains : w.count[c] <= v.count[c],
         \A t \in ToSet(w.list) : v.height[t] = Unconfirmed => w.height[t] = Unconfirmed
  PROVE  RightWallet(v)
<1>1. BalanceRight(v)
  <2>1. Counted(v) = Counted(w)
    BY DEF Counted
  <2> DEFINE R(q, l, counted) ==
               LET last == Max({0} \cup {k \in DOMAIN q : q[k] \in counted})
                   spenders == {q[k] : k \in 1 .. last} \ l.invalid
                   outs == {o \in UNION {{<<t, n>> : n \in DOMAIN body[t].out} : t \in counted} :
                               OutputOf(o).addr \in AddrsUpTo(l.known)}
               IN /\ ToSet(l.utxos) = {o \in outs : \A t \in spenders : o \notin Inputs(t)}
                  /\ \A i, j \in DOMAIN l.utxos : l.utxos[i] = l.utxos[j] => i = j
                  /\ l.balance = Worth(l.utxos)
                  /\ l.balance = l.received - l.sent
                  /\ Len(l.hist) = Len(q) /\ (l.hist # <<>> => Last(l.hist) = l.balance)
  <2>2. /\ BalanceRight(w) <=> R(w.list, w.ledger, Counted(w))
        /\ BalanceRight(v) <=> R(v.list, v.ledger, Counted(v))
    BY Zenon DEF BalanceRight
  <2>3. BalanceRight(w)
    BY DEF RightWallet
  <2> HIDE DEF R
  <2> QED
    BY <2>1, <2>2, <2>3
<1>2. SpendOnce(v)
  BY DEF RightWallet, SpendOnce
<1>3. AddrsOK(v)
  BY DEF RightWallet, AddrsOK
<1>4. KnownBounded(v)
  BY DEF RightWallet, AddrsOK, KnownBounded
<1> QED
  BY <1>1, <1>2, <1>3, <1>4 DEF RightWallet

\* Generating addresses changes nothing else.
LEMMA AddrsKeep ==
  ASSUME NEW w, NEW c \in Chains, NEW gap \in Nat, DOMAIN w = DOMAIN EmptyWallet
  PROVE  SameBut(w, UnusedAddrs(w, c, gap))
<1>1. PICK n : UnusedAddrs(w, c, gap) = [w EXCEPT !.count[c] = n]
  BY Zenon DEF UnusedAddrs
<1>2. "count" \in DOMAIN w /\ "ledger" \in DOMAIN w
  BY WalletFields
<1> DEFINE v == UnusedAddrs(w, c, gap)
<1>3. AddrsOK(w) => v.count \in [Chains -> Nat] /\ \A d \in Chains : w.count[d] <= v.count[d]
  BY <1>2, UnusedFacts
<1> HIDE DEF v
<1>4. /\ DOMAIN v = DOMAIN w
      /\ v.list = w.list /\ v.all = w.all /\ v.height = w.height /\ v.tip = w.tip
      /\ v.ledger = w.ledger /\ v.rate = w.rate
  BY <1>1, WalletFields DEF v
<1> QED
  BY <1>3, <1>4 DEF SameBut, v

\* The same for the two chains together.
LEMMA BothAddrsKeep ==
  ASSUME NEW w, DOMAIN w = DOMAIN EmptyWallet
  PROVE  /\ SameBut(w, NewAddrs(w)) /\ SameBut(w, SpareAddrs(w))
         /\ \A phase : SameBut(w, LoadMempools(w, phase))
<1>1. ASSUME NEW g \in Nat, NEW h \in Nat
      PROVE  SameBut(w, UnusedAddrs(UnusedAddrs(w, "external", g), "internal", h))
  <2> DEFINE u == UnusedAddrs(w, "external", g)
             v == UnusedAddrs(u, "internal", h)
  <2>1. SameBut(w, u)
    BY AddrsKeep DEF Chains
  <2>2. SameBut(u, v)
    BY <2>1, AddrsKeep DEF SameBut, Chains
  <2> HIDE DEF u, v
  <2>3. AddrsOK(w) => AddrsOK(u)
    BY <2>1 DEF SameBut, AddrsOK
  <2>4. AddrsOK(w) => v.count \in [Chains -> Nat] /\ \A c \in Chains : w.count[c] <= v.count[c]
    <3> SUFFICES ASSUME AddrsOK(w)
                 PROVE  v.count \in [Chains -> Nat] /\ \A c \in Chains : w.count[c] <= v.count[c]
      OBVIOUS
    <3>1. \A c \in Chains : w.count[c] <= u.count[c] /\ u.count[c] <= v.count[c]
      BY <2>1, <2>2, <2>3 DEF SameBut
    <3>2. w.count \in [Chains -> Nat] /\ u.count \in [Chains -> Nat] /\ v.count \in [Chains -> Nat]
      BY <2>1, <2>2, <2>3 DEF SameBut, AddrsOK
    <3> QED
      BY <3>1, <3>2
  <2>5. SameBut(w, v)
    BY <2>1, <2>2, <2>4 DEF SameBut
  <2> QED
    BY <2>5 DEF u, v
<1>2. SameBut(w, NewAddrs(w)) /\ SameBut(w, SpareAddrs(w))
  <2>1. /\ GapLimit["external"] \in Nat /\ GapLimit["internal"] \in Nat
        /\ GapLimit["external"] + Spare \in Nat /\ GapLimit["internal"] + Spare \in Nat
    BY WalletAssumption, ChainAssumption DEF Chains
  <2> QED
    BY <1>1, <2>1 DEF NewAddrs, SpareAddrs
<1>3. SameBut(w, w)
  BY DEF SameBut, AddrsOK
<1> QED
  BY <1>2, <1>3 DEF LoadMempools

\* New addresses leave the ledger right.
LEMMA SameButIsRight ==
  ASSUME NEW w, NEW v, RightWallet(w), SameBut(w, v)
  PROVE  RightWallet(v)
<1>1. v.rate \in Nat /\ v.count \in [Chains -> Nat] /\ \A c \in Chains : w.count[c] <= v.count[c]
  BY DEF RightWallet, SameBut
<1> QED
  BY <1>1, SameIsRight DEF SameBut

\* The ledger of v was computed anew, and addresses may have been generated since.
Recomputed(w, v) ==
    \E x : /\ DOMAIN x = DOMAIN w /\ x.rate = w.rate /\ x.tip = w.tip
           /\ x.count \in [Chains -> Nat] /\ SameBut(UpdateBalance(x), v)

\* A ledger that was computed anew is right.
LEMMA RecomputedIsRight ==
  ASSUME NEW w, NEW v, DOMAIN w = DOMAIN EmptyWallet, w.rate \in Nat, Recomputed(w, v),
         v.list \in Seq(Tx), Once(v.list), BodiesOK
  PROVE  RightWallet(v)
<1>1. PICK x : /\ DOMAIN x = DOMAIN w /\ x.rate = w.rate
               /\ x.count \in [Chains -> Nat] /\ SameBut(UpdateBalance(x), v)
  BY DEF Recomputed
<1>2. x.list = v.list
  BY <1>1, UpdateFields DEF SameBut
<1>3. IsWallet(x)
  BY <1>1, <1>2 DEF IsWallet
<1>4. RightWallet(UpdateBalance(x))
  BY <1>1, <1>3, UpdateIsRight
<1> QED
  BY <1>1, <1>4, SameButIsRight

\* The transactions of txs that are still known have got the height h, and what is
\* forgotten has none.
Updated(w, v, txs, h) ==
    /\ DOMAIN v = DOMAIN w /\ v.list = w.list /\ v.rate = w.rate /\ v.all \subseteq w.all
    /\ v.count = w.count /\ \A t \in w.all : ContainsTx(w, t) => t \in v.all
    /\ v.tip = IF h > w.tip THEN h ELSE w.tip
    /\ \A t \in Tx \cap v.all : v.height[t] = IF t \in txs THEN h ELSE w.height[t]
    /\ \A t \in Tx \ v.all : v.height[t] = IF t \in w.all THEN Unconfirmed ELSE w.height[t]
    /\ v.ledger = w.ledger \/ \E x : DOMAIN x = DOMAIN w /\ v = UpdateBalance(x)

\* BRWalletUpdateTransactions does that; what it frees is not known any more.
LEMMA UpdateTxsFacts ==
  ASSUME NEW w, NEW txs, NEW h, NEW s, DOMAIN w = DOMAIN EmptyWallet
  PROVE  Updated(w, UpdateTxs(w, txs, h, s), txs, h)
<1> DEFINE changed == {t \in txs \cap w.all : w.height[t] # h \/ w.stamped[t] # s}
           ours == {t \in changed : ContainsTx(w, t)}
           freed == IF h # Unconfirmed THEN changed \ ours ELSE {}
           tip == IF h > w.tip THEN h ELSE w.tip
           all == w.all \ freed
           height == [t \in Tx |-> IF t \in freed THEN Unconfirmed
                                   ELSE IF t \in changed THEN h ELSE w.height[t]]
           stamped == [t \in Tx |-> IF t \in freed THEN FALSE
                                    ELSE IF t \in changed THEN s ELSE w.stamped[t]]
           new == [w EXCEPT !.tip = tip, !.all = all, !.height = height, !.stamped = stamped]
           v == UpdateTxs(w, txs, h, s)
<1>1. v = IF ours \cap (w.ledger.pending \cup w.ledger.invalid) # {} THEN UpdateBalance(new) ELSE new
  BY Zenon DEF UpdateTxs
<1>2. /\ \A t \in Tx \cap all : height[t] = IF t \in txs THEN h ELSE w.height[t]
      /\ \A t \in Tx \ all : height[t] = IF t \in w.all THEN Unconfirmed ELSE w.height[t]
  OBVIOUS
<1>3. all \subseteq w.all /\ \A t \in w.all : ContainsTx(w, t) => t \in all
  OBVIOUS
<1> HIDE DEF v, tip, all, height, stamped, ours
<1>4. /\ DOMAIN new = DOMAIN w /\ new.list = w.list /\ new.rate = w.rate /\ new.all = all
      /\ new.tip = tip /\ new.height = height /\ new.ledger = w.ledger /\ new.count = w.count
  BY WalletFields
<1> HIDE DEF new
<1>5. /\ DOMAIN v = DOMAIN w /\ v.list = w.list /\ v.rate = w.rate /\ v.all = all
      /\ v.tip = tip /\ v.height = height /\ v.count = w.count
      /\ v.ledger = w.ledger \/ v = UpdateBalance(new)
  BY <1>1, <1>4, UpdateFields
<1>6. v.tip = IF h > w.tip THEN h ELSE w.tip
  BY <1>5 DEF tip
<1>7. v.ledger = w.ledger \/ \E x : DOMAIN x = DOMAIN w /\ v = UpdateBalance(x)
  BY <1>4, <1>5
<1>8. Updated(w, v, txs, h)
  BY <1>2, <1>3, <1>5, <1>6, <1>7, Zenon DEF Updated
<1> QED
  BY <1>8 DEF v

\* The ledger stays right when transactions get a height, as long as none that is
\* listed is freed.
LEMMA UpdatedIsRight ==
  ASSUME NEW w, NEW v, NEW txs, NEW h, RightWallet(w), IsWallet(w), BodiesOK, Updated(w, v, txs, h),
         ToSet(w.list) \subseteq v.all,
         h # Unconfirmed \/ \A t \in txs : w.height[t] = Unconfirmed
  PROVE  RightWallet(v)
<1>1. CASE v.ledger = w.ledger
  <2>1. \A t \in ToSet(w.list) : t \in Tx
    BY DEF IsWallet, ToSet
  <2>2. \A t \in ToSet(w.list) : v.height[t] = Unconfirmed => w.height[t] = Unconfirmed
    <3> SUFFICES ASSUME NEW t \in ToSet(w.list), v.height[t] = Unconfirmed PROVE w.height[t] = Unconfirmed
      OBVIOUS
    <3>1. v.height[t] = w.height[t] \/ (t \in txs /\ v.height[t] = h)
      BY <2>1 DEF Updated
    <3> QED
      BY <3>1
  <2> QED
    BY <1>1, <2>2, SameIsRight DEF Updated, RightWallet, AddrsOK
<1>2. ASSUME NEW x, DOMAIN x = DOMAIN w, v = UpdateBalance(x) PROVE RightWallet(v)
  <2>1. DOMAIN x = DOMAIN EmptyWallet /\ w.rate \in Nat /\ w.count \in [Chains -> Nat]
    BY <1>2 DEF RightWallet, AddrsOK
  <2>2. x.list = w.list /\ x.rate = w.rate /\ x.count = w.count
    BY <1>2, <2>1, UpdateFields DEF Updated
  <2>3. IsWallet(x)
    BY <2>1, <2>2 DEF IsWallet
  <2> QED
    BY <1>2, <2>1, <2>2, <2>3, UpdateIsRight
<1> QED
  BY <1>1, <1>2 DEF Updated

\* BRWalletSetTxUnconfirmedAfter: what it marks is followed by a new ledger.
LEMMA UnconfirmedAfterFacts ==
  ASSUME NEW w, NEW h, DOMAIN w = DOMAIN EmptyWallet
  PROVE  LET v == SetTxUnconfirmedAfter(w, h)
         IN /\ DOMAIN v = DOMAIN w /\ v.list = w.list /\ v.all = w.all /\ v.tip = h /\ v.rate = w.rate
            /\ v.count = w.count
            /\ \/ v.ledger = w.ledger /\ \A t \in Tx : v.height[t] = w.height[t]
               \/ \E x : DOMAIN x = DOMAIN w /\ v = UpdateBalance(x)
<1> DEFINE from == Max({0} \cup {k \in DOMAIN w.list : w.height[w.list[k]] <= h})
           suffix == {w.list[k] : k \in from + 1 .. Len(w.list)}
           height == [t \in Tx |-> IF t \in suffix THEN Unconfirmed ELSE w.height[t]]
           new == [w EXCEPT !.tip = h, !.height = height]
           v == SetTxUnconfirmedAfter(w, h)
<1>1. v = IF suffix # {} THEN UpdateBalance(new) ELSE new
  BY Zenon DEF SetTxUnconfirmedAfter
<1> HIDE DEF v, suffix
<1>2. suffix = {} => \A t \in Tx : height[t] = w.height[t]
  OBVIOUS
<1> HIDE DEF height
<1>3. /\ DOMAIN new = DOMAIN w /\ new.list = w.list /\ new.rate = w.rate /\ new.all = w.all
      /\ new.tip = h /\ new.height = height /\ new.ledger = w.ledger /\ new.count = w.count
  BY WalletFields
<1> HIDE DEF new
<1>4. /\ DOMAIN v = DOMAIN w /\ v.list = w.list /\ v.all = w.all /\ v.tip = h /\ v.rate = w.rate
      /\ v.count = w.count
      /\ \/ v.ledger = w.ledger /\ \A t \in Tx : v.height[t] = w.height[t]
         \/ \E x : DOMAIN x = DOMAIN w /\ v = UpdateBalance(x)
  <2>1. CASE suffix = {}
    BY <1>1, <1>2, <1>3, <2>1
  <2>2. CASE suffix # {}
    BY <1>1, <1>3, <2>2, UpdateFields
  <2> QED
    BY <2>1, <2>2
<1> QED
  BY <1>4 DEF v

\* BRWalletRegisterTransaction either leaves the list alone or computes the ledger anew.
LEMMA RegisterFacts ==
  ASSUME NEW w, NEW t, DOMAIN w = DOMAIN EmptyWallet, w.count \in [Chains -> Nat]
  PROVE  LET v == Register(w, t)
         IN /\ DOMAIN v = DOMAIN w /\ v.rate = w.rate /\ v.tip = w.tip
            /\ \/ v.list = w.list /\ v.ledger = w.ledger /\ v.height = w.height /\ v.count = w.count
               \/ Recomputed(w, v)
<1> DEFINE known == [w EXCEPT !.all = @ \cup {t}]
           x == InsertTx(known, t)
           v == Register(w, t)
<1>1. /\ DOMAIN known = DOMAIN w /\ known.list = w.list /\ known.ledger = w.ledger
      /\ known.rate = w.rate /\ known.height = w.height /\ known.tip = w.tip /\ known.count = w.count
  BY WalletFields
<1>2. v = w \/ v = known \/ v = NewAddrs(UpdateBalance(x))
  BY Zenon DEF Register
<1> HIDE DEF known, v
<1>3. DOMAIN x = DOMAIN w /\ x.rate = w.rate /\ x.tip = w.tip /\ x.count = w.count
  <2>1. PICK q : x = [known EXCEPT !.list = q]
    BY Zenon DEF InsertTx
  <2> QED
    BY <1>1, <2>1, WalletFields
<1> HIDE DEF x
<1>4. CASE v = NewAddrs(UpdateBalance(x))
  <2>1. /\ DOMAIN UpdateBalance(x) = DOMAIN EmptyWallet
        /\ UpdateBalance(x).rate = w.rate /\ UpdateBalance(x).tip = w.tip
    BY <1>3, UpdateFields
  <2>2. SameBut(UpdateBalance(x), v)
    BY <1>4, <2>1, BothAddrsKeep
  <2>3. DOMAIN v = DOMAIN w /\ v.rate = w.rate /\ v.tip = w.tip
    BY <2>1, <2>2 DEF SameBut
  <2>4. Recomputed(w, v)
    BY <1>3, <2>2 DEF Recomputed
  <2> QED
    BY <2>3, <2>4 DEF v
<1>5. CASE v = w \/ v = known
  BY <1>1, <1>5 DEF v
<1> QED
  BY <1>2, <1>4, <1>5

\* BRWalletRemoveTransaction ends with a new ledger.
LEMMA RemoveFacts ==
  ASSUME NEW w, NEW t, DOMAIN w = DOMAIN EmptyWallet
  PROVE  \E x : /\ DOMAIN x = DOMAIN w /\ x.rate = w.rate /\ x.tip = w.tip /\ x.count = w.count
                /\ RemoveTx(w, t) = UpdateBalance(x)
<1> DEFINE gone == RemovedWith(w, t)
           list == Keep(w.list, ToSet(w.list) \ gone)
           height == [y \in Tx |-> IF y \in gone THEN Unconfirmed ELSE w.height[y]]
           stamped == [y \in Tx |-> y \notin gone /\ w.stamped[y]]
           x == [w EXCEPT !.list = list, !.all = @ \ gone, !.height = height, !.stamped = stamped]
<1>1. RemoveTx(w, t) = UpdateBalance(x)
  BY Zenon DEF RemoveTx
<1> HIDE DEF list, gone, height, stamped
<1>2. DOMAIN x = DOMAIN w /\ x.rate = w.rate /\ x.tip = w.tip /\ x.count = w.count
  BY WalletFields
<1> QED
  BY <1>1, <1>2, Zenon

-----------------------------------------------------------------------------
(* The folds over the wallet *)

\* What one step of a fold over the wallet does: a transaction nobody relayed is
\* dropped, a saved one is inserted, the ones of a block get its height.
StepOf(kind, p, v, x) ==
    IF kind = "drop" THEN IF x \in p THEN IF Contains(v.list, x) THEN RemoveTx(v, x) ELSE v ELSE v
    ELSE IF kind = "load" THEN InsertTx([v EXCEPT !.all = @ \cup {x}], x)
    ELSE IF BlockTx[p[x]] = {} THEN v ELSE UpdateTxs(v, BlockTx[p[x]], x, TRUE)

StepFor(kind, p, q, a, g, s) == IF s = {} THEN a ELSE StepOf(kind, p, g[s \ {Max(s)}], q[Max(s)])

DropAll(lost, w, q) ==
    FoldLeft(LAMBDA v, t : IF t \in lost THEN IF Contains(v.list, t) THEN RemoveTx(v, t) ELSE v ELSE v, w, q)
LoadAll(w, q) == FoldLeft(LAMBDA v, t : InsertTx([v EXCEPT !.all = @ \cup {t}], t), w, q)
ConfirmAll(at, w, q) ==
    FoldLeft(LAMBDA v, h : IF BlockTx[at[h]] = {} THEN v ELSE UpdateTxs(v, BlockTx[at[h]], h, TRUE), w, q)

HasSteps(kind, p, q, a, n) == \E g : g = [s \in SUBSET (1 .. n) |-> StepFor(kind, p, q, a, g, s)]

\* The fold's result is w, and f goes through the wallets before it.
StepsTo(kind, p, q, a, f, w) ==
    /\ f[0] = a /\ f[Len(q)] = w
    /\ \A k \in 1 .. Len(q) : f[k] = StepOf(kind, p, f[k - 1], q[k])

\* The recursive function such a fold is defined by exists.
LEMMA StepsExist ==
  ASSUME NEW kind, NEW p, NEW q, NEW a, NEW n \in Nat
  PROVE  HasSteps(kind, p, q, a, n)
<1> DEFINE P(m) == \E g : \A s \in SUBSET (1 .. m) : g[s] = StepFor(kind, p, q, a, g, s)
           T == {m \in 0 .. n : P(m)}
<1>1. P(0)
  <2> DEFINE g == [s \in SUBSET (1 .. 0) |-> a]
  <2>1. \A s \in SUBSET (1 .. 0) : s = {} /\ g[s] = a
    OBVIOUS
  <2> HIDE DEF g
  <2>2. \A s \in SUBSET (1 .. 0) : g[s] = StepFor(kind, p, q, a, g, s)
    BY <2>1, Zenon DEF StepFor
  <2> QED
    BY <2>2, Zenon
<1>2. ASSUME NEW k \in 0 .. n - 1, P(k) PROVE P(k + 1)
  <2>1. PICK g : \A s \in SUBSET (1 .. k) : g[s] = StepFor(kind, p, q, a, g, s)
    BY <1>2, Zenon
  <2> DEFINE m == k + 1
             h == [s \in SUBSET (1 .. m) |-> IF m \in s THEN StepOf(kind, p, g[s \ {m}], q[m]) ELSE g[s]]
  <2>2. m \in Nat /\ m \in 1 .. n /\ k \in Nat /\ k = m - 1
    OBVIOUS
  <2> HIDE DEF m
  <2>3. ASSUME NEW s \in SUBSET (1 .. m), m \in s PROVE h[s] = StepOf(kind, p, g[s \ {m}], q[m])
    BY <2>3, Zenon
  <2>4. ASSUME NEW s \in SUBSET (1 .. m), m \notin s PROVE h[s] = g[s]
    BY <2>4, Zenon
  <2> HIDE DEF h
  <2>5. ASSUME NEW s \in SUBSET (1 .. m) PROVE h[s] = StepFor(kind, p, q, a, h, s)
    <3>1. CASE m \in s
      <4>1. Max(s) = m /\ s # {}
        BY <2>2, <3>1, LargestOf
      <4>2. s \ {m} \in SUBSET (1 .. m) /\ m \notin s \ {m}
        OBVIOUS
      <4>3. h[s \ {m}] = g[s \ {m}]
        BY <2>4, <4>2
      <4> QED
        BY <2>3, <3>1, <4>1, <4>3, Zenon DEF StepFor
    <3>2. CASE m \notin s
      <4>1. s \in SUBSET (1 .. k)
        BY <2>2, <3>2
      <4>2. h[s \ {Max(s)}] = g[s \ {Max(s)}]
        <5> DEFINE x == Max(s)
        <5> HIDE DEF x
        <5>1. s \ {x} \in SUBSET (1 .. m) /\ m \notin s \ {x}
          BY <3>2
        <5>2. h[s \ {x}] = g[s \ {x}]
          BY <2>4, <5>1
        <5> QED
          BY <5>2 DEF x
      <4> QED
        BY <2>1, <2>4, <3>2, <4>1, <4>2, Zenon DEF StepFor
    <3> QED
      BY <3>1, <3>2
  <2> QED
    BY <2>5, Zenon DEF m
<1> HIDE DEF P
<1>3. 0 \in T
  BY <1>1
<1>4. \A k \in 0 .. n - 1 : k \in T => k + 1 \in T
  BY <1>2
<1>5. n \in T
  <2> HIDE DEF T
  <2> QED
    BY <1>3, <1>4, CountUp
<1>6. P(n)
  BY <1>5
<1>7. PICK g : \A s \in SUBSET (1 .. n) : g[s] = StepFor(kind, p, q, a, g, s)
  BY <1>6, Zenon DEF P
<1> DEFINE h == [s \in SUBSET (1 .. n) |-> g[s]]
<1>8. \A s \in SUBSET (1 .. n) : h[s] = g[s]
  OBVIOUS
<1>9. h = [s \in SUBSET (1 .. n) |-> h[s]]
  OBVIOUS
<1> HIDE DEF h
<1>10. ASSUME NEW s \in SUBSET (1 .. n) PROVE h[s] = StepFor(kind, p, q, a, h, s)
  <2>1. h[s \ {Max(s)}] = g[s \ {Max(s)}]
    <3> DEFINE x == Max(s)
    <3> HIDE DEF x
    <3>1. s \ {x} \in SUBSET (1 .. n)
      OBVIOUS
    <3>2. h[s \ {x}] = g[s \ {x}]
      BY <1>8, <3>1
    <3> QED
      BY <3>2 DEF x
  <2> QED
    BY <1>7, <1>8, <2>1, Zenon DEF StepFor
<1>11. h = [s \in SUBSET (1 .. n) |-> StepFor(kind, p, q, a, h, s)]
  BY <1>9, <1>10, Zenon
<1> QED
  BY <1>11, Zenon DEF HasSteps

\* Along the sets 1 .. k such a function takes the steps one by one.
LEMMA StepsAlong ==
  ASSUME NEW kind, NEW p, NEW q, NEW a, NEW iter, Len(q) \in Nat,
         iter = CHOOSE it : it = [s \in SUBSET (1 .. Len(q)) |-> StepFor(kind, p, q, a, it, s)]
  PROVE  \E f : StepsTo(kind, p, q, a, f, iter[1 .. Len(q)])
<1> DEFINE n == Len(q)
           RHS(it) == [s \in SUBSET (1 .. n) |-> StepFor(kind, p, q, a, it, s)]
           f == [k \in 0 .. n |-> iter[1 .. k]]
<1>1. \E it : it = RHS(it)
  <2>1. n \in Nat
    OBVIOUS
  <2> HIDE DEF n
  <2>2. HasSteps(kind, p, q, a, n)
    BY <2>1, StepsExist
  <2> QED
    BY <2>2, Zenon DEF HasSteps
<1>2. iter = RHS(iter)
  <2>1. iter = CHOOSE it : it = RHS(it)
    OBVIOUS
  <2> HIDE DEF RHS
  <2> QED
    BY <1>1, <2>1, Zenon
<1>3. \A s \in SUBSET (1 .. n) : iter[s] = StepFor(kind, p, q, a, iter, s)
  <2> DEFINE E(s) == StepFor(kind, p, q, a, iter, s)
  <2>1. iter = [s \in SUBSET (1 .. n) |-> E(s)]
    BY <1>2, Zenon
  <2> HIDE DEF E
  <2>2. \A s \in SUBSET (1 .. n) : iter[s] = E(s)
    BY <2>1
  <2> QED
    BY <2>2 DEF E
<1>4. 1 .. 0 = {} /\ 0 \in 0 .. n /\ n \in 0 .. n /\ {} \in SUBSET (1 .. n)
  OBVIOUS
<1>5. f[0] = iter[1 .. 0] /\ f[n] = iter[1 .. n]
  BY <1>4
<1>6. iter[{}] = a
  BY <1>3, <1>4, Zenon DEF StepFor
<1>7. f[0] = a
  BY <1>4, <1>5, <1>6
<1>8. ASSUME NEW k \in 1 .. n PROVE f[k] = StepOf(kind, p, f[k - 1], q[k])
  <2>1. k \in Nat /\ k \in 0 .. n /\ k - 1 \in 0 .. n
    OBVIOUS
  <2>2. (1 .. k) \in SUBSET (1 .. n) /\ k \in 1 .. k /\ (1 .. k) \ {k} = 1 .. k - 1 /\ 1 .. k # {}
    BY <2>1
  <2>3. Max(1 .. k) = k
    BY <2>1, <2>2, LargestOf
  <2>4. f[k] = iter[1 .. k] /\ f[k - 1] = iter[1 .. k - 1]
    BY <2>1
  <2> HIDE DEF f
  <2>5. iter[1 .. k] = StepFor(kind, p, q, a, iter, 1 .. k)
    BY <1>3, <2>2
  <2>6. StepFor(kind, p, q, a, iter, 1 .. k) = StepOf(kind, p, iter[1 .. k - 1], q[k])
    BY <2>2, <2>3, Zenon DEF StepFor
  <2> QED
    BY <2>4, <2>5, <2>6
<1> HIDE DEF f
<1> QED
  BY <1>5, <1>7, <1>8, Zenon DEF StepsTo

\* _requestUnrelayedTxGetdataDone goes through its queue one by one.
LEMMA DropSteps ==
  ASSUME NEW lost, NEW w, NEW q, NEW n \in Nat, DOMAIN q = 1 .. n, Len(q) = n
  PROVE  \E f : StepsTo("drop", lost, q, w, f, DropAll(lost, w, q))
<1> DEFINE e == DropAll(lost, w, q)
           RHS(it) == [s \in SUBSET DOMAIN q |-> IF s = {} THEN w ELSE
                          IF q[Max(s)] \in lost
                          THEN IF Contains(it[s \ {Max(s)}].list, q[Max(s)])
                               THEN RemoveTx(it[s \ {Max(s)}], q[Max(s)]) ELSE it[s \ {Max(s)}]
                          ELSE it[s \ {Max(s)}]]
           Steps(it) == [s \in SUBSET (1 .. Len(q)) |-> StepFor("drop", lost, q, w, it, s)]
           iter == CHOOSE it : it = Steps(it)
<1>1. e = (CHOOSE it : it = RHS(it))[DOMAIN q]
  BY Zenon DEF FoldLeft, MapThenFoldSet, DropAll
<1>2. \A it : RHS(it) = Steps(it)
  BY Zenon DEF StepFor, StepOf
<1> HIDE DEF e, RHS
<1>3. e = iter[1 .. Len(q)]
  <2> HIDE DEF Steps
  <2>1. (CHOOSE it : it = RHS(it)) = (CHOOSE it : it = Steps(it))
    BY <1>2
  <2> QED
    BY <1>1, <2>1
<1> HIDE DEF iter
<1>4. \E f : StepsTo("drop", lost, q, w, f, iter[1 .. Len(q)])
  BY StepsAlong, Zenon DEF iter
<1>5. \E f : StepsTo("drop", lost, q, w, f, e)
  BY <1>3, <1>4
<1> QED
  BY <1>5, Zenon DEF e

\* BRWalletNew inserts the saved transactions one by one.
LEMMA LoadSteps ==
  ASSUME NEW w, NEW q, NEW n \in Nat, DOMAIN q = 1 .. n, Len(q) = n
  PROVE  \E f : StepsTo("load", {}, q, w, f, LoadAll(w, q))
<1> DEFINE e == LoadAll(w, q)
           RHS(it) == [s \in SUBSET DOMAIN q |-> IF s = {} THEN w ELSE
                          InsertTx([it[s \ {Max(s)}] EXCEPT !.all = @ \cup {q[Max(s)]}], q[Max(s)])]
           Steps(it) == [s \in SUBSET (1 .. Len(q)) |-> StepFor("load", {}, q, w, it, s)]
           iter == CHOOSE it : it = Steps(it)
<1>1. e = (CHOOSE it : it = RHS(it))[DOMAIN q]
  BY Zenon DEF FoldLeft, MapThenFoldSet, LoadAll
<1>2. \A it : RHS(it) = Steps(it)
  BY Zenon DEF StepFor, StepOf
<1> HIDE DEF e, RHS
<1>3. e = iter[1 .. Len(q)]
  <2> HIDE DEF Steps
  <2>1. (CHOOSE it : it = RHS(it)) = (CHOOSE it : it = Steps(it))
    BY <1>2
  <2> QED
    BY <1>1, <2>1
<1> HIDE DEF iter
<1>4. \E f : StepsTo("load", {}, q, w, f, iter[1 .. Len(q)])
  BY StepsAlong, Zenon DEF iter
<1>5. \E f : StepsTo("load", {}, q, w, f, e)
  BY <1>3, <1>4
<1> QED
  BY <1>5, Zenon DEF e

\* A reorganisation goes through the blocks of the new branch one by one.
LEMMA ConfirmSteps ==
  ASSUME NEW at, NEW w, NEW q, NEW n \in Nat, DOMAIN q = 1 .. n, Len(q) = n
  PROVE  \E f : StepsTo("height", at, q, w, f, ConfirmAll(at, w, q))
<1> DEFINE e == ConfirmAll(at, w, q)
           RHS(it) == [s \in SUBSET DOMAIN q |-> IF s = {} THEN w ELSE
                          IF BlockTx[at[q[Max(s)]]] = {} THEN it[s \ {Max(s)}]
                          ELSE UpdateTxs(it[s \ {Max(s)}], BlockTx[at[q[Max(s)]]], q[Max(s)], TRUE)]
           Steps(it) == [s \in SUBSET (1 .. Len(q)) |-> StepFor("height", at, q, w, it, s)]
           iter == CHOOSE it : it = Steps(it)
<1>1. e = (CHOOSE it : it = RHS(it))[DOMAIN q]
  BY Zenon DEF FoldLeft, MapThenFoldSet, ConfirmAll
<1>2. \A it : RHS(it) = Steps(it)
  BY Zenon DEF StepFor, StepOf
<1> HIDE DEF e, RHS
<1>3. e = iter[1 .. Len(q)]
  <2> HIDE DEF Steps
  <2>1. (CHOOSE it : it = RHS(it)) = (CHOOSE it : it = Steps(it))
    BY <1>2
  <2> QED
    BY <1>1, <2>1
<1> HIDE DEF iter
<1>4. \E f : StepsTo("height", at, q, w, f, iter[1 .. Len(q)])
  BY StepsAlong, Zenon DEF iter
<1>5. \E f : StepsTo("height", at, q, w, f, e)
  BY <1>3, <1>4
<1> QED
  BY <1>5, Zenon DEF e

-----------------------------------------------------------------------------
(* The walk back to where a fork joins the main chain *)

HasWalk(D, st, nx) == \E g : g = [p \in D |-> IF p \in st THEN p ELSE g[nx[p]]]

\* A walk along nx that ends at the places of st satisfies its equation: the
\* places of st that can be reached are the same one step on.
LEMMA WalkExists ==
  ASSUME NEW D, NEW st, NEW nx \in [D -> D]
  PROVE  HasWalk(D, st, nx)
<1> DEFINE Shut == {s \in SUBSET D : \A y \in s : y \notin st => nx[y] \in s}
           C(p) == {x \in D : \A s \in Shut : p \in s => x \in s}
           E(p) == C(p) \cap st
           X(p) == CHOOSE x : x \in E(p)
           G == [p \in D |-> X(p)]
<1>1. \A p \in D : p \in C(p) /\ C(p) \in Shut
  OBVIOUS
<1>2. ASSUME NEW p \in D, p \in st PROVE E(p) = {p}
  <2>1. {p} \in Shut
    BY <1>2
  <2>2. C(p) \subseteq {p}
    <3> SUFFICES ASSUME NEW x \in C(p) PROVE x = p
      OBVIOUS
    <3> DEFINE S == {p}
    <3>1. S \in Shut /\ p \in S
      BY <2>1
    <3> HIDE DEF S, Shut
    <3>2. x \in S
      BY <3>1
    <3> QED
      BY <3>2 DEF S
  <2>3. p \in C(p)
    BY <1>1
  <2> HIDE DEF C
  <2> QED
    BY <1>2, <2>2, <2>3
<1>3. ASSUME NEW p \in D, p \notin st PROVE E(p) = E(nx[p])
  <2>1. nx[p] \in D
    OBVIOUS
  <2>2. {p} \cup C(nx[p]) \in Shut
    <3>1. nx[p] \in C(nx[p]) /\ C(nx[p]) \in Shut
      BY <1>1, <2>1
    <3> HIDE DEF C
    <3> QED
      BY <3>1
  <2>3. C(p) \subseteq {p} \cup C(nx[p])
    <3> SUFFICES ASSUME NEW x \in C(p) PROVE x \in {p} \cup C(nx[p])
      OBVIOUS
    <3> DEFINE S == {p} \cup C(nx[p])
    <3>1. S \in Shut /\ p \in S
      BY <2>2
    <3> HIDE DEF S, Shut
    <3>2. x \in S
      BY <3>1
    <3> QED
      BY <3>2 DEF S
  <2>4. C(nx[p]) \subseteq C(p)
    BY <1>3, <2>1
  <2> HIDE DEF C
  <2> QED
    BY <1>3, <2>3, <2>4
<1> HIDE DEF E
<1> HIDE DEF X
<1>4. \A p \in D : G[p] = X(p)
  OBVIOUS
<1>5. G = [p \in D |-> G[p]]
  OBVIOUS
<1> HIDE DEF G
<1>6. ASSUME NEW p \in D PROVE G[p] = IF p \in st THEN p ELSE G[nx[p]]
  <2>1. CASE p \in st
    <3>1. X(p) \in E(p)
      BY <1>2, <2>1 DEF X
    <3> QED
      BY <1>2, <1>4, <2>1, <3>1
  <2>2. CASE p \notin st
    <3>1. nx[p] \in D
      OBVIOUS
    <3> QED
      BY <1>3, <1>4, <2>2, <3>1 DEF X
  <2> QED
    BY <2>1, <2>2
<1>7. G = [p \in D |-> IF p \in st THEN p ELSE G[nx[p]]]
  BY <1>5, <1>6, Zenon
<1> QED
  BY <1>7, Zenon DEF HasWalk

\* The places of the walk: a block on the fork and one on the main chain, or neither.
Place == (Block \cup {NoBlock}) \X (Block \cup {NoBlock})
PrevIn(held, x) == IF Parent[x] \in held THEN Parent[x] ELSE NoBlock
AtEnd(p) == NoBlock \in {p[1], p[2]} \/ p[1] = p[2]
IsLower(held, p) == PrevIn(held, p[1]) # NoBlock /\ Height[PrevIn(held, p[1])] < Height[p[2]]
Back(held, p) ==
    <<PrevIn(held, p[1]), IF IsLower(held, p) THEN PrevIn(held, p[2]) ELSE p[2]>>

WalksBack(held, walk) ==
    \A p \in Place : walk[p] = IF AtEnd(p) THEN p ELSE walk[Back(held, p)]

\* The join point is where a walk that satisfies its equation ends.
LEMMA JoinWalk ==
  ASSUME NEW held \in SUBSET Block, NEW b \in Block, NEW c \in Block
  PROVE  \A join : join = JoinPoint(held, b) /\ lastBlock = c =>
            \E walk : WalksBack(held, walk) /\ join = walk[<<b, c>>]
<1> SUFFICES ASSUME NEW join, join = JoinPoint(held, b), lastBlock = c
             PROVE  \E walk : WalksBack(held, walk) /\ join = walk[<<b, c>>]
  OBVIOUS
<1> DEFINE prev(x) == IF Parent[x] \in held THEN Parent[x] ELSE NoBlock
           stop(p) == NoBlock \in {p[1], p[2]} \/ p[1] = p[2]
           lower(p) == prev(p[1]) # NoBlock /\ Height[prev(p[1])] < Height[p[2]]
           next1(p) == <<prev(p[1]), IF lower(p) THEN prev(p[2]) ELSE p[2]>>
           D == (Block \cup {NoBlock}) \X (Block \cup {NoBlock})
           st == {p \in D : stop(p)}
           nx == [p \in D |-> next1(p)]
           walk == CHOOSE f : f = [p \in D |-> IF stop(p) THEN p ELSE f[next1(p)]]
<1>1. join = walk[<<b, c>>]
  BY Zenon DEF JoinPoint
<1>2. \A x : prev(x) \in Block \cup {NoBlock}
  OBVIOUS
<1>3. nx \in [D -> D]
  <2> HIDE DEF prev
  <2> QED
    BY <1>2
<1>4. HasWalk(D, st, nx)
  <2> HIDE DEF D, st, nx
  <2> QED
    BY <1>3, WalkExists
<1> DEFINE Walks(f) == [p \in D |-> IF stop(p) THEN p ELSE f[next1(p)]]
<1>5. \A p \in D : (p \in st <=> stop(p)) /\ nx[p] = next1(p)
  BY Zenon
<1>0. D = Place /\ (\A p : stop(p) <=> AtEnd(p)) /\ (\A p : next1(p) = Back(held, p))
  BY Zenon DEF Place, AtEnd, Back, IsLower, PrevIn
<1> HIDE DEF D, st, nx, stop, next1
<1>6. PICK g : g = [p \in D |-> IF p \in st THEN p ELSE g[nx[p]]]
  BY <1>4, Zenon DEF HasWalk
<1>7. g = Walks(g)
  BY <1>5, <1>6, Zenon
<1>8. walk = Walks(walk)
  <2>1. walk = CHOOSE f : f = Walks(f)
    BY Zenon
  <2> HIDE DEF walk, Walks
  <2> QED
    BY <1>7, <2>1, Zenon
<1> HIDE DEF walk
<1>9. \A p \in D : walk[p] = IF stop(p) THEN p ELSE walk[next1(p)]
  <2> DEFINE V(p) == IF stop(p) THEN p ELSE walk[next1(p)]
  <2>1. walk = [p \in D |-> V(p)]
    BY <1>8, Zenon
  <2> HIDE DEF V
  <2>2. \A p \in D : walk[p] = V(p)
    BY <2>1
  <2> QED
    BY <2>2 DEF V
<1>10. WalksBack(held, walk)
  BY <1>0, <1>9, Zenon DEF WalksBack
<1> QED
  BY <1>1, <1>10, Zenon

\* A walk that has run out of blocks stays where it is.
LEMMA WalkStops ==
  ASSUME NEW held, NEW walk, WalksBack(held, walk), NEW x, NEW y, <<x, y>> \in Place,
         x = NoBlock \/ y = NoBlock \/ x = y
  PROVE  walk[<<x, y>>] = <<x, y>>
<1> DEFINE p == <<x, y>>
<1>1. AtEnd(p)
  BY DEF AtEnd
<1> HIDE DEF p
<1>2. walk[p] = p
  BY <1>1 DEF WalksBack, p
<1> QED
  BY <1>2 DEF p

\* One step of the walk: back along the fork, and along the main chain when the
\* fork is then the lower one.
StepsBack(held, walk, x, y) ==
    /\ Parent[x] \notin held => walk[<<x, y>>] = <<NoBlock, y>>
    /\ Parent[x] \in held /\ Height[Parent[x]] >= Height[y]
         => walk[<<x, y>>] = walk[<<Parent[x], y>>]
    /\ Parent[x] \in held /\ Height[Parent[x]] < Height[y] /\ Parent[y] \in held
         => walk[<<x, y>>] = walk[<<Parent[x], Parent[y]>>]
    /\ Parent[x] \in held /\ Height[Parent[x]] < Height[y] /\ Parent[y] \notin held
         => walk[<<x, y>>] = <<Parent[x], NoBlock>>

LEMMA WalkSteps ==
  ASSUME NEW held \in SUBSET Block, NEW walk, WalksBack(held, walk),
         NEW x \in Block, NEW y \in Block, x # y
  PROVE  StepsBack(held, walk, x, y)
<1> DEFINE p == <<x, y>>
<1>0. NoBlock \notin Block /\ \A z \in Block : Height[z] \in Nat
  BY ChainAssumption, BlocksBelow
<1>1. ~AtEnd(p) /\ p \in Place /\ p[1] = x /\ p[2] = y
  BY <1>0 DEF AtEnd, Place
<1>2. walk[p] = walk[Back(held, p)]
  <2> HIDE DEF p
  <2> QED
    BY <1>1 DEF WalksBack
<1>3. Back(held, p) = <<PrevIn(held, x), IF IsLower(held, p) THEN PrevIn(held, y) ELSE y>>
  <2> HIDE DEF p
  <2> QED
    BY <1>1 DEF Back
<1>4. IsLower(held, p) <=> PrevIn(held, x) # NoBlock /\ Height[PrevIn(held, x)] < Height[y]
  <2> HIDE DEF p
  <2> QED
    BY <1>1 DEF IsLower
<1> HIDE DEF p
<1>5. ASSUME Parent[x] \notin held PROVE walk[p] = <<NoBlock, y>>
  <2>1. Back(held, p) = <<NoBlock, y>>
    BY <1>3, <1>4, <1>5 DEF PrevIn
  <2> QED
    BY <1>2, <2>1, WalkStops DEF Place
<1>6. ASSUME Parent[x] \in held, Height[Parent[x]] >= Height[y]
      PROVE  walk[p] = walk[<<Parent[x], y>>]
  <2>1. ~(Height[Parent[x]] < Height[y])
    BY <1>0, <1>6
  <2>2. Back(held, p) = <<Parent[x], y>>
    BY <1>3, <1>4, <1>6, <2>1 DEF PrevIn
  <2> QED
    BY <1>2, <2>2
<1>7. ASSUME Parent[x] \in held, Height[Parent[x]] < Height[y]
      PROVE  Back(held, p) = <<Parent[x], PrevIn(held, y)>>
  BY <1>0, <1>3, <1>4, <1>7 DEF PrevIn
<1>8. ASSUME Parent[x] \in held, Height[Parent[x]] < Height[y], Parent[y] \notin held
      PROVE  walk[p] = <<Parent[x], NoBlock>>
  <2>1. Back(held, p) = <<Parent[x], NoBlock>>
    BY <1>7, <1>8 DEF PrevIn
  <2> QED
    BY <1>2, <1>8, <2>1, WalkStops DEF Place
<1>9. ASSUME Parent[x] \in held, Height[Parent[x]] < Height[y], Parent[y] \in held
      PROVE  walk[p] = walk[<<Parent[x], Parent[y]>>]
  BY <1>2, <1>7, <1>9 DEF PrevIn
<1> QED
  BY <1>5, <1>6, <1>8, <1>9 DEF p, StepsBack

\* The walk of a reorganisation ends, at blocks or past the last one held, and
\* never above the block it starts from.
LEMMA JoinIsBlock ==
  ASSUME NEW held \in SUBSET Block, NEW b \in Block, NEW c \in Block
  PROVE  \A join : join = JoinPoint(held, b) /\ lastBlock = c =>
            /\ join[2] \in Block \cup {NoBlock}
            /\ join[1] # NoBlock => join[1] \in Block /\ Height[join[1]] <= Height[b]
<1> SUFFICES ASSUME NEW join, join = JoinPoint(held, b), lastBlock = c
             PROVE  /\ join[2] \in Block \cup {NoBlock}
                    /\ join[1] # NoBlock => join[1] \in Block /\ Height[join[1]] <= Height[b]
  OBVIOUS
<1>1. PICK walk : WalksBack(held, walk) /\ join = walk[<<b, c>>]
  BY JoinWalk
<1> DEFINE B == Block \cup {NoBlock}
           Low(z, x) == z = NoBlock \/ (z \in Block /\ Height[z] <= Height[x])
           Ends(r, x) == r[2] \in B /\ Low(r[1], x)
           S == {x \in Block : \A y \in B : Ends(walk[<<x, y>>], x)}
<1>2. \A x \in Block : Height[x] \in Nat
  BY BlocksBelow
<1>3. ASSUME NEW x \in Block, Parent[x] \in held => Parent[x] \in S PROVE x \in S
  <2> SUFFICES ASSUME NEW y \in B PROVE Ends(walk[<<x, y>>], x)
    OBVIOUS
  <2>1. CASE y = NoBlock \/ x = y
    <3>1. walk[<<x, y>>] = <<x, y>>
      BY <1>1, <2>1, WalkStops DEF Place
    <3> QED
      BY <1>2, <3>1
  <2>0. y \in Block /\ x # y => StepsBack(held, walk, x, y)
    BY <1>1, WalkSteps
  <2>2. CASE y \in Block /\ x # y /\ Parent[x] \in held
    <3>1. Height[x] = Height[Parent[x]] + 1 /\ Height[Parent[x]] \in Nat /\ Parent[x] \in Block
      BY <2>2, ChainAssumption, BlocksBelow
    <3>2. \A r : Ends(r, Parent[x]) => Ends(r, x)
      BY <1>2, <3>1
    <3>3. Ends(<<Parent[x], NoBlock>>, x)
      BY <1>2, <3>1
    <3>4. \A z \in B : Ends(walk[<<Parent[x], z>>], Parent[x])
      BY <1>3, <2>2
    <3>5. Height[Parent[x]] >= Height[y] \/ Height[Parent[x]] < Height[y]
      BY <1>2, <2>2, <3>1
    <3> HIDE DEF Ends
    <3> QED
      BY <2>0, <2>2, <3>2, <3>3, <3>4, <3>5 DEF StepsBack
  <2>3. CASE y \in Block /\ x # y /\ Parent[x] \notin held
    <3>1. walk[<<x, y>>] = <<NoBlock, y>>
      BY <2>0, <2>3 DEF StepsBack
    <3> QED
      BY <3>1
  <2> QED
    BY <2>1, <2>2, <2>3
<1>4. \A x \in Block : x \in S
  <2>1. Checkpoint \in S
    BY <1>3, ChainAssumption
  <2>2. \A x \in Block \ {Checkpoint} : Parent[x] \in S => x \in S
    BY <1>3
  <2> HIDE DEF S
  <2> QED
    BY <2>1, <2>2, TreeInduction
<1> QED
  BY <1>1, <1>4

\* Where both ends of the walk are blocks they are the same block of both branches,
\* and the walk has passed held blocks only.
Meets(held, b, c, x, y, r) ==
    r[1] # NoBlock /\ r[2] # NoBlock =>
        /\ r[1] = r[2] /\ r[1] \in Branch[b] /\ r[2] \in Branch[c]
        /\ \A w \in Branch[b] :
              Height[w] > Height[r[2]] /\ Height[w] <= Height[x] => Parent[w] \in held
        /\ \A w \in Branch[c] :
              Height[w] > Height[r[2]] /\ Height[w] <= Height[y] => Parent[w] \in held

LEMMA WalkMeets ==
  ASSUME NEW held \in SUBSET Block, NEW walk, WalksBack(held, walk),
         NEW b \in Block, NEW c \in Block
  PROVE  \A x \in Branch[b], y \in Branch[c] : Meets(held, b, c, x, y, walk[<<x, y>>])
<1> DEFINE S == {x \in Block : x \in Branch[b] =>
                   \A y \in Branch[c] : Meets(held, b, c, x, y, walk[<<x, y>>])}
<1>0. /\ \A x \in Block : Height[x] \in Nat
      /\ Branch[b] \subseteq Block /\ Branch[c] \subseteq Block /\ NoBlock \notin Block
  BY BlocksBelow, BranchHeights, ChainAssumption
<1>1. ASSUME NEW x \in Block, NEW d \in Block, x \in Branch[d], Parent[x] \in Block
      PROVE  /\ Parent[x] \in Branch[d] /\ Height[x] = Height[Parent[x]] + 1
             /\ \A w \in Branch[d] : Height[w] <= Height[x] => w = x \/ Height[w] <= Height[Parent[x]]
  <2>1. x # Checkpoint
    BY <1>0, <1>1, ChainAssumption
  <2>2. Branch[x] = {x} \cup Branch[Parent[x]] /\ Height[x] = Height[Parent[x]] + 1
    BY <2>1, BranchBelow
  <2>3. Parent[x] \in Branch[Parent[x]] /\ Branch[x] \subseteq Branch[d]
    BY <1>1, BranchHeights, BranchIsLine
  <2>4. ASSUME NEW w \in Branch[d], Height[w] <= Height[x] PROVE w = x \/ Height[w] <= Height[Parent[x]]
    <3>1. w \in Branch[x]
      BY <1>1, <2>4, BranchIsLine
    <3>2. w = x \/ Height[w] < Height[x]
      BY <3>1, BranchHeights
    <3>3. w \in Block
      BY <2>4, BranchHeights
    <3> QED
      BY <1>0, <1>1, <2>2, <3>2, <3>3
  <2> QED
    BY <2>2, <2>3, <2>4
<1>2. ASSUME NEW x \in Block, Parent[x] \in held => Parent[x] \in S PROVE x \in S
  <2> SUFFICES ASSUME x \in Branch[b], NEW y \in Branch[c] PROVE Meets(held, b, c, x, y, walk[<<x, y>>])
    OBVIOUS
  <2>0. y \in Block
    BY <1>0
  <2>9. x # y => StepsBack(held, walk, x, y)
    BY <2>0, WalkSteps
  <2>1. CASE x = y
    <3>1. walk[<<x, y>>] = <<x, y>>
      BY <2>0, <2>1, WalkStops DEF Place
    <3> QED
      BY <1>0, <2>0, <2>1, <3>1 DEF Meets
  <2>2. CASE x # y /\ Parent[x] \notin held
    <3>1. walk[<<x, y>>] = <<NoBlock, y>>
      BY <2>0, <2>9, <2>2 DEF StepsBack
    <3> QED
      BY <3>1 DEF Meets
  <2>3. CASE x # y /\ Parent[x] \in held
    <3>1. Parent[x] \in Branch[b] /\ Height[x] = Height[Parent[x]] + 1 /\ Height[Parent[x]] \in Nat
      BY <1>0, <1>1, <2>3
    <3>2. \A z \in Branch[c] : Meets(held, b, c, Parent[x], z, walk[<<Parent[x], z>>])
      BY <1>2, <2>3, <3>1
    <3>0. \A w \in Branch[b] : Height[w] <= Height[x] => w = x \/ Height[w] <= Height[Parent[x]]
      BY <1>0, <1>1, <2>3
    <3>3. CASE Height[Parent[x]] >= Height[y]
      <4> DEFINE r == walk[<<x, y>>]
      <4>1. walk[<<x, y>>] = walk[<<Parent[x], y>>]
        BY <2>0, <2>9, <2>3, <3>3 DEF StepsBack
      <4>2. Meets(held, b, c, Parent[x], y, r)
        BY <3>2, <4>1
      <4> HIDE DEF r
      <4>3. Meets(held, b, c, x, y, r)
        BY <2>3, <3>0, <4>2 DEF Meets
      <4> QED
        BY <4>3 DEF r
    <3>4. CASE Height[Parent[x]] < Height[y] /\ Parent[y] \notin held
      <4>1. walk[<<x, y>>] = <<Parent[x], NoBlock>>
        BY <2>0, <2>9, <2>3, <3>4 DEF StepsBack
      <4> QED
        BY <4>1 DEF Meets
    <3>5. CASE Height[Parent[x]] < Height[y] /\ Parent[y] \in held
      <4>1. walk[<<x, y>>] = walk[<<Parent[x], Parent[y]>>]
        BY <2>0, <2>9, <2>3, <3>5 DEF StepsBack
      <4>2. /\ Parent[y] \in Branch[c]
            /\ \A w \in Branch[c] : Height[w] <= Height[y] => w = y \/ Height[w] <= Height[Parent[y]]
        BY <1>1, <2>0, <3>5
      <4>3. Meets(held, b, c, Parent[x], Parent[y], walk[<<Parent[x], Parent[y]>>])
        BY <3>2, <4>2
      <4> DEFINE r == walk[<<x, y>>]
      <4>4. Meets(held, b, c, Parent[x], Parent[y], r)
        BY <4>1, <4>3
      <4> HIDE DEF r
      <4>5. Meets(held, b, c, x, y, r)
        BY <2>3, <3>0, <3>5, <4>2, <4>4 DEF Meets
      <4> QED
        BY <4>5 DEF r
    <3>6. Height[Parent[x]] >= Height[y] \/ Height[Parent[x]] < Height[y]
      BY <1>0, <2>0, <3>1
    <3> QED
      BY <3>3, <3>4, <3>5, <3>6
  <2> QED
    BY <2>1, <2>2, <2>3
<1>3. \A x \in Block : x \in S
  <2>1. Checkpoint \in S
    BY <1>2, ChainAssumption
  <2>2. \A x \in Block \ {Checkpoint} : Parent[x] \in S => x \in S
    BY <1>2
  <2> HIDE DEF S
  <2> QED
    BY <2>1, <2>2, TreeInduction
<1> QED
  BY <1>0, <1>3

\* A walk over a branch that is held down to a block z of both branches ends at a block.
LEMMA WalkFinds ==
  ASSUME NEW held \in SUBSET Block, NEW walk, WalksBack(held, walk),
         NEW b \in Block, NEW c \in Block, NEW z \in Branch[b] \cap Branch[c],
         \A u \in Branch[b] \cap held : Height[u] > Height[z] => Parent[u] \in held
  PROVE  \A x \in Branch[b] \cap held, y \in Branch[c] : \A r :
            r = walk[<<x, y>>] /\ Height[z] <= Height[y] /\ Height[y] <= Height[x] => r[1] # NoBlock
<1> DEFINE S == {x \in Block : x \in Branch[b] \cap held =>
                   \A y \in Branch[c] : \A r :
                      r = walk[<<x, y>>] /\ Height[z] <= Height[y] /\ Height[y] <= Height[x]
                         => r[1] # NoBlock}
<1>0. /\ \A x \in Block : Height[x] \in Nat
      /\ Branch[b] \subseteq Block /\ Branch[c] \subseteq Block /\ NoBlock \notin Block
  BY BlocksBelow, BranchHeights, ChainAssumption
<1>1. ASSUME NEW x \in Block, NEW d \in Block, x \in Branch[d], x # Checkpoint
      PROVE  /\ Parent[x] \in Branch[d] /\ Height[x] = Height[Parent[x]] + 1
             /\ Parent[x] \in Block
  <2>1. Branch[x] = {x} \cup Branch[Parent[x]] /\ Height[x] = Height[Parent[x]] + 1 /\ Parent[x] \in Block
    BY <1>1, BranchBelow
  <2>2. Parent[x] \in Branch[Parent[x]] /\ Branch[x] \subseteq Branch[d]
    BY <1>1, <2>1, BranchHeights, BranchIsLine
  <2> QED
    BY <2>1, <2>2
<1>2. ASSUME NEW x \in Block, x # Checkpoint => Parent[x] \in S PROVE x \in S
  <2> SUFFICES ASSUME x \in Branch[b] \cap held, NEW y \in Branch[c], NEW r,
                      r = walk[<<x, y>>], Height[z] <= Height[y], Height[y] <= Height[x]
               PROVE  r[1] # NoBlock
    OBVIOUS
  <2>0. y \in Block /\ Height[x] \in Nat /\ Height[y] \in Nat /\ Height[z] \in Nat /\ z \in Block
    BY <1>0
  <2>9. x # y => StepsBack(held, walk, x, y)
    BY <2>0, WalkSteps
  <2>1. CASE x = y
    <3>1. r = <<x, y>>
      BY <2>0, <2>1, WalkStops DEF Place
    <3> QED
      BY <1>0, <3>1
  <2>2. CASE x # y
    <3>1. Height[x] > Height[z]
      <4> SUFFICES ASSUME Height[x] = Height[z] PROVE FALSE
        BY <2>0
      <4>1. x \in Branch[z] /\ y \in Branch[z]
        <5>1. Height[x] <= Height[z] /\ Height[y] <= Height[z]
          BY <2>0
        <5> QED
          BY <5>1, BranchIsLine
      <4>2. (x = z \/ Height[x] < Height[z]) /\ (y = z \/ Height[y] < Height[z])
        BY <2>0, <4>1, BranchHeights
      <4> QED
        BY <2>0, <2>2, <4>2
    <3>2. Parent[x] \in held /\ x # Checkpoint
      BY <2>0, <3>1, ChainAssumption
    <3>3. Parent[x] \in Branch[b] /\ Height[x] = Height[Parent[x]] + 1 /\ Height[Parent[x]] \in Nat
      BY <1>0, <1>1, <3>2
    <3>4. \A v \in Branch[c] : \A q :
             q = walk[<<Parent[x], v>>] /\ Height[z] <= Height[v] /\ Height[v] <= Height[Parent[x]]
                => q[1] # NoBlock
      BY <1>2, <3>2, <3>3
    <3>5. CASE Height[Parent[x]] >= Height[y]
      <4>1. r = walk[<<Parent[x], y>>]
        BY <2>0, <2>9, <2>2, <3>2, <3>5 DEF StepsBack
      <4>2. Height[y] <= Height[Parent[x]]
        BY <2>0, <3>3, <3>5
      <4> QED
        BY <3>4, <4>1, <4>2
    <3>6. CASE Height[Parent[x]] < Height[y] /\ Parent[y] \notin held
      <4>1. r = <<Parent[x], NoBlock>>
        BY <2>0, <2>9, <2>2, <3>2, <3>6 DEF StepsBack
      <4> QED
        BY <1>0, <3>2, <4>1
    <3>7. CASE Height[Parent[x]] < Height[y] /\ Parent[y] \in held
      <4>1. r = walk[<<Parent[x], Parent[y]>>]
        BY <2>0, <2>9, <2>2, <3>2, <3>7 DEF StepsBack
      <4>2. y # Checkpoint
        BY <1>0, <3>7, ChainAssumption
      <4>3. Parent[y] \in Branch[c] /\ Height[y] = Height[Parent[y]] + 1 /\ Height[Parent[y]] \in Nat
        BY <1>0, <1>1, <2>0, <4>2
      <4>4. Height[z] <= Height[Parent[y]] /\ Height[Parent[y]] <= Height[Parent[x]]
        BY <2>0, <3>1, <3>3, <3>7, <4>3
      <4> QED
        BY <3>4, <4>1, <4>3, <4>4
    <3> QED
      BY <2>0, <3>3, <3>5, <3>6, <3>7
  <2> QED
    BY <2>1, <2>2
<1>3. \A x \in Block : x \in S
  <2>1. Checkpoint \in S
    BY <1>2, ChainAssumption
  <2>2. \A x \in Block \ {Checkpoint} : Parent[x] \in S => x \in S
    BY <1>2
  <2> HIDE DEF S
  <2> QED
    BY <2>1, <2>2, TreeInduction
<1> QED
  BY <1>0, <1>3

\* Where both sides of a reorganisation's join are blocks, they are one block of both
\* branches; and there is one, if the fork is held down to a block of both.
LEMMA JoinMeets ==
  ASSUME NEW held \in SUBSET Block, NEW b \in Block, NEW c \in Block
  PROVE  \A join : join = JoinPoint(held, b) /\ lastBlock = c =>
            /\ join[1] # NoBlock /\ join[2] # NoBlock =>
                  /\ join[1] = join[2] /\ join[2] \in Branch[b] \cap Branch[c]
                  /\ \A w \in Branch[b] : Height[w] > Height[join[2]] => Parent[w] \in held
                  /\ \A w \in Branch[c] : Height[w] > Height[join[2]] => Parent[w] \in held
            /\ \A z \in Branch[b] \cap Branch[c] :
                  /\ b \in held /\ Height[c] <= Height[b]
                  /\ \A u \in Branch[b] \cap held : Height[u] > Height[z] => Parent[u] \in held
                  => join[1] # NoBlock
<1> SUFFICES ASSUME NEW join, join = JoinPoint(held, b), lastBlock = c
             PROVE  /\ join[1] # NoBlock /\ join[2] # NoBlock =>
                          /\ join[1] = join[2] /\ join[2] \in Branch[b] \cap Branch[c]
                          /\ \A w \in Branch[b] : Height[w] > Height[join[2]] => Parent[w] \in held
                          /\ \A w \in Branch[c] : Height[w] > Height[join[2]] => Parent[w] \in held
                    /\ \A z \in Branch[b] \cap Branch[c] :
                          /\ b \in held /\ Height[c] <= Height[b]
                          /\ \A u \in Branch[b] \cap held : Height[u] > Height[z] => Parent[u] \in held
                          => join[1] # NoBlock
  OBVIOUS
<1>1. PICK walk : WalksBack(held, walk) /\ join = walk[<<b, c>>]
  BY JoinWalk
<1>2. b \in Branch[b] /\ c \in Branch[c]
  BY BranchHeights
<1>3. \A d \in {b, c} : \A x \in Branch[d] : Height[x] \in Nat /\ Height[x] <= Height[d]
  <2> TAKE d \in {b, c}
  <2> TAKE x \in Branch[d]
  <2>1. x \in Block /\ (x = d \/ Height[x] < Height[d])
    BY BranchHeights
  <2> QED
    BY <2>1, BlocksBelow
<1>4. ASSUME join[1] # NoBlock, join[2] # NoBlock
      PROVE  /\ join[1] = join[2] /\ join[2] \in Branch[b] \cap Branch[c]
             /\ \A w \in Branch[b] : Height[w] > Height[join[2]] => Parent[w] \in held
             /\ \A w \in Branch[c] : Height[w] > Height[join[2]] => Parent[w] \in held
  <2>0. Meets(held, b, c, b, c, join)
    BY <1>1, <1>2, WalkMeets
  <2>1. /\ join[1] = join[2] /\ join[1] \in Branch[b] /\ join[2] \in Branch[c]
        /\ \A w \in Branch[b] :
              Height[w] > Height[join[2]] /\ Height[w] <= Height[b] => Parent[w] \in held
        /\ \A w \in Branch[c] :
              Height[w] > Height[join[2]] /\ Height[w] <= Height[c] => Parent[w] \in held
    BY <1>4, <2>0 DEF Meets
  <2> QED
    BY <1>3, <2>1
<1>5. ASSUME NEW z \in Branch[b] \cap Branch[c], b \in held, Height[c] <= Height[b],
             \A u \in Branch[b] \cap held : Height[u] > Height[z] => Parent[u] \in held
      PROVE  join[1] # NoBlock
  <2>1. Height[z] <= Height[c] /\ b \in Branch[b] \cap held
    BY <1>2, <1>3, <1>5
  <2>2. \A x \in Branch[b] \cap held, y \in Branch[c] : \A r :
           r = walk[<<x, y>>] /\ Height[z] <= Height[y] /\ Height[y] <= Height[x] => r[1] # NoBlock
    BY <1>1, <1>5, WalkFinds, Zenon
  <2> QED
    BY <1>1, <1>2, <1>5, <2>1, <2>2, Zenon
<1> QED
  BY <1>4, <1>5

-----------------------------------------------------------------------------
(* The blocks from which a walk cannot go further back *)

\* The strengthening of ForkHasJoin.  A held block whose previous block is not held is
\* a whole interval below lastBlock, but for those of the main chain itself, which a
\* restart may load no further back.
RootInv ==
    ~lostTrack =>
        /\ lastBlock \in blocks
        /\ \A r \in blocks \ {Checkpoint} :
              Parent[r] \notin blocks =>
                  Height[Parent[r]] + Interval <= Height[lastBlock] \/ r \in Branch[lastBlock]

\* What every way of dealing with a block b on a block that is held comes down to.
LEMMA RootsAccept ==
  ASSUME ChainInv, RootInv, ~lostTrack, NEW b \in Block, Parent[b] \in blocks,
         KeptBlocks(b) \subseteq blocks', blocks' \subseteq KeptBlocks(b) \cup {b},
         lastBlock' = lastBlock \/ lastBlock' \in blocks',
         lastBlock' \in Block, Height[lastBlock] <= Height[lastBlock'],
         \A r \in Branch[lastBlock] \cap blocks' :
            r # Checkpoint /\ Parent[r] \notin blocks' => r \in Branch[lastBlock']
  PROVE  RootInv'
<1>0. /\ \A x \in Block : Height[x] \in Nat
      /\ blocks \subseteq Block /\ lastBlock \in Block /\ Interval \in Nat \ {0} /\ ChainTypes
  BY BlocksBelow, ChainAssumption DEF ChainInv, ChainTypes
<1>1. Height[b] = Height[Parent[b]] + 1 /\ Height[b] <= Height[lastBlock] + 1
  BY NextHeight
<1>2. ASSUME NEW x \in blocks, x \notin KeptBlocks(b)
      PROVE  Height[x] + Interval < Height[b] /\ Height[x] \in Nat
  BY <1>0, <1>2, KeepsInterval
<1>3. Parent[b] \in KeptBlocks(b)
  <2> SUFFICES ASSUME Parent[b] \notin KeptBlocks(b) PROVE FALSE
    OBVIOUS
  <2>1. Height[Parent[b]] + Interval < Height[b] /\ Height[Parent[b]] \in Nat
    BY <1>2
  <2> QED
    BY <1>0, <1>1, <2>1
<1>7. lastBlock' \in blocks'
  <2> SUFFICES ASSUME lastBlock \notin KeptBlocks(b) PROVE FALSE
    OBVIOUS
  <2>1. Height[lastBlock] + Interval < Height[b] /\ Height[lastBlock] \in Nat
    BY <1>2 DEF RootInv
  <2> QED
    BY <1>0, <1>1, <2>1
<1> SUFFICES ASSUME NEW r \in blocks' \ {Checkpoint}, Parent[r] \notin blocks'
             PROVE  Height[Parent[r]] + Interval <= Height[lastBlock'] \/ r \in Branch[lastBlock']
  BY <1>7 DEF RootInv
<1>4. r \in blocks /\ r \in Block /\ Parent[r] \in Block
  <2>1. r # b
    BY <1>3
  <2>2. r \in blocks
    BY <2>1, KeptIsHeld
  <2> QED
    BY <1>0, <2>2, BranchBelow
<1>5. CASE Parent[r] \in blocks
  <2>1. Height[Parent[r]] + Interval < Height[b] /\ Height[Parent[r]] \in Nat
    BY <1>2, <1>5
  <2> QED
    BY <1>0, <1>1, <2>1
<1>6. CASE Parent[r] \notin blocks
  <2>1. Height[Parent[r]] + Interval <= Height[lastBlock] \/ r \in Branch[lastBlock]
    BY <1>4, <1>6 DEF RootInv
  <2>2. CASE Height[Parent[r]] + Interval <= Height[lastBlock]
    BY <1>0, <1>4, <2>2
  <2> QED
    BY <2>1, <2>2
<1> QED
  BY <1>5, <1>6

LEMMA RootsSame ==
  ASSUME RootInv, UNCHANGED <<blocks, lastBlock>>, lostTrack => lostTrack'
  PROVE  RootInv'
  BY DEF RootInv

\* The blocks a walk has passed on the main chain are held, so where it ends is on or
\* above whatever of the main chain cannot be walked on from.
LEMMA RootsReorganize ==
  ASSUME ChainInv, RootInv, ~lostTrack, NEW b \in Block, NEW phase, Reorganize(b, phase)
  PROVE  RootInv'
<1> DEFINE join == JoinPoint(blocks', b)
<1>0. /\ \A x \in Block : Height[x] \in Nat
      /\ blocks \subseteq Block /\ lastBlock \in Block
  BY BlocksBelow DEF ChainInv, ChainTypes
<1>1. /\ Parent[b] \in blocks /\ blocks' = KeptBlocks(b) \cup {b} /\ lastBlock' = b
      /\ Height[b] > Height[lastBlock] /\ join[1] # NoBlock
      /\ lostTrack' = (lostTrack \/ join[2] = NoBlock)
  BY DEF Reorganize, OnFork, Longer
<1>2. blocks' \in SUBSET Block
  BY <1>0, <1>1, KeptIsHeld
<1>3. join[1] # NoBlock /\ join[2] # NoBlock =>
        /\ join[2] \in Branch[b] \cap Branch[lastBlock]
        /\ \A w \in Branch[lastBlock] : Height[w] > Height[join[2]] => Parent[w] \in blocks'
  BY <1>0, <1>2, JoinMeets
<1> HIDE DEF join
<1>4. CASE join[2] = NoBlock
  BY <1>1, <1>4 DEF RootInv
<1>5. CASE join[2] # NoBlock
  <2>1. /\ join[2] \in Branch[b] \cap Branch[lastBlock]
        /\ \A w \in Branch[lastBlock] : Height[w] > Height[join[2]] => Parent[w] \in blocks'
    BY <1>1, <1>3, <1>5
  <2>2. ASSUME NEW r \in Branch[lastBlock], Parent[r] \notin blocks' PROVE r \in Branch[b]
    <3>1. r \in Block /\ join[2] \in Block
      BY <1>0, <2>1, BranchHeights
    <3>2. Height[r] <= Height[join[2]]
      BY <1>0, <2>1, <2>2, <3>1
    <3>3. r \in Branch[join[2]]
      BY <1>0, <2>1, <3>2, BranchIsLine
    <3> QED
      BY <2>1, <3>3, BranchIsLine
  <2>3. Height[lastBlock] <= Height[lastBlock'] /\ lastBlock' \in Block
    BY <1>0, <1>1
  <2> QED
    BY <1>1, <2>2, <2>3, RootsAccept
<1> QED
  BY <1>4, <1>5

LEMMA RootsBlocks ==
  ASSUME ChainInv, RootInv, NEW b \in Block,
         \/ OrphanBlock(b) \/ InvalidBlock(b) \/ ExistingBlock(b)
         \/ BlockAhead(b) \/ ForkBlock(b)
         \/ \E phase \in Progress : ExtendChain(b, phase)
         \/ \E phase \in Progress : Reorganize(b, phase)
  PROVE  RootInv'
<1>0. /\ lastBlock \in Block /\ Height[lastBlock] \in Nat
      /\ KeptBlocks(b) \subseteq KeptBlocks(b) \cup {b}
  BY BlocksBelow DEF ChainInv, ChainTypes
<1>1. CASE OrphanBlock(b)
  BY <1>1, RootsSame DEF OrphanBlock, history
<1>2. CASE lostTrack
  <2>1. lostTrack => lostTrack'
    <3>1. UNCHANGED lostTrack \/ \E first : lostTrack' = (lostTrack \/ first)
      BY Zenon DEF OrphanBlock, InvalidBlock, ExistingBlock, BlockAhead, ForkBlock, ExtendChain,
                   Reorganize, history
    <3> QED
      BY <3>1, Zenon
  <2> QED
    BY <1>2, <2>1 DEF RootInv
<1>3. CASE ~lostTrack /\ (InvalidBlock(b) \/ ExistingBlock(b) \/ BlockAhead(b) \/ ForkBlock(b))
  <2>1. /\ Parent[b] \in blocks /\ lastBlock' = lastBlock
        /\ KeptBlocks(b) \subseteq blocks' /\ blocks' \subseteq KeptBlocks(b) \cup {b}
    BY <1>3 DEF InvalidBlock, ExistingBlock, BlockAhead, ForkBlock, OnFork
  <2>2. Height[lastBlock] <= Height[lastBlock'] /\ lastBlock' \in Block
    BY <1>0, <2>1
  <2> QED
    BY <1>3, <2>1, <2>2, RootsAccept
<1>4. CASE ~lostTrack /\ \E phase \in Progress : ExtendChain(b, phase)
  <2>1. /\ Parent[b] = lastBlock /\ lastBlock' = b /\ blocks' = KeptBlocks(b) \cup {b}
        /\ lostTrack' = lostTrack
    BY <1>4 DEF ExtendChain, history
  <2>2. b # Checkpoint
    BY <1>0, <2>1, ChainAssumption
  <2>3. Branch[b] = {b} \cup Branch[lastBlock] /\ Height[b] = Height[lastBlock] + 1
    BY <2>1, <2>2, BranchBelow
  <2>4. Height[lastBlock] <= Height[lastBlock']
    BY <1>0, <2>1, <2>3
  <2>5. Parent[b] \in blocks
    BY <1>4, <2>1 DEF RootInv
  <2> QED
    BY <1>4, <2>1, <2>3, <2>4, <2>5, RootsAccept
<1>5. CASE ~lostTrack /\ \E phase \in Progress : Reorganize(b, phase)
  BY <1>5, RootsReorganize
<1> QED
  BY <1>1, <1>2, <1>3, <1>4, <1>5

\* What a restart loads is on the branch of the transition it loads from.
LEMMA RootsRestart == ASSUME ChainTypes, Restart PROVE RootInv'
<1>0. saved \subseteq Block /\ \A x \in Block : Height[x] \in Nat
  BY BlocksBelow DEF ChainTypes
<1>1. CASE blocks' = {Checkpoint} /\ lastBlock' = Checkpoint
  BY <1>1 DEF RootInv
<1>2. ASSUME NEW top \in saved, NEW last \in LoadFrom(top),
             blocks' = {Checkpoint} \cup LoadFrom(top), lastBlock' = last
      PROVE  RootInv'
  <2> SUFFICES ASSUME NEW r \in LoadFrom(top), r # Checkpoint, r \notin Branch[last]
               PROVE  Parent[r] \in LoadFrom(top)
    BY <1>2 DEF RootInv
  <2>1. /\ r \in Block /\ r \in saved /\ top \in Branch[r] /\ top \in Branch[last] /\ top \in Block
        /\ \A y \in Branch[r] : Height[y] >= Height[top] => y \in saved
    BY <1>0, <1>2 DEF LoadFrom
  <2>2. /\ Branch[r] = {r} \cup Branch[Parent[r]] /\ Parent[r] \in Block
    BY <2>1, BranchBelow
  <2>3. top \in Branch[Parent[r]]
    BY <2>1, <2>2
  <2>4. Parent[r] \in Branch[Parent[r]] /\ Height[Parent[r]] >= Height[top]
    <3>1. Parent[r] \in Branch[Parent[r]] /\ (top = Parent[r] \/ Height[top] < Height[Parent[r]])
      BY <2>2, <2>3, BranchHeights
    <3> QED
      BY <1>0, <2>1, <2>2, <3>1
  <2>5. Parent[r] \in saved /\ \A y \in Branch[Parent[r]] : Height[y] >= Height[top] => y \in saved
    BY <2>1, <2>2, <2>4
  <2> QED
    BY <2>3, <2>5 DEF LoadFrom
<1>3. \A top \in Highest(Transitions) : top \in saved /\ Highest(LoadFrom(top)) \subseteq LoadFrom(top)
  BY DEF Highest, Transitions
<1> QED
  BY <1>1, <1>2, <1>3 DEF Restart

LEMMA RootsNext == ChainInv /\ RootInv /\ [Next]_vars => RootInv'
<1> SUFFICES ASSUME ChainInv, RootInv, [Next]_vars PROVE RootInv'
  OBVIOUS
<1>1. CASE UNCHANGED vars
  BY <1>1, RootsSame DEF vars, chainVars, history
<1>2. CASE Rescan
  <2>1. lastBlock' = Checkpoint /\ UNCHANGED blocks /\ (~lostTrack' => ~lostTrack /\ lastBlock = Checkpoint)
    BY <1>2 DEF Rescan
  <2> QED
    BY <2>1 DEF RootInv
<1>3. CASE Restart
  BY <1>3, RootsRestart DEF ChainInv
<1>4. CASE \E b \in Block : \/ OrphanBlock(b) \/ InvalidBlock(b) \/ ExistingBlock(b)
                            \/ BlockAhead(b) \/ ForkBlock(b)
                            \/ \E phase \in Progress : ExtendChain(b, phase)
                            \/ \E phase \in Progress : Reorganize(b, phase)
  BY <1>4, RootsBlocks
<1>5. CASE \/ \E t \in NetTx : RelayTx(t)
           \/ \E t \in Tx, verified \in BOOLEAN : MarkVerified(t, verified)
           \/ \E lost \in SUBSET ToSet(wallet.list) : DropUnrelayed(lost)
           \/ \E t \in OwnTx, amount \in Amounts, swap \in BOOLEAN : CreateTransaction(t, amount, swap)
           \/ \E t \in OwnTx : RequestTx(t)
           \/ LoadBloomFilter
           \/ \E rate \in Fees : SetFeePerKb(rate)
  <2>1. UNCHANGED <<blocks, lastBlock, lostTrack>>
    BY <1>5 DEF RelayTx, MarkVerified, DropUnrelayed, CreateTransaction, Create, RequestTx,
                LoadBloomFilter, SetFeePerKb, chainVars, history
  <2> QED
    BY <2>1, RootsSame
<1> QED
  BY <1>1, <1>2, <1>3, <1>4, <1>5, Zenon DEF Next

\* Where two branches part, and the blocks of the one that lead there.
LEMMA LastCommon ==
  ASSUME NEW x \in Block, NEW y \in Block
  PROVE  \E z \in Branch[x] \cap Branch[y] : \A u \in Branch[x] \cap Branch[y] : Height[u] <= Height[z]
<1> DEFINE T == {Height[u] : u \in Branch[x] \cap Branch[y]}
<1>0. /\ \A u \in Branch[x] : u \in Block /\ Height[u] \in Nat
      /\ \A u \in Branch[x] : Height[u] <= Height[x]
  <2>1. \A u \in Branch[x] : u \in Block /\ (u = x \/ Height[u] < Height[x])
    BY BranchHeights
  <2> QED
    BY <2>1, BlocksBelow
<1>1. T \subseteq 0 .. Height[x] /\ Height[x] \in Nat
  BY <1>0, BlocksBelow
<1>2. T # {}
  <2>1. \E u \in Branch[x] : Height[u] = 0
    BY <1>1, BranchHeights
  <2>2. \E u \in Branch[y] : Height[u] = 0
    BY BlocksBelow, BranchHeights
  <2>3. \A u \in Block : Height[u] = 0 => u = Checkpoint
    BY BranchBelow
  <2> QED
    BY <1>0, <2>1, <2>2, <2>3, BranchHeights
<1>3. PICK m \in T : \A n \in T : n <= m
  <2> HIDE DEF T
  <2>1. Max(T) \in T /\ \A n \in T : n <= Max(T)
    BY <1>1, <1>2, LargestBelow
  <2> QED
    BY <2>1
<1> QED
  BY <1>3

\* A fork that grows past the main chain is held down to where it left it.
LEMMA ForkIsHeld ==
  ASSUME ShortForks, ChainInv, RootInv
  PROVE  ForkHasJoin
<1> SUFFICES ASSUME ~lostTrack, NEW b \in Block, OnFork(b), Height[b] > Height[lastBlock]
             PROVE  JoinPoint(KeptBlocks(b) \cup {b}, b)[1] # NoBlock
  BY DEF ForkHasJoin
<1> DEFINE held == KeptBlocks(b) \cup {b}
           join == JoinPoint(held, b)
<1>0. /\ \A x \in Block : Height[x] \in Nat
      /\ blocks \subseteq Block /\ lastBlock \in Block /\ Interval \in Nat \ {0} /\ ChainTypes
      /\ Branch[b] \subseteq Block
  BY BlocksBelow, BranchHeights, ChainAssumption DEF ChainInv, ChainTypes
<1>1. Parent[b] \in blocks
  BY DEF OnFork
<1>2. Height[b] = Height[Parent[b]] + 1 /\ Height[b] = Height[lastBlock] + 1
  <2>1. Height[b] = Height[Parent[b]] + 1 /\ Height[b] <= Height[lastBlock] + 1
    BY <1>1, NextHeight
  <2> QED
    BY <1>0, <2>1
<1>3. PICK z \in Branch[b] \cap Branch[lastBlock] :
         \A u \in Branch[b] \cap Branch[lastBlock] : Height[u] <= Height[z]
  BY <1>0, LastCommon
<1>4. Height[z] > Height[lastBlock] - Interval /\ Height[z] \in Nat
  <2>1. Height[lastBlock] <= Height[b]
    BY <1>0
  <2>2. PICK w \in Branch[b] \cap Branch[lastBlock] : Height[w] > Height[lastBlock] - Interval
    BY <1>0, <2>1 DEF ShortForks
  <2>3. Height[w] <= Height[z] /\ Height[w] \in Nat /\ Height[z] \in Nat
    BY <1>0, <1>3, <2>2
  <2> QED
    BY <1>0, <2>2, <2>3
<1>5. ASSUME NEW x \in blocks, x \notin KeptBlocks(b) PROVE Height[x] < Height[z]
  <2>1. Height[x] + Interval < Height[b] /\ Height[x] \in Nat
    BY <1>0, <1>1, <1>5, KeepsInterval
  <2> QED
    BY <1>0, <1>2, <1>4, <2>1
<1>6. ASSUME NEW u \in Branch[b] \cap held, Height[u] > Height[z] PROVE Parent[u] \in held
  <2>1. u \in Block /\ u # Checkpoint
    BY <1>0, <1>4, <1>6, ChainAssumption
  <2>2. Parent[u] \in Block /\ Height[u] = Height[Parent[u]] + 1 /\ Height[Parent[u]] \in Nat
    BY <2>1, BranchBelow
  <2>3. Height[Parent[u]] >= Height[z]
    BY <1>4, <1>6, <2>2
  <2>4. Parent[u] \in blocks
    <3>1. CASE u = b
      BY <1>1, <3>1
    <3>2. CASE u # b /\ Parent[u] \notin blocks
      <4>1. u \in blocks
        BY <1>6, <3>2, KeptIsHeld
      <4>2. Height[Parent[u]] + Interval <= Height[lastBlock] \/ u \in Branch[lastBlock]
        BY <2>1, <3>2, <4>1 DEF RootInv
      <4>3. CASE Height[Parent[u]] + Interval <= Height[lastBlock]
        BY <1>0, <1>4, <2>2, <2>3, <4>3
      <4>4. CASE u \in Branch[lastBlock]
        <5>1. Height[u] <= Height[z]
          BY <1>3, <1>6, <4>4
        <5> QED
          BY <1>0, <1>4, <1>6, <2>1, <5>1
      <4> QED
        BY <4>2, <4>3, <4>4
    <3> QED
      BY <3>1, <3>2
  <2>5. Parent[u] \in KeptBlocks(b)
    <3> SUFFICES ASSUME Parent[u] \notin KeptBlocks(b) PROVE FALSE
      OBVIOUS
    <3>1. Height[Parent[u]] < Height[z]
      BY <1>5, <2>4
    <3> QED
      BY <1>4, <2>2, <2>3, <3>1
  <2> QED
    BY <2>5
<1>7. held \in SUBSET Block /\ b \in held /\ Height[lastBlock] <= Height[b]
  BY <1>0, KeptIsHeld
<1>8. \A y \in Branch[b] \cap Branch[lastBlock] :
         /\ b \in held /\ Height[lastBlock] <= Height[b]
         /\ \A u \in Branch[b] \cap held : Height[u] > Height[y] => Parent[u] \in held
         => join[1] # NoBlock
  <2>1. join = JoinPoint(held, b)
    OBVIOUS
  <2> HIDE DEF held, join
  <2>2. \A j : j = JoinPoint(held, b) /\ lastBlock = lastBlock =>
           \A y \in Branch[b] \cap Branch[lastBlock] :
              /\ b \in held /\ Height[lastBlock] <= Height[b]
              /\ \A u \in Branch[b] \cap held : Height[u] > Height[y] => Parent[u] \in held
              => j[1] # NoBlock
    <3>1. held \in SUBSET Block /\ b \in Block /\ lastBlock \in Block
      BY <1>0, <1>7
    <3>2. ASSUME NEW j, j = JoinPoint(held, b), NEW y \in Branch[b] \cap Branch[lastBlock],
                 b \in held, Height[lastBlock] <= Height[b],
                 \A u \in Branch[b] \cap held : Height[u] > Height[y] => Parent[u] \in held
          PROVE  j[1] # NoBlock
      <4> DEFINE Found(c) ==
                   \A k : k = JoinPoint(held, b) /\ lastBlock = c =>
                     \A x \in Branch[b] \cap Branch[c] :
                        /\ b \in held /\ Height[c] <= Height[b]
                        /\ \A u \in Branch[b] \cap held : Height[u] > Height[x] => Parent[u] \in held
                        => k[1] # NoBlock
      <4>1. \A c \in Block : Found(c)
        <5> SUFFICES ASSUME NEW c \in Block PROVE Found(c)
          OBVIOUS
        <5> QED
          BY SMTT(30), <3>1, JoinMeets
      <4>2. Found(lastBlock)
        <5> HIDE DEF Found
        <5> QED
          BY <3>1, <4>1
      <4> QED
        BY <3>2, <4>2
    <3> QED
      BY <3>2
  <2> QED
    BY <2>1, <2>2, Zenon
<1> HIDE DEF join, held
<1>9. join[1] # NoBlock
  BY <1>3, <1>6, <1>7, <1>8
<1> QED
  BY <1>9 DEF join, held

\* While forks are no longer than a difficulty interval, the blocks that transitions free
\* and those a restart does not load are never the ones a reorganisation needs: the walk
\* back along a fork that is now longer always finds a block to mark transactions from.
THEOREM ForksMeet ==
  ASSUME ShortForks
  PROVE  Spec => []ForkHasJoin
<1>1. Init => RootInv
  BY Zenon DEF Init, RootInv
<1>2. ChainInv /\ RootInv => ForkHasJoin
  BY ForkIsHeld
<1> QED
  BY <1>1, <1>2, RootsNext, ChainInvariant, PTL DEF Spec

-----------------------------------------------------------------------------
(* The ledger after each operation *)

\* Dropping transactions ends with a new ledger, or leaves the wallet alone.
LEMMA DropFacts ==
  ASSUME NEW w, NEW lost, NEW q, NEW n \in Nat, DOMAIN q = 1 .. n, Len(q) = n,
         DOMAIN w = DOMAIN EmptyWallet, w.count \in [Chains -> Nat],
         NEW v, v = DropAll(lost, w, q)
  PROVE  DOMAIN v = DOMAIN w /\ v.rate = w.rate /\ v.tip = w.tip /\ (v = w \/ Recomputed(w, v))
<1> DEFINE J(u) == /\ DOMAIN u = DOMAIN w /\ u.rate = w.rate /\ u.tip = w.tip /\ u.count = w.count
                   /\ u = w \/ Recomputed(w, u)
<1>1. PICK f : StepsTo("drop", lost, q, w, f, v)
  BY DropSteps, Zenon
<1>2. f[0] = w /\ f[n] = v /\ \A k \in 1 .. n : f[k] = StepOf("drop", lost, f[k - 1], q[k])
  BY <1>1 DEF StepsTo
<1>3. ASSUME NEW u, J(u), NEW x PROVE J(StepOf("drop", lost, u, x))
  <2>1. StepOf("drop", lost, u, x) = u \/ StepOf("drop", lost, u, x) = RemoveTx(u, x)
    BY Zenon DEF StepOf
  <2>2. PICK y : /\ DOMAIN y = DOMAIN u /\ y.rate = u.rate /\ y.tip = u.tip /\ y.count = u.count
                 /\ RemoveTx(u, x) = UpdateBalance(y)
    BY <1>3, RemoveFacts
  <2> DEFINE r == RemoveTx(u, x)
  <2>3. DOMAIN r = DOMAIN w /\ r.rate = w.rate /\ r.tip = w.tip /\ r.count = w.count
    BY <1>3, <2>2, UpdateFields
  <2>4. SameBut(UpdateBalance(y), r)
    BY <2>2 DEF SameBut, AddrsOK
  <2>5. Recomputed(w, r)
    BY <1>3, <2>2, <2>4 DEF Recomputed
  <2>6. J(r)
    BY <2>3, <2>5
  <2> HIDE DEF J
  <2> QED
    BY <1>3, <2>1, <2>6
<1> DEFINE T == {k \in 0 .. n : J(f[k])}
<1>4. J(w)
  OBVIOUS
<1> HIDE DEF J
<1>5. 0 \in T
  BY <1>2, <1>4
<1>6. ASSUME NEW k \in 0 .. n - 1, k \in T PROVE k + 1 \in T
  <2>1. k + 1 \in 1 .. n /\ (k + 1) - 1 = k /\ k + 1 \in 0 .. n
    OBVIOUS
  <2>2. f[k + 1] = StepOf("drop", lost, f[k], q[k + 1])
    BY <1>2, <2>1
  <2> QED
    BY <1>3, <1>6, <2>1, <2>2
<1>7. n \in T
  <2>1. \A k \in 0 .. n - 1 : k \in T => k + 1 \in T
    BY <1>6
  <2>2. n \in 0 .. n
    OBVIOUS
  <2> HIDE DEF T
  <2>3. \A k \in 0 .. n : k \in T
    BY <1>5, <2>1, CountUp, Zenon
  <2> QED
    BY <2>2, <2>3
<1>8. J(v)
  BY <1>2, <1>7
<1> QED
  BY <1>8 DEF J

\* Loading the saved transactions changes neither the fee rate nor the height.
LEMMA LoadFacts ==
  ASSUME NEW w, NEW q, NEW n \in Nat, DOMAIN q = 1 .. n, Len(q) = n, DOMAIN w = DOMAIN EmptyWallet,
         NEW v, v = LoadAll(w, q)
  PROVE  /\ DOMAIN v = DOMAIN w /\ v.rate = w.rate /\ v.tip = w.tip
         /\ v.count = w.count /\ v.ledger = w.ledger
<1> DEFINE J(u) == /\ DOMAIN u = DOMAIN w /\ u.rate = w.rate /\ u.tip = w.tip
                   /\ u.count = w.count /\ u.ledger = w.ledger
<1>1. PICK f : StepsTo("load", {}, q, w, f, v)
  BY LoadSteps, Zenon
<1>2. f[0] = w /\ f[n] = v /\ \A k \in 1 .. n : f[k] = StepOf("load", {}, f[k - 1], q[k])
  BY <1>1 DEF StepsTo
<1>3. ASSUME NEW u, J(u), NEW x PROVE J(StepOf("load", {}, u, x))
  <2> DEFINE known == [u EXCEPT !.all = @ \cup {x}]
  <2>1. StepOf("load", {}, u, x) = InsertTx(known, x)
    BY Zenon DEF StepOf
  <2>2. /\ DOMAIN known = DOMAIN w /\ known.rate = w.rate /\ known.tip = w.tip
        /\ known.count = w.count /\ known.ledger = w.ledger
    BY <1>3, WalletFields
  <2> HIDE DEF known
  <2>3. PICK r : InsertTx(known, x) = [known EXCEPT !.list = r]
    BY Zenon DEF InsertTx
  <2> QED
    BY <2>1, <2>2, <2>3, WalletFields
<1> DEFINE T == {k \in 0 .. n : J(f[k])}
<1> HIDE DEF J
<1>5. 0 \in T
  BY <1>2 DEF J
<1>6. ASSUME NEW k \in 0 .. n - 1, k \in T PROVE k + 1 \in T
  <2>1. k + 1 \in 1 .. n /\ (k + 1) - 1 = k /\ k + 1 \in 0 .. n
    OBVIOUS
  <2>2. f[k + 1] = StepOf("load", {}, f[k], q[k + 1])
    BY <1>2, <2>1
  <2> QED
    BY <1>3, <1>6, <2>1, <2>2
<1>7. n \in T
  <2>1. \A k \in 0 .. n - 1 : k \in T => k + 1 \in T
    BY <1>6
  <2>2. n \in 0 .. n
    OBVIOUS
  <2> HIDE DEF T
  <2>3. \A k \in 0 .. n : k \in T
    BY <1>5, <2>1, CountUp, Zenon
  <2> QED
    BY <2>2, <2>3
<1>8. J(v)
  BY <1>2, <1>7
<1> QED
  BY <1>8 DEF J

\* A wallet that BRWalletNew made has a new ledger.
LEMMA NewFacts ==
  ASSUME NEW q \in Seq(Tx), BodiesOK, NEW height, NEW stamped
  PROVE  LET v == WalletNew(q, height, stamped)
         IN DOMAIN v = DOMAIN EmptyWallet /\ v.rate = DefaultFeePerKb /\ v.tip = 0 /\ Recomputed(EmptyWallet, v)
<1> DEFINE start == [EmptyWallet EXCEPT !.height = height, !.stamped = stamped]
           used == UNION {OutputAddrs(t) : t \in ToSet(q)}
           loaded == LoadAll(start, q)
           y == [loaded EXCEPT !.ledger.used = used]
           x == NewAddrs(y)
           v == WalletNew(q, height, stamped)
<1>1. v = UpdateBalance(x)
  BY Zenon DEF WalletNew, LoadAll
<1>2. /\ DOMAIN start = DOMAIN EmptyWallet /\ start.rate = DefaultFeePerKb /\ start.tip = 0
      /\ start.count = [c \in Chains |-> 0] /\ "used" \in DOMAIN start.ledger
  BY DEF EmptyWallet, EmptyLedger
<1> HIDE DEF start
<1>3. /\ DOMAIN loaded = DOMAIN EmptyWallet /\ loaded.rate = DefaultFeePerKb /\ loaded.tip = 0
      /\ loaded.count = [c \in Chains |-> 0] /\ "used" \in DOMAIN loaded.ledger
  <2>1. Len(q) \in Nat /\ DOMAIN q = 1 .. Len(q)
    OBVIOUS
  <2>2. /\ DOMAIN loaded = DOMAIN start /\ loaded.rate = start.rate /\ loaded.tip = start.tip
        /\ loaded.count = start.count /\ loaded.ledger = start.ledger
    BY <1>2, <2>1, LoadFacts, Zenon
  <2> HIDE DEF loaded
  <2> QED
    BY <1>2, <2>2
<1>10. Bounded(used)
  BY ListBounded
<1> HIDE DEF loaded, used
<1>4. /\ DOMAIN y = DOMAIN EmptyWallet /\ y.rate = DefaultFeePerKb /\ y.tip = 0
      /\ y.count = [c \in Chains |-> 0] /\ Bounded(y.ledger.used)
  <2>1. /\ DOMAIN y = DOMAIN EmptyWallet /\ y.rate = DefaultFeePerKb /\ y.tip = 0
        /\ y.count = [c \in Chains |-> 0]
    BY <1>3, WalletFields
  <2>2. y.ledger.used = used
    BY <1>3, WalletFields
  <2> HIDE DEF y
  <2> QED
    BY <1>10, <2>1, <2>2
<1>11. AddrsOK(y)
  BY <1>4 DEF AddrsOK
<1> HIDE DEF y
<1>5. /\ DOMAIN x = DOMAIN EmptyWallet /\ x.rate = DefaultFeePerKb /\ x.tip = 0
      /\ x.count \in [Chains -> Nat]
  <2>1. SameBut(y, x)
    BY <1>4, BothAddrsKeep
  <2> QED
    BY <1>4, <1>11, <2>1 DEF SameBut
<1> HIDE DEF x, v
<1>6. DOMAIN v = DOMAIN EmptyWallet /\ v.rate = DefaultFeePerKb /\ v.tip = 0
  BY <1>1, <1>5, UpdateFields
<1>7. SameBut(UpdateBalance(x), v)
  BY <1>1 DEF SameBut, AddrsOK
<1>8. EmptyWallet.rate = DefaultFeePerKb /\ EmptyWallet.tip = 0
  BY DEF EmptyWallet
<1>9. Recomputed(EmptyWallet, v)
  BY <1>5, <1>7, <1>8 DEF Recomputed
<1> QED
  BY <1>6, <1>9 DEF v

\* The blocks of the new branch give their transactions heights; as long as none
\* that is listed is freed, the ledger stays right.
LEMMA ConfirmFacts ==
  ASSUME NEW w, NEW at, NEW q, NEW n \in Nat, DOMAIN q = 1 .. n, Len(q) = n,
         \A k \in 1 .. n : q[k] \in Nat /\ q[k] < Unconfirmed,
         RightWallet(w), IsWallet(w), BodiesOK,
         NEW v, v = ConfirmAll(at, w, q)
  PROVE  /\ DOMAIN v = DOMAIN w /\ v.list = w.list
         /\ ToSet(w.list) \subseteq v.all => RightWallet(v)
<1> DEFINE J(u) == /\ DOMAIN u = DOMAIN w /\ u.list = w.list
                   /\ ToSet(w.list) \subseteq u.all => RightWallet(u)
<1>1. PICK f : StepsTo("height", at, q, w, f, v)
  BY ConfirmSteps, Zenon
<1>2. f[0] = w /\ f[n] = v /\ \A k \in 1 .. n : f[k] = StepOf("height", at, f[k - 1], q[k])
  BY <1>1 DEF StepsTo
<1>3. ASSUME NEW u, J(u), NEW h \in Nat, h < Unconfirmed PROVE J(StepOf("height", at, u, h))
  <2> DEFINE txs == BlockTx[at[h]]
             r == UpdateTxs(u, txs, h, TRUE)
  <2>1. StepOf("height", at, u, h) = u \/ StepOf("height", at, u, h) = r
    BY Zenon DEF StepOf
  <2>2. DOMAIN u = DOMAIN EmptyWallet /\ IsWallet(u)
    BY <1>3 DEF IsWallet
  <2>3. Updated(u, r, txs, h)
    BY <2>2, UpdateTxsFacts
  <2>4. DOMAIN r = DOMAIN w /\ r.list = w.list /\ r.all \subseteq u.all
    BY <1>3, <2>3 DEF Updated
  <2>5. ASSUME ToSet(w.list) \subseteq r.all PROVE RightWallet(r)
    <3>1. RightWallet(u) /\ ToSet(u.list) \subseteq r.all
      BY <1>3, <2>4, <2>5
    <3>2. h # Unconfirmed
      BY <1>3, BlocksBelow
    <3> HIDE DEF r, txs
    <3> QED
      BY <2>2, <2>3, <3>1, <3>2, UpdatedIsRight
  <2>6. J(r)
    BY <2>4, <2>5
  <2> HIDE DEF J, r
  <2> QED
    BY <1>3, <2>1, <2>6
<1> DEFINE T == {k \in 0 .. n : J(f[k])}
<1> HIDE DEF J
<1>5. 0 \in T
  BY <1>2 DEF J
<1>6. ASSUME NEW k \in 0 .. n - 1, k \in T PROVE k + 1 \in T
  <2>1. k + 1 \in 1 .. n /\ (k + 1) - 1 = k /\ k + 1 \in 0 .. n
    OBVIOUS
  <2>2. f[k + 1] = StepOf("height", at, f[k], q[k + 1])
    BY <1>2, <2>1
  <2>3. q[k + 1] \in Nat /\ q[k + 1] < Unconfirmed
    BY <2>1
  <2> QED
    BY <1>3, <1>6, <2>1, <2>2, <2>3
<1>7. n \in T
  <2>1. \A k \in 0 .. n - 1 : k \in T => k + 1 \in T
    BY <1>6
  <2>2. n \in 0 .. n
    OBVIOUS
  <2> HIDE DEF T
  <2>3. \A k \in 0 .. n : k \in T
    BY <1>5, <2>1, CountUp, Zenon
  <2> QED
    BY <2>2, <2>3
<1>8. J(v)
  BY <1>2, <1>7
<1> QED
  BY <1>8 DEF J

\* The ledger depends on the contents of the listed transactions only.
LEMMA SameBodies ==
  ASSUME NEW v, RightWallet(v), v.list \in Seq(Tx), \A t \in ToSet(v.list) : body'[t] = body[t]
  PROVE  RightWallet(v)'
<1> DEFINE l == v.ledger
           counted == Counted(v)
           last == Max({0} \cup {k \in DOMAIN v.list : v.list[k] \in counted})
           spenders == {v.list[k] : k \in 1 .. last} \ l.invalid
           outs == {o \in UNION {{<<t, n>> : n \in DOMAIN body[t].out} : t \in counted} :
                       OutputOf(o).addr \in AddrsUpTo(l.known)}
           free == {o \in outs : \A t \in spenders : o \notin Inputs(t)}
<1>1. counted \subseteq ToSet(v.list) /\ counted' = counted
  BY DEF Counted
<1>2. last \in 0 .. Len(v.list)
  <2> DEFINE S == {0} \cup {k \in DOMAIN v.list : v.list[k] \in counted}
  <2>1. S \in SUBSET (0 .. Len(v.list)) /\ S # {} /\ Len(v.list) \in Nat
    OBVIOUS
  <2>2. Max(S) \in S
    <3> HIDE DEF S
    <3> QED
      BY <2>1, LargestBelow
  <2> HIDE DEF S
  <2>3. Max(S) \in 0 .. Len(v.list)
    BY <2>1, <2>2
  <2> QED
    BY <2>3 DEF S
<1>3. last' = last /\ spenders' = spenders
  BY <1>1
<1> HIDE DEF counted, last
<1>4. spenders \subseteq ToSet(v.list)
  BY <1>2 DEF ToSet
<1> HIDE DEF spenders
<1>5. ASSUME NEW t \in ToSet(v.list) PROVE body'[t] = body[t] /\ Inputs(t)' = Inputs(t)
  BY <1>5 DEF Inputs
<1>6. outs' = outs
  <2>1. ASSUME NEW o, NEW t \in counted, o[1] = t PROVE OutputOf(o)' = OutputOf(o)
    BY <1>1, <1>5, <2>1 DEF OutputOf
  <2>2. ASSUME NEW o PROVE o \in outs' <=> o \in outs
    <3>1. o \in UNION {{<<t, n>> : n \in DOMAIN body'[t].out} : t \in counted}
            <=> o \in UNION {{<<t, n>> : n \in DOMAIN body[t].out} : t \in counted}
      BY <1>1
    <3>2. o \in UNION {{<<t, n>> : n \in DOMAIN body[t].out} : t \in counted} => o[1] \in counted
      OBVIOUS
    <3>3. o[1] \in counted => OutputOf(o)' = OutputOf(o)
      BY <2>1
    <3>4. AddrsUpTo(l.known)' = AddrsUpTo(l.known)
      BY DEF AddrsUpTo
    <3>5. o \in outs' <=> /\ o \in UNION {{<<t, n>> : n \in DOMAIN body'[t].out} : t \in counted}
                          /\ OutputOf(o)'.addr \in AddrsUpTo(l.known)
      BY <1>1, <3>4
    <3>6. o \in outs <=> /\ o \in UNION {{<<t, n>> : n \in DOMAIN body[t].out} : t \in counted}
                         /\ OutputOf(o).addr \in AddrsUpTo(l.known)
      OBVIOUS
    <3> HIDE DEF outs
    <3> QED
      BY <3>1, <3>2, <3>3, <3>5, <3>6
  <2> HIDE DEF outs
  <2> QED
    BY <2>2
<1>7. free' = free
  <2> HIDE DEF outs
  <2> QED
    BY <1>3, <1>4, <1>5, <1>6
<1> DEFINE R(f, wo) ==
             /\ ToSet(l.utxos) = f
             /\ \A i, j \in DOMAIN l.utxos : l.utxos[i] = l.utxos[j] => i = j
             /\ l.balance = wo
             /\ l.balance = l.received - l.sent
             /\ Len(l.hist) = Len(v.list) /\ (l.hist # <<>> => Last(l.hist) = l.balance)
<1>8. BalanceRight(v) <=> R(free, Worth(l.utxos))
  BY Zenon DEF BalanceRight, spenders, last, counted
<1>9. BalanceRight(v)' <=> R(free', Worth(l.utxos)')
  BY Zenon DEF BalanceRight, spenders, last, counted
<1>10. ToSet(l.utxos) = free
  <2>1. R(free, Worth(l.utxos))
    BY <1>8 DEF RightWallet
  <2> HIDE DEF free
  <2> QED
    BY <2>1
<1>11. \A o \in ToSet(l.utxos) : o[1] \in ToSet(v.list)
  <2>1. \A o \in free : o[1] \in counted
    OBVIOUS
  <2> HIDE DEF free
  <2> QED
    BY <1>1, <1>10, <2>1
<1> HIDE DEF free, outs
<1>12. l.utxos \in Seq(Outpoints)
  BY DEF RightWallet
<1>13. Worth(l.utxos)' = Worth(l.utxos)
  <2>1. ASSUME NEW k \in DOMAIN l.utxos PROVE AmountOf(l.utxos[k])' = AmountOf(l.utxos[k])
    <3>1. l.utxos[k] \in ToSet(l.utxos)
      BY DEF ToSet
    <3>2. body'[l.utxos[k][1]] = body[l.utxos[k][1]]
      BY <1>5, <1>11, <3>1
    <3> QED
      BY <3>2 DEF AmountOf, OutputOf
  <2>2. [k \in DOMAIN l.utxos |-> AmountOf(l.utxos[k])'] = [k \in DOMAIN l.utxos |-> AmountOf(l.utxos[k])]
    BY <2>1, Zenon
  <2> QED
    BY <2>2, Zenon DEF Worth
<1>14. BalanceRight(v)'
  <2>1. BalanceRight(v)
    BY DEF RightWallet
  <2> HIDE DEF R
  <2> QED
    BY <1>7, <1>8, <1>9, <1>13, <2>1
<1>15. SpendOnce(v)'
  <2>1. SpendOnce(v)
    BY DEF RightWallet
  <2> QED
    BY <1>5, <2>1 DEF SpendOnce
<1>16. (v.ledger.utxos \in Seq(Outpoints))'
  <2>1. ASSUME NEW k \in 1 .. Len(l.utxos) PROVE l.utxos[k] \in Outpoints'
    <3>1. l.utxos[k] \in ToSet(l.utxos) /\ l.utxos[k] \in Outpoints
      BY <1>12 DEF ToSet
    <3>2. body'[l.utxos[k][1]] = body[l.utxos[k][1]]
      BY <1>5, <1>11, <3>1
    <3> QED
      BY <3>1, <3>2 DEF Outpoints
  <2> DEFINE N == Outpoints'
  <2> HIDE DEF N
  <2>2. l.utxos \in Seq(N)
    <3>1. \A k \in 1 .. Len(l.utxos) : l.utxos[k] \in N
      BY <2>1 DEF N
    <3> QED
      BY <1>12, <3>1
  <2> QED
    BY <2>2 DEF N
<1>17. (DOMAIN v = DOMAIN EmptyWallet /\ v.rate \in Nat /\ AddrsOK(v))'
  <2>1. DOMAIN v = DOMAIN EmptyWallet /\ v.rate \in Nat /\ AddrsOK(v)
    BY DEF RightWallet
  <2>2. (DOMAIN EmptyWallet)' = DOMAIN EmptyWallet
    BY DEF EmptyWallet
  <2> QED
    BY <2>1, <2>2
<1> QED
  BY <1>14, <1>15, <1>16, <1>17 DEF RightWallet

-----------------------------------------------------------------------------
(* The ledger along every behaviour *)

\* The database's own transactions have been created.
OwnBodies == \A t \in ToSet(rows) \cap OwnTx : body[t] # NoBody

WalletInv == RightWallet(wallet) /\ rows \in Seq(Tx) /\ OwnBodies /\ BodiesOK /\ DOMAIN body = Tx

\* What TypeOK says of the list of a wallet.
LEMMA ListFacts ==
  ASSUME NEW v, v.list \in Seq(v.all), v.all \subseteq Tx,
         \A i, j \in DOMAIN v.list : v.list[i] = v.list[j] => i = j
  PROVE  v.list \in Seq(Tx) /\ Once(v.list) /\ ToSet(v.list) \subseteq v.all
<1>1. v.list \in Seq(Tx)
  OBVIOUS
<1>2. ToSet(v.list) \subseteq v.all
  BY DEF ToSet
<1> QED
  BY <1>1, <1>2 DEF Once

LEMMA IsList ==
  ASSUME TypeOK, RightWallet(wallet)
  PROVE  IsWallet(wallet) /\ ToSet(wallet.list) \subseteq wallet.all
<1>1. wallet.list \in Seq(Tx) /\ Once(wallet.list) /\ ToSet(wallet.list) \subseteq wallet.all
  BY ListFacts DEF TypeOK
<1> QED
  BY <1>1 DEF IsWallet, RightWallet

LEMMA NextList ==
  ASSUME TypeOK'
  PROVE  /\ wallet'.list \in Seq(Tx) /\ Once(wallet'.list) /\ ToSet(wallet'.list) \subseteq wallet'.all
         /\ ToSet(rows') = ToSet(wallet'.list)
<1> DEFINE v == wallet'
<1>1. v.list \in Seq(v.all) /\ v.all \subseteq Tx /\ \A i, j \in DOMAIN v.list : v.list[i] = v.list[j] => i = j
  BY DEF TypeOK
<1>2. ToSet(rows') = ToSet(v.list)
  BY DEF TypeOK, ToSet
<1> HIDE DEF v
<1>3. v.list \in Seq(Tx) /\ Once(v.list) /\ ToSet(v.list) \subseteq v.all
  BY <1>1, ListFacts
<1> QED
  BY <1>2, <1>3 DEF v

\* An operation that leaves the ledger right and changes no listed contents.
LEMMA StaysRight ==
  ASSUME TypeOK', RightWallet(wallet'), \A t \in ToSet(rows') : body'[t] = body[t]
  PROVE  RightWallet(wallet)'
<1>1. wallet'.list \in Seq(Tx) /\ ToSet(rows') = ToSet(wallet'.list)
  BY NextList
<1>2. \A t \in ToSet(wallet'.list) : body'[t] = body[t]
  BY <1>1
<1> DEFINE v == wallet'
<1>3. RightWallet(v) /\ v.list \in Seq(Tx) /\ \A t \in ToSet(v.list) : body'[t] = body[t]
  BY <1>1, <1>2
<1> QED
  BY <1>3, SameBodies

\* Neither the contents nor the database change.
LEMMA NothingCreated ==
  ASSUME WalletInv, TypeOK', RightWallet(wallet'), body' = body, rows' = rows
  PROVE  WalletInv'
<1>1. RightWallet(wallet)'
  BY StaysRight
<1>2. BodiesOK' /\ OwnBodies' /\ (rows \in Seq(Tx))' /\ DOMAIN body' = Tx
  BY DEF BodiesOK, OwnBodies, WalletInv, ToSet
<1> QED
  BY <1>1, <1>2 DEF WalletInv

LEMMA RegisterRight ==
  ASSUME WalletInv, TypeOK, TypeOK', NEW t, wallet' = Register(wallet, t)
  PROVE  RightWallet(wallet')
<1> DEFINE v == Register(wallet, t)
<1>1. /\ DOMAIN wallet = DOMAIN EmptyWallet /\ wallet.rate \in Nat /\ RightWallet(wallet) /\ BodiesOK
      /\ wallet.count \in [Chains -> Nat]
  BY DEF WalletInv, RightWallet, AddrsOK
<1>2. /\ DOMAIN v = DOMAIN wallet /\ v.rate = wallet.rate
      /\ \/ /\ v.list = wallet.list /\ v.ledger = wallet.ledger /\ v.height = wallet.height
            /\ v.count = wallet.count
         \/ Recomputed(wallet, v)
  BY <1>1, RegisterFacts
<1>3. v.list \in Seq(Tx) /\ Once(v.list)
  BY NextList
<1> HIDE DEF v
<1>4. CASE Recomputed(wallet, v)
  BY <1>1, <1>3, <1>4, RecomputedIsRight DEF v
<1>5. CASE /\ v.list = wallet.list /\ v.ledger = wallet.ledger /\ v.height = wallet.height
           /\ v.count = wallet.count
  BY <1>1, <1>2, <1>5, SameIsRight DEF v
<1> QED
  BY <1>2, <1>4, <1>5

\* A transaction joins the database, or not.
LEMMA RowAdded ==
  ASSUME WalletInv, TypeOK', RightWallet(wallet'), NEW t \in Tx, body' = body,
         rows' \in {rows, Append(rows, t)}, t \in OwnTx => body[t] # NoBody
  PROVE  WalletInv'
<1>1. RightWallet(wallet)'
  BY StaysRight
<1>2. rows \in Seq(Tx)
  BY DEF WalletInv
<1>3. rows' \in Seq(Tx) /\ ToSet(rows') \subseteq ToSet(rows) \cup {t}
  <2>1. ToSet(Append(rows, t)) = ToSet(rows) \cup {t}
    BY <1>2, SetOfAppend
  <2>2. Append(rows, t) \in Seq(Tx)
    BY <1>2
  <2>3. CASE rows' = rows
    BY <1>2, <2>3
  <2>4. CASE rows' = Append(rows, t)
    BY <2>1, <2>2, <2>4
  <2> QED
    BY <2>3, <2>4, Zenon
<1>4. OwnBodies'
  <2>1. \A x \in ToSet(rows') \cap OwnTx : body'[x] # NoBody
    BY <1>3 DEF OwnBodies, WalletInv
  <2> QED
    BY <2>1, Zenon DEF OwnBodies
<1>5. BodiesOK' /\ DOMAIN body' = Tx
  BY DEF BodiesOK, WalletInv
<1> QED
  BY <1>1, <1>3, <1>4, <1>5 DEF WalletInv

LEMMA RelayRight ==
  ASSUME WalletInv, TypeOK, TypeOK', NEW t \in NetTx, RelayTx(t)
  PROVE  WalletInv'
<1>1. wallet' = Register(wallet, t) /\ body' = body /\ rows' \in {rows, Append(rows, t)}
  BY DEF RelayTx
<1>2. t \in Tx /\ t \notin OwnTx
  BY WalletAssumption DEF Tx
<1>3. RightWallet(wallet')
  BY <1>1, RegisterRight
<1> QED
  BY <1>1, <1>2, <1>3, RowAdded

LEMMA RequestRight ==
  ASSUME WalletInv, TypeOK, TypeOK', NEW t \in OwnTx, RequestTx(t)
  PROVE  WalletInv'
<1>1. /\ wallet' = Register(wallet, t) /\ body' = body /\ rows' \in {rows, Append(rows, t)}
      /\ body[t] # NoBody
  BY DEF RequestTx
<1>2. t \in Tx
  BY DEF Tx
<1>3. RightWallet(wallet')
  BY <1>1, RegisterRight
<1> QED
  BY <1>1, <1>2, <1>3, RowAdded

LEMMA VerifiedRight ==
  ASSUME WalletInv, TypeOK, TypeOK', NEW t \in Tx, NEW verified \in BOOLEAN, MarkVerified(t, verified)
  PROVE  WalletInv'
<1> DEFINE v == UpdateTxs(wallet, {t}, Unconfirmed, verified)
<1>1. wallet' = v /\ body' = body /\ rows' = rows /\ wallet.height[t] = Unconfirmed
  BY DEF MarkVerified
<1>2. DOMAIN wallet = DOMAIN EmptyWallet /\ RightWallet(wallet) /\ BodiesOK
  BY DEF WalletInv, RightWallet
<1>3. Updated(wallet, v, {t}, Unconfirmed)
  BY <1>2, UpdateTxsFacts
<1>4. ToSet(wallet.list) \subseteq v.all
  BY <1>1, <1>3, NextList DEF Updated
<1>5. IsWallet(wallet)
  BY <1>2, IsList
<1> HIDE DEF v
<1>6. RightWallet(v)
  BY <1>1, <1>2, <1>3, <1>4, <1>5, UpdatedIsRight
<1> QED
  BY <1>1, <1>6, NothingCreated

LEMMA FilterRight ==
  ASSUME WalletInv, TypeOK, TypeOK', LoadBloomFilter
  PROVE  WalletInv'
<1>1. wallet' = SpareAddrs(wallet) /\ body' = body /\ rows' = rows
  BY DEF LoadBloomFilter
<1>2. DOMAIN wallet = DOMAIN EmptyWallet /\ RightWallet(wallet)
  BY DEF WalletInv, RightWallet
<1>3. SameBut(wallet, SpareAddrs(wallet))
  BY <1>2, BothAddrsKeep
<1>4. RightWallet(wallet')
  BY <1>1, <1>2, <1>3, SameButIsRight
<1> QED
  BY <1>1, <1>4, NothingCreated

LEMMA FeeRight ==
  ASSUME WalletInv, TypeOK, TypeOK', NEW rate \in Fees, SetFeePerKb(rate)
  PROVE  WalletInv'
<1> DEFINE v == [wallet EXCEPT !.rate = rate]
<1>1. wallet' = v /\ body' = body /\ rows' = rows /\ rate \in Nat
  BY WalletAssumption DEF SetFeePerKb
<1>2. DOMAIN wallet = DOMAIN EmptyWallet /\ RightWallet(wallet) /\ wallet.count \in [Chains -> Nat]
  BY DEF WalletInv, RightWallet, AddrsOK
<1>3. /\ DOMAIN v = DOMAIN wallet /\ v.list = wallet.list /\ v.ledger = wallet.ledger
      /\ v.rate \in Nat /\ v.height = wallet.height /\ v.count = wallet.count
  BY <1>1, <1>2, WalletFields
<1> HIDE DEF v
<1>4. RightWallet(v)
  BY <1>2, <1>3, SameIsRight
<1> QED
  BY <1>1, <1>4, NothingCreated

LEMMA UnchangedRight ==
  ASSUME WalletInv, TypeOK, TypeOK', UNCHANGED walletVars
  PROVE  WalletInv'
<1>1. wallet' = wallet /\ body' = body /\ rows' = rows
  BY DEF walletVars
<1>2. RightWallet(wallet')
  BY <1>1 DEF WalletInv
<1> QED
  BY <1>1, <1>2, NothingCreated

\* The transactions that are looked at for removal.
LEMMA QueueIsSeq ==
  ASSUME NEW w, w.list \in Seq(Tx)
  PROVE  LET q == TxUnconfirmedBefore(w, Unconfirmed)
         IN \E n \in Nat : DOMAIN q = 1 .. n /\ Len(q) = n
<1> DEFINE S == {0} \cup {k \in DOMAIN w.list : w.height[w.list[k]] < Unconfirmed}
           from == Max(S)
           q == TxUnconfirmedBefore(w, Unconfirmed)
<1>1. S \in SUBSET (0 .. Len(w.list)) /\ S # {} /\ Len(w.list) \in Nat
  OBVIOUS
<1>2. from \in 0 .. Len(w.list)
  <2> HIDE DEF S
  <2> QED
    BY <1>1, LargestBelow
<1>3. q = SubSeq(w.list, from + 1, Len(w.list))
  BY Zenon DEF TxUnconfirmedBefore
<1> HIDE DEF from, q
<1>4. q \in Seq(Tx)
  BY <1>2, <1>3
<1>5. \E n \in Nat : DOMAIN q = 1 .. n /\ Len(q) = n
  BY <1>4
<1> QED
  BY <1>5, Zenon DEF q


LEMMA DropRight ==
  ASSUME WalletInv, TypeOK, TypeOK', NEW lost, DropUnrelayed(lost)
  PROVE  WalletInv'
<1> DEFINE q == TxUnconfirmedBefore(wallet, Unconfirmed)
           v == DropAll(lost, wallet, q)
<1>1. wallet' = v /\ rows' = Keep(rows, ToSet(v.list)) /\ body' = body
  BY Zenon DEF DropUnrelayed, DropAll
<1>2. /\ DOMAIN wallet = DOMAIN EmptyWallet /\ RightWallet(wallet) /\ BodiesOK
      /\ wallet.rate \in Nat /\ wallet.count \in [Chains -> Nat]
  BY DEF WalletInv, RightWallet, AddrsOK
<1>3. wallet.list \in Seq(Tx)
  BY <1>2, IsList DEF IsWallet
<1>4. PICK n \in Nat : DOMAIN q = 1 .. n /\ Len(q) = n
  BY <1>3, QueueIsSeq
<1> HIDE DEF q
<1>5. v = wallet \/ Recomputed(wallet, v)
  BY <1>2, <1>4, DropFacts, Zenon
<1>6. v.list \in Seq(Tx) /\ Once(v.list)
  BY <1>1, NextList
<1> HIDE DEF v
<1>7. RightWallet(v)
  BY <1>2, <1>5, <1>6, RecomputedIsRight
<1>8. RightWallet(wallet)'
  BY <1>1, <1>7, StaysRight
<1>9. rows \in Seq(Tx)
  BY DEF WalletInv
<1>10. rows' \in Seq(Tx) /\ ToSet(rows') \subseteq ToSet(rows)
  BY <1>1, <1>9, KeepFacts
<1>11. OwnBodies'
  <2>1. \A x \in ToSet(rows') \cap OwnTx : body'[x] # NoBody
    BY <1>1, <1>10 DEF OwnBodies, WalletInv
  <2> QED
    BY <2>1, Zenon DEF OwnBodies
<1>12. BodiesOK' /\ DOMAIN body' = Tx
  BY <1>1 DEF BodiesOK, WalletInv
<1> QED
  BY <1>8, <1>10, <1>11, <1>12 DEF WalletInv

\* The change is a number.
LEMMA ChangeFacts ==
  ASSUME NEW w, BodiesOK, IsFunded(w), NEW amount \in Nat
  PROVE  ChangeOf(w, amount) \in Nat
<1> DEFINE k == CoinCount(w, amount)
<1>1. k \in 0 .. Len(w.ledger.utxos)
  BY CoinFacts
<1>2. Funds(w, k) \in Int /\ FeeFor(w, amount, k) \in Nat /\ MinOutputAmount(w) \in Nat
  <2> HIDE DEF k
  <2>1. Funds(w, k) \in Int
    BY <1>1, FundsFacts
  <2>2. FeeFor(w, amount, k) \in Nat
    BY <1>1, FeeForFacts
  <2>3. MinOutputAmount(w) \in Nat
    BY LimitFacts DEF IsFunded
  <2> QED
    BY <2>1, <2>2, <2>3
<1> QED
  BY <1>2 DEF ChangeOf

\* The contents of a transaction the wallet creates.
LEMMA CreatedFacts ==
  ASSUME NEW w, DOMAIN w = DOMAIN EmptyWallet, BodiesOK, IsFunded(w), AddrsOK(w),
         NEW amount \in Nat, NEW swap
  PROVE  LET b == CreatedBody(w, amount, swap)
         IN /\ Len(b.out) \in Nat /\ DOMAIN b.out = 1 .. Len(b.out) /\ b # NoBody
            /\ \A n \in DOMAIN b.out : b.out[n].amount \in Nat /\ b.out[n].addr[2] \in Nat
<1> DEFINE chg == ChangeOf(w, amount)
           b == CreatedBody(w, amount, swap)
<1>3. chg \in Nat
  BY ChangeFacts
<1> DEFINE v == UnusedAddrs(w, "internal", 1)
           p == [addr |-> Foreign, amount |-> amount]
           c == [addr |-> <<"internal", FirstUnused(v, "internal")>>, amount |-> chg]
<1>4. b.out \in {<<p>>, <<c, p>>, <<p, c>>}
  BY DEF CreatedBody
<1>5. NoBody.out = <<>>
  BY DEF NoBody
<1>6. FirstUnused(v, "internal") \in Nat
  <2>1. "internal" \in Chains /\ "count" \in DOMAIN w /\ "ledger" \in DOMAIN w /\ 1 \in Nat
    BY WalletFields DEF Chains
  <2> QED
    BY <2>1, UnusedFacts
<1> HIDE DEF v, chg
<1>7. /\ p.amount \in Nat /\ p.addr[2] \in Nat
      /\ c.amount \in Nat /\ c.addr[2] \in Nat
  BY <1>3, <1>6 DEF Foreign
<1> HIDE DEF b, p, c
<1>8. /\ Len(b.out) \in Nat /\ DOMAIN b.out = 1 .. Len(b.out) /\ b.out # <<>>
      /\ \A n \in DOMAIN b.out : b.out[n].amount \in Nat /\ b.out[n].addr[2] \in Nat
  <2>1. CASE b.out = <<p>>
    BY <1>7, <2>1
  <2>2. CASE b.out = <<c, p>>
    BY <1>7, <2>2
  <2>3. CASE b.out = <<p, c>>
    BY <1>7, <2>3
  <2> QED
    BY <1>4, <2>1, <2>2, <2>3
<1>9. b # NoBody
  BY <1>5, <1>8
<1> QED
  BY <1>8, <1>9 DEF b

LEMMA CreateRight ==
  ASSUME WalletInv, TypeOK, TypeOK', NEW t \in OwnTx, NEW amount \in Amounts, NEW swap \in BOOLEAN,
         CreateTransaction(t, amount, swap)
  PROVE  WalletInv'
<1> DEFINE sent == Settled(wallet, amount)
           b == CreatedBody(wallet, sent, swap)
<1>1. /\ body[t] = NoBody /\ body' = [body EXCEPT ![t] = b] /\ rows' = rows
      /\ amount >= MinOutputAmount(wallet)
      /\ wallet' = wallet \/ wallet' = UnusedAddrs(wallet, "internal", 1)
  BY DEF CreateTransaction, Create
<1>2. /\ DOMAIN wallet = DOMAIN EmptyWallet /\ RightWallet(wallet) /\ BodiesOK
      /\ rows \in Seq(Tx) /\ OwnBodies /\ DOMAIN body = Tx
  BY DEF WalletInv, RightWallet
<1>3. RightWallet(wallet')
  <2>1. "internal" \in Chains /\ 1 \in Nat
    BY DEF Chains
  <2>2. SameBut(wallet, UnusedAddrs(wallet, "internal", 1))
    BY <1>2, <2>1, AddrsKeep
  <2> QED
    BY <1>1, <1>2, <2>2, SameButIsRight
<1>4. IsFunded(wallet) /\ AddrsOK(wallet)
  BY DEF WalletInv, RightWallet, IsFunded, BalanceRight
<1>5. /\ Len(b.out) \in Nat /\ DOMAIN b.out = 1 .. Len(b.out) /\ b # NoBody
      /\ \A n \in DOMAIN b.out : b.out[n].amount \in Nat /\ b.out[n].addr[2] \in Nat
  <2>1. amount \in Nat
    BY WalletAssumption
  <2>2. sent \in Nat
    BY <1>1, <1>2, <1>4, <2>1, SettledFacts
  <2> HIDE DEF sent
  <2> QED
    BY <1>2, <1>4, <2>2, CreatedFacts
<1> HIDE DEF b
<1>6. \A x \in Tx : body'[x] = IF x = t THEN b ELSE body[x]
  BY <1>1, <1>2
<1>7. ToSet(rows) \subseteq Tx /\ t \notin ToSet(rows)
  BY <1>1, <1>2 DEF OwnBodies, ToSet
<1>8. RightWallet(wallet)'
  BY <1>1, <1>3, <1>6, <1>7, StaysRight
<1>9. OwnBodies'
  <2>1. \A x \in ToSet(rows') \cap OwnTx : body'[x] # NoBody
    BY <1>1, <1>2, <1>6, <1>7 DEF OwnBodies
  <2> QED
    BY <2>1, Zenon DEF OwnBodies
<1>10. BodiesOK'
  BY <1>2, <1>5, <1>6 DEF BodiesOK
<1>11. DOMAIN body' = Tx /\ rows' \in Seq(Tx)
  BY <1>1, <1>2
<1> QED
  BY <1>8, <1>9, <1>10, <1>11 DEF WalletInv

\* A block gives its transactions its height, unless it has none.
LEMMA ConfirmedRight ==
  ASSUME WalletInv, TypeOK, NEW b \in Block, NEW v,
         v = wallet \/ v = UpdateTxs(wallet, BlockTx[b], Height[b], TRUE)
  PROVE  /\ DOMAIN v = DOMAIN EmptyWallet /\ v.list = wallet.list
         /\ ToSet(wallet.list) \subseteq v.all => RightWallet(v)
<1>1. DOMAIN wallet = DOMAIN EmptyWallet /\ RightWallet(wallet) /\ BodiesOK
  BY DEF WalletInv, RightWallet
<1>2. IsWallet(wallet)
  BY <1>1, IsList
<1>3. Height[b] # Unconfirmed
  BY BlocksBelow
<1>4. CASE v = UpdateTxs(wallet, BlockTx[b], Height[b], TRUE)
  <2> DEFINE txs == BlockTx[b]
             h == Height[b]
  <2>1. Updated(wallet, v, txs, h)
    BY <1>1, <1>4, UpdateTxsFacts
  <2> HIDE DEF txs, h
  <2>2. ToSet(wallet.list) \subseteq v.all => RightWallet(v)
    BY <1>1, <1>2, <1>3, <2>1, UpdatedIsRight DEF h
  <2> QED
    BY <1>1, <2>1, <2>2 DEF Updated
<1> QED
  BY <1>1, <1>4

\* The filter may be loaded right after.
LEMMA MempoolRight ==
  ASSUME TypeOK', NEW w, NEW phase, DOMAIN w = DOMAIN EmptyWallet, wallet' = LoadMempools(w, phase),
         ToSet(w.list) \subseteq w.all => RightWallet(w)
  PROVE  RightWallet(wallet')
<1>1. SameBut(w, wallet')
  BY BothAddrsKeep
<1>2. ToSet(w.list) \subseteq w.all
  BY <1>1, NextList DEF SameBut
<1> QED
  BY <1>1, <1>2, SameButIsRight

LEMMA ExtendRight ==
  ASSUME WalletInv, TypeOK, TypeOK', NEW b \in Block, NEW phase, ExtendChain(b, phase)
  PROVE  WalletInv'
<1> DEFINE v == IF BlockTx[b] # {} THEN UpdateTxs(wallet, BlockTx[b], Height[b], TRUE) ELSE wallet
<1>1. wallet' = LoadMempools(v, phase) /\ body' = body /\ rows' = rows
  BY DEF ExtendChain
<1>2. v = wallet \/ v = UpdateTxs(wallet, BlockTx[b], Height[b], TRUE)
  BY Zenon
<1> HIDE DEF v
<1>3. /\ DOMAIN v = DOMAIN EmptyWallet /\ v.list = wallet.list
      /\ ToSet(wallet.list) \subseteq v.all => RightWallet(v)
  BY <1>2, ConfirmedRight
<1>4. RightWallet(wallet')
  BY <1>1, <1>3, MempoolRight
<1> QED
  BY <1>1, <1>4, NothingCreated

LEMMA ExistingRight ==
  ASSUME WalletInv, TypeOK, TypeOK', NEW b \in Block, ExistingBlock(b)
  PROVE  WalletInv'
<1>1. /\ wallet' = wallet \/ wallet' = UpdateTxs(wallet, BlockTx[b], Height[b], TRUE)
      /\ body' = body /\ rows' = rows
  BY DEF ExistingBlock
<1>2. wallet'.list = wallet.list /\ (ToSet(wallet.list) \subseteq wallet'.all => RightWallet(wallet'))
  BY <1>1, ConfirmedRight
<1>3. RightWallet(wallet')
  BY <1>2, NextList
<1> QED
  BY <1>1, <1>3, NothingCreated

\* The heights of the blocks of the new branch, newest first.
LEMMA BranchHeightsSeq ==
  ASSUME NEW top \in Nat, top < Unconfirmed, NEW join \in Nat
  PROVE  LET q == [k \in 1 .. top - join |-> top + 1 - k]
         IN \E n \in Nat : /\ DOMAIN q = 1 .. n /\ Len(q) = n
                           /\ \A k \in 1 .. n : q[k] \in Nat /\ q[k] <= top /\ q[k] < Unconfirmed
<1> DEFINE q == [k \in 1 .. top - join |-> top + 1 - k]
           n == IF top >= join THEN top - join ELSE 0
<1>1. n \in Nat /\ 1 .. top - join = 1 .. n
  OBVIOUS
<1>2. \A k \in 1 .. n : q[k] = top + 1 - k /\ top + 1 - k \in Nat /\ top + 1 - k <= top
  OBVIOUS
<1>3. DOMAIN q = 1 .. n
  BY <1>1
<1> HIDE DEF q, n
<1>4. Len(q) = n
  BY <1>1, <1>3
<1>5. \A k \in 1 .. n : q[k] \in Nat /\ q[k] <= top /\ q[k] < Unconfirmed
  BY <1>2, BlocksBelow
<1>6. \E m \in Nat : /\ DOMAIN q = 1 .. m /\ Len(q) = m
                     /\ \A k \in 1 .. m : q[k] \in Nat /\ q[k] <= top /\ q[k] < Unconfirmed
  BY <1>1, <1>3, <1>4, <1>5
<1> QED
  BY <1>6, Zenon DEF q

\* What a reorganisation marks as unconfirmed leaves the ledger right.
LEMMA ResetRight ==
  ASSUME RightWallet(wallet), BodiesOK, IsWallet(wallet), NEW h
  PROVE  LET v == SetTxUnconfirmedAfter(wallet, h)
         IN /\ RightWallet(v) /\ IsWallet(v) /\ DOMAIN v = DOMAIN wallet
            /\ v.list = wallet.list /\ v.all = wallet.all /\ v.count = wallet.count
<1> DEFINE reset == SetTxUnconfirmedAfter(wallet, h)
<1>1. DOMAIN wallet = DOMAIN EmptyWallet /\ wallet.rate \in Nat /\ wallet.count \in [Chains -> Nat]
  BY DEF RightWallet, AddrsOK
<1>2. /\ DOMAIN reset = DOMAIN wallet /\ reset.list = wallet.list /\ reset.all = wallet.all
      /\ reset.count = wallet.count /\ reset.rate = wallet.rate
      /\ \/ reset.ledger = wallet.ledger /\ \A t \in Tx : reset.height[t] = wallet.height[t]
         \/ \E x : DOMAIN x = DOMAIN wallet /\ reset = UpdateBalance(x)
  BY <1>1, UnconfirmedAfterFacts
<1> HIDE DEF reset
<1>3. CASE reset.ledger = wallet.ledger /\ \A t \in Tx : reset.height[t] = wallet.height[t]
  <2>1. ToSet(wallet.list) \subseteq Tx
    BY DEF IsWallet, ToSet
  <2>2. RightWallet(reset)
    BY <1>1, <1>2, <1>3, <2>1, SameIsRight
  <2> QED
    BY <1>2, <2>2 DEF IsWallet, reset
<1>4. ASSUME NEW x, DOMAIN x = DOMAIN wallet, reset = UpdateBalance(x) PROVE RightWallet(reset)
  <2>1. x.list = wallet.list /\ x.rate = wallet.rate /\ x.count = wallet.count
    BY <1>1, <1>2, <1>4, UpdateFields
  <2>2. IsWallet(x)
    BY <1>4, <2>1 DEF IsWallet
  <2> QED
    BY <1>1, <1>4, <2>1, <2>2, UpdateIsRight
<1>5. RightWallet(reset)
  BY <1>2, <1>3, <1>4 DEF reset
<1>6. IsWallet(reset)
  BY <1>2 DEF IsWallet
<1> QED
  BY <1>2, <1>5, <1>6 DEF reset

\* A reorganisation marks transactions as unconfirmed, then gives the ones of the
\* new branch their heights.
LEMMA ReorganizeRight ==
  ASSUME WalletInv, TypeOK, TypeOK', NEW b \in Block, NEW phase, Reorganize(b, phase)
  PROVE  WalletInv'
<1> DEFINE join == JoinPoint(blocks', b)
           h == Height[join[1]]
           reset == SetTxUnconfirmedAfter(wallet, h)
           again == Reconfirm(reset, blocks', b, Height[join[2]])
           v == IF join[2] = NoBlock THEN reset ELSE again
<1>1. wallet' = LoadMempools(v, phase) /\ body' = body /\ rows' = rows
  BY DEF Reorganize
<1>2. DOMAIN wallet = DOMAIN EmptyWallet /\ RightWallet(wallet) /\ BodiesOK
  BY DEF WalletInv, RightWallet
<1>3. IsWallet(wallet) /\ ToSet(wallet.list) \subseteq wallet.all
  BY <1>2, IsList
<1>4. join[2] \in Block \cup {NoBlock}
  <2>1. blocks' \in SUBSET Block /\ lastBlock \in Block
    BY DEF TypeOK
  <2> QED
    BY <2>1, JoinIsBlock
<1> HIDE DEF join
<1>5. /\ RightWallet(reset) /\ IsWallet(reset) /\ DOMAIN reset = DOMAIN wallet
      /\ reset.list = wallet.list /\ reset.all = wallet.all
  <2> HIDE DEF h
  <2> QED
    BY <1>2, <1>3, ResetRight
<1> HIDE DEF reset
<1>6. CASE join[2] = NoBlock
  <2>1. v = reset
    BY <1>6
  <2> HIDE DEF v
  <2>2. RightWallet(wallet')
    BY <1>1, <1>2, <1>5, <2>1, MempoolRight
  <2> QED
    BY <1>1, <2>2, NothingCreated
<1>7. CASE join[2] # NoBlock
  <2> DEFINE top == Height[b]
             low == Height[join[2]]
             at == [x \in Nat |-> CHOOSE y \in {b} \cup Walk(blocks', b) : Height[y] = x]
             q == [k \in 1 .. top - low |-> top + 1 - k]
  <2>1. again = ConfirmAll(at, reset, q)
    BY Zenon DEF Reconfirm, ConfirmAll
  <2>2. top \in Nat /\ top < Unconfirmed /\ low \in Nat
    BY <1>4, <1>7, BlocksBelow
  <2>3. v = again
    BY <1>7
  <2> HIDE DEF top, low, at, v, again
  <2>4. PICK n \in Nat : /\ DOMAIN q = 1 .. n /\ Len(q) = n
                         /\ \A k \in 1 .. n : q[k] \in Nat /\ q[k] < Unconfirmed
    BY <2>2, BranchHeightsSeq
  <2> HIDE DEF q
  <2>5. /\ DOMAIN again = DOMAIN reset /\ again.list = reset.list
        /\ ToSet(reset.list) \subseteq again.all => RightWallet(again)
    <3>1. BodiesOK
      BY <1>2
    <3>2. DOMAIN q = 1 .. n /\ Len(q) = n
      BY <2>4
    <3>3. \A k \in 1 .. n : q[k] \in Nat /\ q[k] < Unconfirmed
      BY <2>4
    <3> QED
      BY <1>5, <2>1, <3>1, <3>2, <3>3, ConfirmFacts
  <2>6. RightWallet(wallet')
    BY <1>1, <1>2, <1>5, <2>3, <2>5, MempoolRight
  <2> QED
    BY <1>1, <2>6, NothingCreated
<1> QED
  BY <1>6, <1>7

\* After a restart the wallet has what the database has, and no created
\* transaction that was never registered.
LEMMA RestartRight ==
  ASSUME WalletInv, TypeOK, TypeOK', Restart
  PROVE  WalletInv'
<1> DEFINE height == [t \in Tx |-> IF t \in ToSet(rows) THEN wallet.height[t] ELSE Unconfirmed]
           stamped == [t \in Tx |-> t \in ToSet(rows) /\ wallet.stamped[t]]
           v == WalletNew(rows, height, stamped)
<1>1. wallet' = v /\ rows' = rows
  BY Zenon DEF Restart
<1>2. body' = [t \in Tx |-> IF t \in OwnTx /\ ~Contains(rows, t) THEN NoBody ELSE body[t]]
  BY DEF Restart
<1>3. rows \in Seq(Tx) /\ BodiesOK /\ OwnBodies
  BY DEF WalletInv
<1> HIDE DEF height, stamped
<1>4. DOMAIN v = DOMAIN EmptyWallet /\ Recomputed(EmptyWallet, v)
  BY <1>3, NewFacts
<1>5. v.list \in Seq(Tx) /\ Once(v.list)
  BY <1>1, NextList
<1>6. EmptyWallet.rate \in Nat
  BY DEF EmptyWallet, DefaultFeePerKb
<1> HIDE DEF v
<1>7. RightWallet(v)
  <2> DEFINE e == EmptyWallet
  <2>1. DOMAIN e = DOMAIN EmptyWallet
    OBVIOUS
  <2> HIDE DEF e
  <2>2. e.rate \in Nat /\ Recomputed(e, v)
    BY <1>4, <1>6 DEF e
  <2> QED
    BY <1>3, <1>5, <2>1, <2>2, RecomputedIsRight
<1>8. \A t \in ToSet(rows) : t \in Tx /\ Contains(rows, t)
  BY <1>3 DEF ToSet, Contains
<1>9. \A t \in ToSet(rows) : body'[t] = body[t]
  BY <1>2, <1>8
<1>10. RightWallet(wallet)'
  BY <1>1, <1>7, <1>9, StaysRight
<1>11. OwnBodies'
  <2>1. \A x \in ToSet(rows') \cap OwnTx : body'[x] # NoBody
    BY <1>1, <1>3, <1>9 DEF OwnBodies
  <2> QED
    BY <2>1, Zenon DEF OwnBodies
<1>12. \A t \in Tx : body'[t] = NoBody \/ body'[t] = body[t]
  BY <1>2
<1>13. BodiesOK'
  <2>1. Len(NoBody.out) = 0 /\ DOMAIN NoBody.out = {} /\ 1 .. 0 = {} /\ 0 \in Nat
    BY DEF NoBody
  <2> QED
    BY <1>3, <1>12, <2>1 DEF BodiesOK
<1>14. DOMAIN body' = Tx /\ rows' \in Seq(Tx)
  BY <1>1, <1>2, <1>3
<1> QED
  BY <1>10, <1>11, <1>13, <1>14 DEF WalletInv

LEMMA WalletInit ==
  ASSUME Init, TypeOK
  PROVE  WalletInv
<1>1. /\ body = [t \in Tx |-> IF t \in NetTx THEN NetBody[t] ELSE NoBody] /\ rows = <<>>
      /\ wallet = WalletNew(<<>>, [t \in Tx |-> Unconfirmed], [t \in Tx |-> FALSE])
  BY DEF Init
<1>2. BodiesOK
  <2>1. Len(NoBody.out) = 0 /\ DOMAIN NoBody.out = {} /\ 1 .. 0 = {} /\ 0 \in Nat
    BY DEF NoBody
  <2>2. ASSUME NEW t \in NetTx
        PROVE  /\ Len(NetBody[t].out) \in Nat /\ DOMAIN NetBody[t].out = 1 .. Len(NetBody[t].out)
               /\ \A n \in DOMAIN NetBody[t].out :
                     NetBody[t].out[n].amount \in Nat /\ NetBody[t].out[n].addr[2] \in Nat
    <3> DEFINE A == {Foreign} \cup (Chains \X Nat)
               q == NetBody[t].out
    <3>1. q \in Seq([addr : A, amount : Nat])
      BY WalletAssumption
    <3>2. \A a \in A : a[2] \in Nat
      <4>1. \A a \in Chains \X Nat : a[2] \in Nat
        OBVIOUS
      <4>2. Foreign[2] \in Nat
        BY DEF Foreign
      <4> QED
        BY <4>1, <4>2
    <3> DEFINE R == [addr : A, amount : Nat]
    <3> HIDE DEF A, q
    <3>4. \A r \in R : r.amount \in Nat /\ r.addr \in A
      OBVIOUS
    <3>5. q \in Seq(R)
      BY <3>1
    <3> HIDE DEF R
    <3>6. Len(q) \in Nat /\ DOMAIN q = 1 .. Len(q) /\ \A n \in DOMAIN q : q[n] \in R
      BY <3>5
    <3>3. /\ Len(q) \in Nat /\ DOMAIN q = 1 .. Len(q)
          /\ \A n \in DOMAIN q : q[n].amount \in Nat /\ q[n].addr \in A
      BY <3>4, <3>6
    <3> QED
      BY <3>2, <3>3 DEF q
  <2> QED
    BY <1>1, <2>1, <2>2 DEF BodiesOK
<1>3. <<>> \in Seq(Tx)
  OBVIOUS
<1>4. Recomputed(EmptyWallet, wallet)
  BY <1>1, <1>2, <1>3, NewFacts
<1>5. wallet.list \in Seq(Tx) /\ Once(wallet.list)
  BY ListFacts DEF TypeOK
<1>6. RightWallet(wallet)
  <2> DEFINE e == EmptyWallet
  <2>1. DOMAIN e = DOMAIN EmptyWallet /\ e.rate \in Nat
    BY DEF EmptyWallet, DefaultFeePerKb
  <2>2. Recomputed(e, wallet)
    BY <1>4
  <2> HIDE DEF e
  <2> QED
    BY <1>2, <1>5, <2>1, <2>2, RecomputedIsRight
<1>7. OwnBodies /\ DOMAIN body = Tx
  BY <1>1 DEF OwnBodies, ToSet
<1> QED
  BY <1>1, <1>2, <1>3, <1>6, <1>7 DEF WalletInv

\* Every step keeps the wallet right, whichever callback or call it is.
LEMMA WalletNext ==
  ASSUME WalletInv, TypeOK, TypeOK', [Next]_vars
  PROVE  WalletInv'
<1>1. ASSUME NEW t \in NetTx, RelayTx(t) PROVE WalletInv'
  BY <1>1, RelayRight
<1>2. ASSUME NEW t \in Tx, NEW verified \in BOOLEAN, MarkVerified(t, verified) PROVE WalletInv'
  BY <1>2, VerifiedRight
<1>3. ASSUME NEW lost, DropUnrelayed(lost) PROVE WalletInv'
  BY <1>3, DropRight
<1>4. ASSUME NEW t \in OwnTx, NEW amount \in Amounts, NEW swap \in BOOLEAN, CreateTransaction(t, amount, swap)
      PROVE  WalletInv'
  BY <1>4, CreateRight
<1>5. ASSUME NEW t \in OwnTx, RequestTx(t) PROVE WalletInv'
  BY <1>5, RequestRight
<1>6. CASE LoadBloomFilter
  BY <1>6, FilterRight
<1>7. ASSUME NEW rate \in Fees, SetFeePerKb(rate) PROVE WalletInv'
  BY <1>7, FeeRight
<1>8. ASSUME NEW b \in Block, NEW phase \in Progress, ExtendChain(b, phase) PROVE WalletInv'
  BY <1>8, ExtendRight
<1>9. ASSUME NEW b \in Block, ExistingBlock(b) PROVE WalletInv'
  BY <1>9, ExistingRight
<1>10. ASSUME NEW b \in Block, NEW phase \in Progress, Reorganize(b, phase) PROVE WalletInv'
  BY <1>10, ReorganizeRight
<1>11. CASE Restart
  BY <1>11, RestartRight
<1>12. ASSUME NEW b \in Block, OrphanBlock(b) \/ InvalidBlock(b) \/ BlockAhead(b) \/ ForkBlock(b)
       PROVE  WalletInv'
  BY <1>12, UnchangedRight DEF OrphanBlock, InvalidBlock, BlockAhead, ForkBlock
<1>13. CASE Rescan
  BY <1>13, UnchangedRight DEF Rescan
<1>14. CASE UNCHANGED vars
  BY <1>14, UnchangedRight DEF vars
<1> QED
  BY <1>1, <1>2, <1>3, <1>4, <1>5, <1>6, <1>7, <1>8, <1>9, <1>10, <1>11, <1>12, <1>13, <1>14 DEF Next

-----------------------------------------------------------------------------
(* The list of the wallet and the rows of the database *)

\* An element that is inserted is added, and what was there once stays there once.
LEMMA InsertAtFacts ==
  ASSUME NEW B, NEW q \in Seq(B), NEW x \in B, NEW i \in 1 .. Len(q) + 1
  PROVE  /\ InsertAt(q, i, x) \in Seq(B) /\ ToSet(InsertAt(q, i, x)) = ToSet(q) \cup {x}
         /\ (Once(q) /\ x \notin ToSet(q)) => Once(InsertAt(q, i, x))
<1> DEFINE r == SubSeq(q, 1, i - 1)
           s == SubSeq(q, i, Len(q))
           y == <<x>>
           u == r \o y
<1>1. /\ Len(q) \in Nat /\ DOMAIN q = 1 .. Len(q) /\ i - 1 \in 0 .. Len(q) /\ i - 1 \in Nat
      /\ \A k \in 1 .. Len(q) : q[k] \in B
  OBVIOUS
<1>2. /\ r \in Seq(B) /\ DOMAIN r = 1 .. i - 1 /\ \A k \in 1 .. i - 1 : r[k] = q[k]
  BY <1>1
<1>3. /\ s \in Seq(B) /\ DOMAIN s = 1 .. Len(q) - i + 1
      /\ \A k \in 1 .. Len(q) - i + 1 : s[k] = q[k + i - 1]
  BY <1>1
<1>4. y \in Seq(B) /\ ToSet(y) = {x} /\ Once(y)
  BY DEF ToSet, Once
<1>5. InsertAt(q, i, x) = u \o s
  BY Zenon DEF InsertAt
<1> HIDE DEF r, s, y
<1>6. ToSet(q) = ToSet(r) \cup ToSet(s)
  <2>1. \A k \in 1 .. Len(q) : k \in 1 .. i - 1 \/ (k - i + 1 \in 1 .. Len(q) - i + 1 /\ (k - i + 1) + i - 1 = k)
    OBVIOUS
  <2>2. \A k \in 1 .. Len(q) - i + 1 : k + i - 1 \in 1 .. Len(q)
    OBVIOUS
  <2>3. \A k \in 1 .. i - 1 : k \in 1 .. Len(q)
    OBVIOUS
  <2>4. ToSet(q) \subseteq ToSet(r) \cup ToSet(s)
    <3> SUFFICES ASSUME NEW k \in 1 .. Len(q) PROVE q[k] \in ToSet(r) \cup ToSet(s)
      BY <1>1 DEF ToSet
    <3>1. CASE k \in 1 .. i - 1
      BY <1>2, <3>1 DEF ToSet
    <3>2. CASE k - i + 1 \in 1 .. Len(q) - i + 1 /\ (k - i + 1) + i - 1 = k
      <4>1. s[k - i + 1] = q[k]
        BY <1>3, <3>2
      <4> QED
        BY <1>3, <3>2, <4>1 DEF ToSet
    <3> QED
      BY <2>1, <3>1, <3>2
  <2>5. ToSet(r) \subseteq ToSet(q) /\ ToSet(s) \subseteq ToSet(q)
    BY <1>1, <1>2, <1>3, <2>2, <2>3 DEF ToSet
  <2> QED
    BY <2>4, <2>5
<1>7. u \in Seq(B) /\ ToSet(u) = ToSet(r) \cup {x}
  <2>1. ToSet(r \o y) = ToSet(r) \cup ToSet(y)
    BY <1>2, <1>4, SetOfConcat
  <2>2. u \in Seq(B)
    BY <1>2, <1>4
  <2> QED
    BY <1>4, <2>1, <2>2
<1>8. u \o s \in Seq(B) /\ ToSet(u \o s) = ToSet(q) \cup {x}
  <2> HIDE DEF u
  <2> QED
    BY <1>3, <1>6, <1>7, SetOfConcat
<1>9. ASSUME Once(q), x \notin ToSet(q) PROVE Once(u \o s)
  <2>1. Once(r)
    BY <1>1, <1>2, <1>9 DEF Once
  <2>2. Once(s)
    <3> SUFFICES ASSUME NEW j \in DOMAIN s, NEW k \in DOMAIN s, s[j] = s[k] PROVE j = k
      BY DEF Once
    <3>1. j + i - 1 \in 1 .. Len(q) /\ k + i - 1 \in 1 .. Len(q) /\ q[j + i - 1] = q[k + i - 1]
      <4>1. j \in 1 .. Len(q) - i + 1 /\ k \in 1 .. Len(q) - i + 1
        BY <1>3
      <4>2. s[j] = q[j + i - 1] /\ s[k] = q[k + i - 1]
        BY <1>3, <4>1
      <4>3. i \in Nat /\ i > 0
        BY <1>1
      <4>4. ASSUME NEW m \in 1 .. Len(q) - i + 1 PROVE m + i - 1 \in 1 .. Len(q)
        BY <1>1, <4>3
      <4> QED
        BY <4>1, <4>2, <4>4
    <3>2. j + i - 1 = k + i - 1
      BY <1>1, <1>9, <3>1 DEF Once
    <3> QED
      BY <1>3, <3>2
  <2>3. ToSet(r) \cap ToSet(s) = {}
    <3> SUFFICES ASSUME NEW j \in 1 .. i - 1, NEW k \in 1 .. Len(q) - i + 1, r[j] = s[k] PROVE FALSE
      BY <1>2, <1>3 DEF ToSet
    <3>1. j \in 1 .. Len(q) /\ k + i - 1 \in 1 .. Len(q) /\ q[j] = q[k + i - 1]
      BY <1>2, <1>3
    <3>2. j = k + i - 1
      BY <1>1, <1>9, <3>1 DEF Once
    <3> QED
      BY <3>2
  <2>4. x \notin ToSet(r) /\ x \notin ToSet(s)
    BY <1>6, <1>9
  <2>5. ToSet(r) \cap ToSet(y) = {}
    BY <1>4, <2>4
  <2>6. Once(u)
    BY <1>2, <1>4, <2>1, <2>5, OnceConcat
  <2>7. ToSet(u) \cap ToSet(s) = {}
    BY <1>7, <2>3, <2>4
  <2> HIDE DEF u
  <2> QED
    BY <1>3, <1>7, <2>2, <2>6, <2>7, OnceConcat
<1> HIDE DEF u
<1> QED
  BY <1>5, <1>8, <1>9

\* The insertion sort finds a place for t in the list.
LEMMA InsertFacts ==
  ASSUME NEW w, NEW t \in Tx, DOMAIN w = DOMAIN EmptyWallet, w.list \in Seq(Tx)
  PROVE  LET v == InsertTx(w, t)
         IN /\ DOMAIN v = DOMAIN w /\ v.all = w.all
            /\ v.list \in Seq(Tx) /\ ToSet(v.list) = ToSet(w.list) \cup {t}
            /\ (Once(w.list) /\ t \notin ToSet(w.list)) => Once(v.list)
<1> DEFINE S == {0} \cup {k \in DOMAIN w.list : ~TxFollows(w, w.list[k], t)}
           r == InsertAt(w.list, Max(S) + 1, t)
           v == InsertTx(w, t)
<1>1. v = [w EXCEPT !.list = r]
  BY Zenon DEF InsertTx
<1>2. Max(S) + 1 \in 1 .. Len(w.list) + 1
  <2>1. S \in SUBSET (0 .. Len(w.list)) /\ S # {} /\ Len(w.list) \in Nat
    OBVIOUS
  <2> HIDE DEF S
  <2>2. Max(S) \in 0 .. Len(w.list)
    BY <2>1, LargestBelow
  <2> QED
    BY <2>1, <2>2
<1> HIDE DEF S
<1>3. /\ r \in Seq(Tx) /\ ToSet(r) = ToSet(w.list) \cup {t}
      /\ (Once(w.list) /\ t \notin ToSet(w.list)) => Once(r)
  <2> DEFINE i == Max(S) + 1
  <2> HIDE DEF i
  <2>1. i \in 1 .. Len(w.list) + 1
    BY <1>2 DEF i
  <2>2. /\ InsertAt(w.list, i, t) \in Seq(Tx) /\ ToSet(InsertAt(w.list, i, t)) = ToSet(w.list) \cup {t}
        /\ (Once(w.list) /\ t \notin ToSet(w.list)) => Once(InsertAt(w.list, i, t))
    BY <2>1, InsertAtFacts
  <2> QED
    BY <2>2 DEF i
<1> HIDE DEF r, v
<1>4. DOMAIN v = DOMAIN w /\ v.list = r /\ v.all = w.all
  BY <1>1, WalletFields
<1> QED
  BY <1>3, <1>4 DEF v

\* What holds at the start of a fold and is kept by each step holds at its end.
LEMMA StepsKeep ==
  ASSUME NEW n \in Nat, NEW G, 0 \in G, \A k \in 1 .. n : k - 1 \in G => k \in G
  PROVE  n \in G
<1>1. \A k \in 0 .. n - 1 : k \in G => k + 1 \in G
  <2> SUFFICES ASSUME NEW k \in 0 .. n - 1, k \in G PROVE k + 1 \in G
    OBVIOUS
  <2>1. k + 1 \in 1 .. n /\ (k + 1) - 1 = k
    OBVIOUS
  <2> QED
    BY <2>1
<1>2. \A k \in 0 .. n : k \in G
  BY <1>1, CountUp, Zenon
<1> QED
  BY <1>2

\* A registered transaction is listed exactly when it was added.
LEMMA RegisterList ==
  ASSUME NEW w, NEW t \in Tx, DOMAIN w = DOMAIN EmptyWallet, w.list \in Seq(Tx), Once(w.list),
         ToSet(w.list) \subseteq w.all
  PROVE  LET v == Register(w, t)
         IN /\ DOMAIN v = DOMAIN w /\ v.all \subseteq w.all \cup {t}
            /\ v.list \in Seq(Tx) /\ Once(v.list)
            /\ ToSet(v.list) = ToSet(w.list) \cup (IF WasAdded(w, t) THEN {t} ELSE {})
<1> DEFINE known == [w EXCEPT !.all = @ \cup {t}]
           x == InsertTx(known, t)
           v == Register(w, t)
<1>1. DOMAIN known = DOMAIN w /\ known.list = w.list /\ known.all = w.all \cup {t}
  BY WalletFields
<1>2. \/ v = w /\ ~WasAdded(w, t)
      \/ v = known /\ ~WasAdded(w, t)
      \/ v = NewAddrs(UpdateBalance(x)) /\ WasAdded(w, t) /\ t \notin w.all
  BY Zenon DEF Register, WasAdded
<1> HIDE DEF known, v
<1>3. CASE v = w /\ ~WasAdded(w, t)
  BY <1>3 DEF v
<1>4. CASE v = known /\ ~WasAdded(w, t)
  BY <1>1, <1>4 DEF v
<1>5. CASE v = NewAddrs(UpdateBalance(x)) /\ WasAdded(w, t) /\ t \notin w.all
  <2>1. /\ DOMAIN x = DOMAIN known /\ x.all = known.all
        /\ x.list \in Seq(Tx) /\ ToSet(x.list) = ToSet(known.list) \cup {t}
        /\ (Once(known.list) /\ t \notin ToSet(known.list)) => Once(x.list)
    BY <1>1, InsertFacts
  <2> HIDE DEF x
  <2>2. t \notin ToSet(w.list)
    BY <1>5
  <2> DEFINE u == UpdateBalance(x)
  <2>3. DOMAIN u = DOMAIN EmptyWallet /\ u.list = x.list /\ u.all = x.all
    BY <1>1, <2>1, UpdateFields
  <2> HIDE DEF u
  <2>4. SameBut(u, NewAddrs(u))
    BY <2>3, BothAddrsKeep
  <2>5. DOMAIN v = DOMAIN w /\ v.list = x.list /\ v.all = x.all
    BY <1>1, <1>5, <2>1, <2>3, <2>4 DEF SameBut, u
  <2> QED
    BY <1>1, <1>5, <2>1, <2>2, <2>5 DEF v
<1> QED
  BY <1>2, <1>3, <1>4, <1>5

\* A removal takes transactions out of the list and keeps the order of the rest.
LEMMA RemoveList ==
  ASSUME NEW w, NEW t, DOMAIN w = DOMAIN EmptyWallet, w.list \in Seq(Tx), Once(w.list)
  PROVE  LET v == RemoveTx(w, t)
         IN /\ DOMAIN v = DOMAIN w /\ v.all \subseteq w.all
            /\ v.list \in Seq(Tx) /\ Once(v.list) /\ ToSet(v.list) \subseteq ToSet(w.list)
<1> DEFINE gone == RemovedWith(w, t)
           list == Keep(w.list, ToSet(w.list) \ gone)
           height == [y \in Tx |-> IF y \in gone THEN Unconfirmed ELSE w.height[y]]
           stamped == [y \in Tx |-> y \notin gone /\ w.stamped[y]]
           x == [w EXCEPT !.list = list, !.all = @ \ gone, !.height = height, !.stamped = stamped]
           v == RemoveTx(w, t)
<1>1. v = UpdateBalance(x)
  BY Zenon DEF RemoveTx
<1>2. list \in Seq(Tx) /\ ToSet(list) \subseteq ToSet(w.list) /\ Once(list)
  <2> DEFINE d == ToSet(w.list) \ gone
  <2> HIDE DEF d
  <2>1. /\ Keep(w.list, d) \in Seq(Tx) /\ ToSet(Keep(w.list, d)) = ToSet(w.list) \cap d
        /\ Once(Keep(w.list, d))
    BY KeepFacts DEF Once
  <2> QED
    BY <2>1 DEF d
<1> HIDE DEF list, gone, height, stamped, v
<1>3. DOMAIN x = DOMAIN w /\ x.list = list /\ x.all = w.all \ gone
  BY WalletFields
<1> HIDE DEF x
<1>4. DOMAIN v = DOMAIN w /\ v.list = list /\ v.all \subseteq w.all
  BY <1>1, <1>3, UpdateFields
<1> QED
  BY <1>2, <1>4 DEF v

\* The list after all removals.
LEMMA DropList ==
  ASSUME NEW w, NEW lost, NEW q, NEW n \in Nat, DOMAIN q = 1 .. n, Len(q) = n,
         DOMAIN w = DOMAIN EmptyWallet, w.list \in Seq(Tx), Once(w.list),
         NEW v, v = DropAll(lost, w, q)
  PROVE  /\ DOMAIN v = DOMAIN w /\ v.all \subseteq w.all
         /\ v.list \in Seq(Tx) /\ Once(v.list) /\ ToSet(v.list) \subseteq ToSet(w.list)
<1> DEFINE J(u) == /\ DOMAIN u = DOMAIN w /\ u.all \subseteq w.all
                   /\ u.list \in Seq(Tx) /\ Once(u.list) /\ ToSet(u.list) \subseteq ToSet(w.list)
<1>1. PICK f : StepsTo("drop", lost, q, w, f, v)
  BY DropSteps, Zenon
<1>2. f[0] = w /\ f[n] = v /\ \A k \in 1 .. n : f[k] = StepOf("drop", lost, f[k - 1], q[k])
  BY <1>1 DEF StepsTo
<1>3. ASSUME NEW u, J(u), NEW x PROVE J(StepOf("drop", lost, u, x))
  <2>1. StepOf("drop", lost, u, x) = u \/ StepOf("drop", lost, u, x) = RemoveTx(u, x)
    BY Zenon DEF StepOf
  <2> DEFINE r == RemoveTx(u, x)
  <2>2. /\ DOMAIN r = DOMAIN u /\ r.all \subseteq u.all
        /\ r.list \in Seq(Tx) /\ Once(r.list) /\ ToSet(r.list) \subseteq ToSet(u.list)
    BY <1>3, RemoveList
  <2> HIDE DEF r
  <2>3. J(r)
    BY <1>3, <2>2
  <2> HIDE DEF J
  <2> QED
    BY <1>3, <2>1, <2>3 DEF r
<1>4. J(w)
  OBVIOUS
<1> DEFINE G == {k \in 0 .. n : J(f[k])}
<1> HIDE DEF J
<1>5. 0 \in G
  BY <1>2, <1>4
<1>6. \A k \in 1 .. n : k - 1 \in G => k \in G
  BY <1>2, <1>3
<1>7. n \in G
  <2> HIDE DEF G
  <2> QED
    BY <1>5, <1>6, StepsKeep
<1>8. J(v)
  BY <1>2, <1>7
<1> QED
  BY <1>8 DEF J

\* The list after the saved transactions were loaded.
LEMMA LoadList ==
  ASSUME NEW w, NEW q \in Seq(Tx), Once(q), DOMAIN w = DOMAIN EmptyWallet,
         w.list = <<>>, w.all = {}, NEW v, v = LoadAll(w, q)
  PROVE  /\ DOMAIN v = DOMAIN w /\ v.all \subseteq Tx
         /\ v.list \in Seq(Tx) /\ Once(v.list) /\ ToSet(v.list) = ToSet(q)
<1> DEFINE n == Len(q)
           Loaded(k) == {q[i] : i \in 1 .. k}
           J(u, k) == /\ DOMAIN u = DOMAIN w /\ u.all \subseteq Tx
                      /\ u.list \in Seq(Tx) /\ Once(u.list) /\ ToSet(u.list) = Loaded(k)
<1>1. n \in Nat /\ DOMAIN q = 1 .. n /\ \A i \in 1 .. n : q[i] \in Tx
  OBVIOUS
<1> HIDE DEF n
<1>2. PICK f : StepsTo("load", {}, q, w, f, v)
  BY <1>1, LoadSteps, Zenon DEF n
<1>3. f[0] = w /\ f[n] = v /\ \A k \in 1 .. n : f[k] = StepOf("load", {}, f[k - 1], q[k])
  BY <1>2 DEF StepsTo, n
<1>4. ASSUME NEW u, NEW k \in 1 .. n, J(u, k - 1) PROVE J(StepOf("load", {}, u, q[k]), k)
  <2> DEFINE x == q[k]
             known == [u EXCEPT !.all = @ \cup {x}]
             r == InsertTx(known, x)
  <2>1. StepOf("load", {}, u, x) = r
    BY Zenon DEF StepOf
  <2>2. DOMAIN known = DOMAIN u /\ known.list = u.list /\ known.all = u.all \cup {x}
    BY <1>4, WalletFields
  <2>3. x \in Tx
    BY <1>1
  <2>4. x \notin Loaded(k - 1)
    <3> SUFFICES ASSUME NEW i \in 1 .. k - 1, q[i] = q[k] PROVE FALSE
      OBVIOUS
    <3>1. i \in DOMAIN q /\ k \in DOMAIN q /\ i # k
      BY <1>1
    <3> QED
      BY <3>1 DEF Once
  <2>5. Loaded(k) = Loaded(k - 1) \cup {x}
    <3>1. 1 .. k = (1 .. k - 1) \cup {k}
      OBVIOUS
    <3> QED
      BY <3>1
  <2> HIDE DEF known, x, Loaded
  <2>6. /\ DOMAIN r = DOMAIN known /\ r.all = known.all
        /\ r.list \in Seq(Tx) /\ ToSet(r.list) = ToSet(known.list) \cup {x}
        /\ (Once(known.list) /\ x \notin ToSet(known.list)) => Once(r.list)
    BY <1>4, <2>2, <2>3, InsertFacts
  <2> HIDE DEF r
  <2>7. J(r, k)
    BY <1>4, <2>2, <2>3, <2>4, <2>5, <2>6
  <2> HIDE DEF J
  <2> QED
    BY <2>1, <2>7 DEF x
<1>5. J(w, 0)
  <2>1. <<>> \in Seq(Tx)
    OBVIOUS
  <2>2. Once(<<>>) /\ ToSet(<<>>) = {}
    BY DEF Once, ToSet
  <2>3. Loaded(0) = {}
    OBVIOUS
  <2> HIDE DEF Loaded
  <2> QED
    BY <2>1, <2>2, <2>3
<1> DEFINE G == {k \in 0 .. n : J(f[k], k)}
<1> HIDE DEF J
<1>6. 0 \in G
  BY <1>1, <1>3, <1>5
<1>7. \A k \in 1 .. n : k - 1 \in G => k \in G
  BY <1>3, <1>4
<1>8. n \in G
  <2> HIDE DEF G
  <2> QED
    BY <1>1, <1>6, <1>7, StepsKeep
<1>9. J(v, n)
  BY <1>3, <1>8
<1>10. Loaded(n) = ToSet(q)
  BY <1>1 DEF ToSet
<1> HIDE DEF Loaded
<1> QED
  BY <1>9, <1>10 DEF J

\* The lists: what is listed or saved is a transaction, once, and both have the same.
ListInv ==
    /\ DOMAIN wallet = DOMAIN EmptyWallet
    /\ wallet.list \in Seq(Tx) /\ Once(wallet.list) /\ wallet.all \subseteq Tx
    /\ rows \in Seq(Tx) /\ Once(rows) /\ ToSet(rows) = ToSet(wallet.list)

\* BRWalletUpdateTransactions frees confirmed transactions that are not the
\* wallet's, and none of them is listed.
ListedIsKnown == ToSet(wallet.list) \subseteq wallet.all

OrphanInv == \A o, p \in orphans : Parent[o] = Parent[p] => o = p

\* Steps that leave both lists alone.
LEMMA ListKept ==
  ASSUME ListInv, NEW v, wallet' = v, rows' = rows, DOMAIN v = DOMAIN wallet,
         v.list = wallet.list, v.all \subseteq wallet.all
  PROVE  ListInv'
<1>1. /\ DOMAIN v = DOMAIN EmptyWallet
      /\ v.list \in Seq(Tx) /\ Once(v.list) /\ v.all \subseteq Tx
      /\ rows \in Seq(Tx) /\ Once(rows) /\ ToSet(rows) = ToSet(v.list)
  BY DEF ListInv
<1> QED
  BY <1>1 DEF ListInv

\* Addresses are generated.
LEMMA AddrsKeepList ==
  ASSUME ListInv, NEW v, wallet' = v, rows' = rows, SameBut(wallet, v)
  PROVE  ListInv'
BY ListKept DEF SameBut

\* Heights change, and the filter may be loaded right after.
LEMMA HeightsKeepList ==
  ASSUME ListInv, NEW w, NEW phase, DOMAIN w = DOMAIN wallet, w.list = wallet.list,
         w.all \subseteq wallet.all, wallet' = LoadMempools(w, phase), rows' = rows
  PROVE  ListInv'
<1>1. DOMAIN w = DOMAIN EmptyWallet
  BY DEF ListInv
<1> DEFINE v == LoadMempools(w, phase)
<1>2. SameBut(w, v)
  BY <1>1, BothAddrsKeep
<1>3. DOMAIN v = DOMAIN wallet /\ v.list = wallet.list /\ v.all \subseteq wallet.all
  BY <1>2 DEF SameBut
<1> QED
  BY <1>3, ListKept

\* A transaction that is added is added to the database too.
LEMMA RegisterKeepsList ==
  ASSUME ListInv, ListedIsKnown, NEW t \in Tx, wallet' = Register(wallet, t),
         rows' = IF WasAdded(wallet, t) THEN Append(rows, t) ELSE rows
  PROVE  ListInv'
<1> DEFINE v == Register(wallet, t)
           added == WasAdded(wallet, t)
<1>1. /\ DOMAIN v = DOMAIN wallet /\ v.all \subseteq wallet.all \cup {t}
      /\ v.list \in Seq(Tx) /\ Once(v.list)
      /\ ToSet(v.list) = ToSet(wallet.list) \cup (IF added THEN {t} ELSE {})
  BY RegisterList DEF ListInv, ListedIsKnown
<1>2. added => t \notin ToSet(wallet.list)
  BY DEF WasAdded, ListedIsKnown
<1> HIDE DEF v, added
<1>3. rows \in Seq(Tx) /\ Once(rows) /\ ToSet(rows) = ToSet(wallet.list)
  BY DEF ListInv
<1>4. CASE ~added
  <2>1. /\ DOMAIN v = DOMAIN EmptyWallet /\ v.all \subseteq Tx
        /\ v.list \in Seq(Tx) /\ Once(v.list) /\ ToSet(v.list) = ToSet(rows) /\ rows' = rows
    BY <1>1, <1>3, <1>4 DEF ListInv, added
  <2> QED
    BY <1>3, <2>1 DEF ListInv, v
<1>5. CASE added
  <2> DEFINE r == Append(rows, t)
  <2>1. r \in Seq(Tx) /\ rows' = r
    BY <1>3, <1>5 DEF added
  <2>2. ToSet(r) = ToSet(rows) \cup {t}
    BY <1>3, SetOfAppend
  <2>3. Once(r)
    <3> DEFINE m == Len(rows)
    <3>1. /\ m \in Nat /\ DOMAIN rows = 1 .. m /\ DOMAIN r = (1 .. m) \cup {m + 1}
          /\ r[m + 1] = t /\ \A i \in 1 .. m : r[i] = rows[i]
      BY <1>3
    <3>2. \A i \in 1 .. m : rows[i] # t
      BY <1>2, <1>3, <1>5, <3>1 DEF ToSet
    <3> HIDE DEF m, r
    <3> QED
      BY <1>3, <3>1, <3>2 DEF Once
  <2> HIDE DEF r
  <2>4. /\ DOMAIN v = DOMAIN EmptyWallet /\ v.all \subseteq Tx
        /\ v.list \in Seq(Tx) /\ Once(v.list) /\ ToSet(v.list) = ToSet(r)
    BY <1>1, <1>3, <1>5, <2>2 DEF ListInv
  <2> QED
    BY <2>1, <2>3, <2>4 DEF ListInv, v
<1> QED
  BY <1>4, <1>5

\* What nobody relayed leaves the list and the database.
LEMMA DropKeepsList ==
  ASSUME ListInv, NEW lost, DropUnrelayed(lost)
  PROVE  ListInv'
<1> DEFINE q == TxUnconfirmedBefore(wallet, Unconfirmed)
           v == DropAll(lost, wallet, q)
<1>1. wallet' = v /\ rows' = Keep(rows, ToSet(v.list))
  BY Zenon DEF DropUnrelayed, DropAll
<1>2. /\ DOMAIN wallet = DOMAIN EmptyWallet /\ wallet.list \in Seq(Tx) /\ Once(wallet.list)
      /\ wallet.all \subseteq Tx /\ rows \in Seq(Tx) /\ Once(rows) /\ ToSet(rows) = ToSet(wallet.list)
  BY DEF ListInv
<1>3. PICK n \in Nat : DOMAIN q = 1 .. n /\ Len(q) = n
  BY <1>2, QueueIsSeq
<1> HIDE DEF q
<1>4. /\ DOMAIN v = DOMAIN wallet /\ v.all \subseteq wallet.all
      /\ v.list \in Seq(Tx) /\ Once(v.list) /\ ToSet(v.list) \subseteq ToSet(wallet.list)
  BY <1>2, <1>3, DropList, Zenon
<1> HIDE DEF v
<1> DEFINE r == Keep(rows, ToSet(v.list))
<1>5. r \in Seq(Tx) /\ ToSet(r) = ToSet(rows) \cap ToSet(v.list) /\ Once(r)
  BY <1>2, KeepFacts DEF Once
<1> HIDE DEF r
<1>6. /\ DOMAIN v = DOMAIN EmptyWallet /\ v.all \subseteq Tx /\ rows' = r
      /\ ToSet(r) = ToSet(v.list)
  BY <1>1, <1>2, <1>4, <1>5 DEF r
<1> QED
  BY <1>1, <1>4, <1>5, <1>6 DEF ListInv

\* A new wallet lists what was saved.
LEMMA NewList ==
  ASSUME NEW q \in Seq(Tx), Once(q), NEW height, NEW stamped
  PROVE  LET v == WalletNew(q, height, stamped)
         IN /\ DOMAIN v = DOMAIN EmptyWallet /\ v.all \subseteq Tx
            /\ v.list \in Seq(Tx) /\ Once(v.list) /\ ToSet(v.list) = ToSet(q)
<1> DEFINE start == [EmptyWallet EXCEPT !.height = height, !.stamped = stamped]
           used == UNION {OutputAddrs(t) : t \in ToSet(q)}
           loaded == LoadAll(start, q)
           y == [loaded EXCEPT !.ledger.used = used]
           x == NewAddrs(y)
           v == WalletNew(q, height, stamped)
<1>1. v = UpdateBalance(x)
  BY Zenon DEF WalletNew, LoadAll
<1>2. DOMAIN start = DOMAIN EmptyWallet /\ start.list = <<>> /\ start.all = {}
  BY DEF EmptyWallet
<1> HIDE DEF start
<1>3. /\ DOMAIN loaded = DOMAIN EmptyWallet /\ loaded.all \subseteq Tx
      /\ loaded.list \in Seq(Tx) /\ Once(loaded.list) /\ ToSet(loaded.list) = ToSet(q)
  BY <1>2, LoadList, Zenon
<1> HIDE DEF loaded, used
<1>4. DOMAIN y = DOMAIN EmptyWallet /\ y.list = loaded.list /\ y.all = loaded.all
  BY <1>3, WalletFields
<1> HIDE DEF y
<1>5. SameBut(y, x)
  BY <1>4, BothAddrsKeep
<1>6. DOMAIN x = DOMAIN EmptyWallet /\ x.list = loaded.list /\ x.all = loaded.all
  BY <1>4, <1>5 DEF SameBut
<1> HIDE DEF x, v
<1>7. DOMAIN v = DOMAIN EmptyWallet /\ v.list = loaded.list /\ v.all = loaded.all
  BY <1>1, <1>6, UpdateFields
<1> QED
  BY <1>3, <1>7 DEF v

\* The blocks of the new branch change no list.
LEMMA ConfirmList ==
  ASSUME NEW w, NEW at, NEW q, NEW n \in Nat, DOMAIN q = 1 .. n, Len(q) = n,
         DOMAIN w = DOMAIN EmptyWallet, NEW v, v = ConfirmAll(at, w, q)
  PROVE  DOMAIN v = DOMAIN w /\ v.list = w.list /\ v.all \subseteq w.all
<1> DEFINE J(u) == DOMAIN u = DOMAIN w /\ u.list = w.list /\ u.all \subseteq w.all
<1>1. PICK f : StepsTo("height", at, q, w, f, v)
  BY ConfirmSteps, Zenon
<1>2. f[0] = w /\ f[n] = v /\ \A k \in 1 .. n : f[k] = StepOf("height", at, f[k - 1], q[k])
  BY <1>1 DEF StepsTo
<1>3. ASSUME NEW u, J(u), NEW h PROVE J(StepOf("height", at, u, h))
  <2> DEFINE r == UpdateTxs(u, BlockTx[at[h]], h, TRUE)
  <2>1. StepOf("height", at, u, h) = u \/ StepOf("height", at, u, h) = r
    BY Zenon DEF StepOf
  <2>2. Updated(u, r, BlockTx[at[h]], h)
    BY <1>3, UpdateTxsFacts
  <2> HIDE DEF r
  <2>3. J(r)
    BY <1>3, <2>2 DEF Updated
  <2> HIDE DEF J
  <2> QED
    BY <1>3, <2>1, <2>3
<1>4. J(w)
  OBVIOUS
<1> DEFINE G == {k \in 0 .. n : J(f[k])}
<1> HIDE DEF J
<1>5. 0 \in G
  BY <1>2, <1>4
<1>6. \A k \in 1 .. n : k - 1 \in G => k \in G
  BY <1>2, <1>3
<1>7. n \in G
  <2> HIDE DEF G
  <2> QED
    BY <1>5, <1>6, StepsKeep
<1>8. J(v)
  BY <1>2, <1>7
<1> QED
  BY <1>8 DEF J

\* A reorganisation changes heights only.
LEMMA ReorganizeKeepsList ==
  ASSUME ListInv, ChainTypes, NEW b \in Block, NEW phase, Reorganize(b, phase)
  PROVE  ListInv'
<1> DEFINE join == JoinPoint(blocks', b)
           h == Height[join[1]]
           reset == SetTxUnconfirmedAfter(wallet, h)
           again == Reconfirm(reset, blocks', b, Height[join[2]])
           v == IF join[2] = NoBlock THEN reset ELSE again
<1>1. wallet' = LoadMempools(v, phase) /\ rows' = rows
  BY DEF Reorganize
<1>2. DOMAIN wallet = DOMAIN EmptyWallet /\ blocks' \in SUBSET Block /\ lastBlock \in Block
  <2>1. blocks' = KeptBlocks(b) \cup {b}
    BY DEF Reorganize
  <2> QED
    BY <2>1, KeptIsHeld DEF ListInv, ChainTypes
<1>3. join[2] \in Block \cup {NoBlock}
  BY <1>2, JoinIsBlock
<1> HIDE DEF join
<1>4. DOMAIN reset = DOMAIN wallet /\ reset.list = wallet.list /\ reset.all = wallet.all
  <2> HIDE DEF h
  <2> QED
    BY <1>2, UnconfirmedAfterFacts
<1> HIDE DEF reset
<1>5. DOMAIN v = DOMAIN wallet /\ v.list = wallet.list /\ v.all \subseteq wallet.all
  <2>1. CASE join[2] = NoBlock
    BY <1>4, <2>1
  <2>2. CASE join[2] # NoBlock
    <3> DEFINE top == Height[b]
               low == Height[join[2]]
               at == [x \in Nat |-> CHOOSE y \in {b} \cup Walk(blocks', b) : Height[y] = x]
               q == [k \in 1 .. top - low |-> top + 1 - k]
    <3>1. again = ConfirmAll(at, reset, q)
      BY Zenon DEF Reconfirm, ConfirmAll
    <3>2. top \in Nat /\ top < Unconfirmed /\ low \in Nat
      BY <1>3, <2>2, BlocksBelow
    <3>3. v = again
      BY <2>2
    <3> HIDE DEF top, low, at, v, again
    <3>4. PICK n \in Nat : DOMAIN q = 1 .. n /\ Len(q) = n
      BY <3>2, BranchHeightsSeq
    <3> HIDE DEF q
    <3>5. DOMAIN again = DOMAIN reset /\ again.list = reset.list /\ again.all \subseteq reset.all
      BY <1>2, <1>4, <3>1, <3>4, ConfirmList
    <3> QED
      BY <1>4, <3>3, <3>5
  <2> QED
    BY <2>1, <2>2
<1> HIDE DEF v
<1> QED
  BY <1>1, <1>5, HeightsKeepList

\* Neither do the blocks that confirm transactions where the chain is.
LEMMA BlocksKeepList ==
  ASSUME ListInv, NEW b \in Block, (\E phase : ExtendChain(b, phase)) \/ ExistingBlock(b)
  PROVE  ListInv'
<1> DEFINE txs == BlockTx[b]
           h == Height[b]
           u == UpdateTxs(wallet, txs, h, TRUE)
<1>1. DOMAIN wallet = DOMAIN EmptyWallet
  BY DEF ListInv
<1>2. Updated(wallet, u, txs, h)
  BY <1>1, UpdateTxsFacts
<1>3. ASSUME NEW phase, ExtendChain(b, phase) PROVE ListInv'
  <2>1. PICK v \in {wallet, u} : wallet' = LoadMempools(v, phase)
    BY <1>3, Zenon DEF ExtendChain
  <2>2. rows' = rows
    BY <1>3, Zenon DEF ExtendChain
  <2> HIDE DEF u, txs, h
  <2>3. DOMAIN v = DOMAIN wallet /\ v.list = wallet.list /\ v.all \subseteq wallet.all
    BY <1>2, <2>1 DEF Updated
  <2> QED
    BY <2>1, <2>2, <2>3, HeightsKeepList
<1>4. CASE ExistingBlock(b)
  <2>1. PICK v \in {wallet, u} : wallet' = v
    BY <1>4, Zenon DEF ExistingBlock
  <2>2. rows' = rows
    BY <1>4, Zenon DEF ExistingBlock
  <2> HIDE DEF u, txs, h
  <2>3. DOMAIN v = DOMAIN wallet /\ v.list = wallet.list /\ v.all \subseteq wallet.all
    BY <1>2, <2>1 DEF Updated
  <2> QED
    BY <2>1, <2>2, <2>3, ListKept
<1> QED
  BY <1>3, <1>4

\* A restarted wallet lists what the database has.
LEMMA RestartKeepsList ==
  ASSUME ListInv, Restart
  PROVE  ListInv'
<1> DEFINE height == [t \in Tx |-> IF t \in ToSet(rows) THEN wallet.height[t] ELSE Unconfirmed]
           stamped == [t \in Tx |-> t \in ToSet(rows) /\ wallet.stamped[t]]
           v == WalletNew(rows, height, stamped)
<1>1. wallet' = v
  BY Zenon DEF Restart
<1>2. rows' = rows
  BY Zenon DEF Restart
<1> HIDE DEF height, stamped
<1>3. rows \in Seq(Tx) /\ Once(rows)
  BY DEF ListInv
<1>4. /\ DOMAIN v = DOMAIN EmptyWallet /\ v.all \subseteq Tx
      /\ v.list \in Seq(Tx) /\ Once(v.list) /\ ToSet(v.list) = ToSet(rows)
  BY <1>3, NewList
<1> HIDE DEF v
<1> QED
  BY <1>1, <1>2, <1>3, <1>4 DEF ListInv

\* Every step keeps the lists.
LEMMA ListNext ==
  ASSUME ListInv, ListedIsKnown, ChainTypes, [Next]_vars
  PROVE  ListInv'
<1>0. DOMAIN wallet = DOMAIN EmptyWallet
  BY DEF ListInv
<1>1. ASSUME NEW t, RelayTx(t) \/ RequestTx(t), t \in Tx PROVE ListInv'
  <2>1. /\ wallet' = Register(wallet, t)
        /\ rows' = IF WasAdded(wallet, t) THEN Append(rows, t) ELSE rows
    BY <1>1 DEF RelayTx, RequestTx
  <2> QED
    BY <1>1, <2>1, RegisterKeepsList
<1>2. ASSUME NEW t \in Tx, NEW verified \in BOOLEAN, MarkVerified(t, verified) PROVE ListInv'
  <2> DEFINE v == UpdateTxs(wallet, {t}, Unconfirmed, verified)
  <2>1. wallet' = v /\ rows' = rows
    BY <1>2 DEF MarkVerified
  <2>2. Updated(wallet, v, {t}, Unconfirmed)
    BY <1>0, UpdateTxsFacts
  <2> HIDE DEF v
  <2> QED
    BY <2>1, <2>2, ListKept DEF Updated
<1>3. ASSUME NEW lost, DropUnrelayed(lost) PROVE ListInv'
  BY <1>3, DropKeepsList
<1>4. ASSUME NEW t, NEW amount, NEW swap, CreateTransaction(t, amount, swap) PROVE ListInv'
  <2> DEFINE u == UnusedAddrs(wallet, "internal", 1)
  <2>1. wallet' = wallet \/ wallet' = u
    BY <1>4 DEF CreateTransaction, Create
  <2>2. rows' = rows
    BY <1>4 DEF CreateTransaction, Create
  <2>3. SameBut(wallet, u)
    BY <1>0, AddrsKeep DEF Chains
  <2> HIDE DEF u
  <2>4. CASE wallet' = wallet
    BY <2>2, <2>4, ListKept
  <2> QED
    BY <2>1, <2>2, <2>3, <2>4, AddrsKeepList
<1>5. CASE LoadBloomFilter
  <2> DEFINE u == SpareAddrs(wallet)
  <2>1. wallet' = u /\ rows' = rows
    BY <1>5 DEF LoadBloomFilter
  <2>2. SameBut(wallet, u)
    BY <1>0, BothAddrsKeep
  <2> HIDE DEF u
  <2> QED
    BY <2>1, <2>2, AddrsKeepList
<1>6. ASSUME NEW rate, SetFeePerKb(rate) PROVE ListInv'
  <2> DEFINE v == [wallet EXCEPT !.rate = rate]
  <2>1. wallet' = v /\ rows' = rows
    BY <1>6 DEF SetFeePerKb
  <2>2. DOMAIN v = DOMAIN wallet /\ v.list = wallet.list /\ v.all = wallet.all
    BY <1>0, WalletFields
  <2> HIDE DEF v
  <2> QED
    BY <2>1, <2>2, ListKept
<1>7. ASSUME NEW b \in Block, (\E phase : ExtendChain(b, phase)) \/ ExistingBlock(b) PROVE ListInv'
  BY <1>7, BlocksKeepList
<1>8. ASSUME NEW b \in Block, NEW phase, Reorganize(b, phase) PROVE ListInv'
  BY <1>8, ReorganizeKeepsList
<1>9. CASE Restart
  BY <1>9, RestartKeepsList
<1>10. CASE wallet' = wallet /\ rows' = rows
  BY <1>10, ListKept
<1>11. ASSUME NEW b \in Block, OrphanBlock(b) \/ InvalidBlock(b) \/ BlockAhead(b) \/ ForkBlock(b)
       PROVE  wallet' = wallet /\ rows' = rows
  BY <1>11 DEF OrphanBlock, InvalidBlock, BlockAhead, ForkBlock, walletVars
<1>12. Rescan \/ UNCHANGED vars => wallet' = wallet /\ rows' = rows
  BY DEF Rescan, vars, walletVars
<1>13. NetTx \subseteq Tx /\ OwnTx \subseteq Tx
  BY DEF Tx
<1> QED
  BY <1>1, <1>2, <1>3, <1>4, <1>5, <1>6, <1>7, <1>8, <1>9, <1>10, <1>11, <1>12, <1>13, Zenon DEF Next

\* The first wallet lists nothing.
LEMMA ListInit ==
  ASSUME Init
  PROVE  ListInv
<1> DEFINE none == <<>>
           height == [t \in Tx |-> Unconfirmed]
           stamped == [t \in Tx |-> FALSE]
           v == WalletNew(none, height, stamped)
<1>1. rows = none /\ wallet = v
  BY Zenon DEF Init
<1>2. none \in Seq(Tx) /\ Once(none)
  BY DEF Once
<1> HIDE DEF none, height, stamped
<1>3. /\ DOMAIN v = DOMAIN EmptyWallet /\ v.all \subseteq Tx
      /\ v.list \in Seq(Tx) /\ Once(v.list) /\ ToSet(v.list) = ToSet(none)
  BY <1>2, NewList
<1> HIDE DEF v
<1> QED
  BY <1>1, <1>2, <1>3 DEF ListInv

\* At most one orphan waits for each previous block, also of those that were saved.
LEMMA OrphanNext ==
  ASSUME OrphanInv, [Next]_vars
  PROVE  OrphanInv'
<1>1. CASE orphans' \subseteq orphans
  BY <1>1 DEF OrphanInv
<1>2. ASSUME NEW b, OrphanBlock(b) \/ BlockAhead(b) PROVE OrphanInv'
  <2>1. orphans' \subseteq AddOrphan(b)
    BY <1>2 DEF OrphanBlock, BlockAhead, TakeNextFrom
  <2> QED
    BY <2>1 DEF AddOrphan, OrphanInv
<1>3. CASE Restart
  <2>1. \E s : orphans' \in OnePerParent(s)
    BY <1>3, Zenon DEF Restart
  <2>2. PICK s : orphans' \in OnePerParent(s)
    BY <2>1
  <2> SUFFICES ASSUME NEW o \in orphans', NEW p \in orphans', Parent[o] = Parent[p] PROVE o = p
    BY DEF OrphanInv
  <2>3. o \in s /\ p \in s
    BY <2>2 DEF OnePerParent
  <2>4. PICK y \in orphans' : {z \in orphans' : Parent[z] = Parent[o]} = {y}
    BY <2>2, <2>3 DEF OnePerParent
  <2> QED
    BY <2>4
<1>4. \A t, verified : RelayTx(t) \/ MarkVerified(t, verified) \/ RequestTx(t) => orphans' \subseteq orphans
  BY DEF RelayTx, MarkVerified, RequestTx, chainVars
<1>5. \A lost : DropUnrelayed(lost) => orphans' \subseteq orphans
  BY Zenon DEF DropUnrelayed
<1>6. \A t, amount, swap : CreateTransaction(t, amount, swap) => orphans' \subseteq orphans
  BY Zenon DEF CreateTransaction, Create, chainVars
<1>7. \A rate : LoadBloomFilter \/ SetFeePerKb(rate) \/ Rescan \/ UNCHANGED vars => orphans' \subseteq orphans
  BY DEF LoadBloomFilter, SetFeePerKb, Rescan, vars, chainVars
<1>8. \A b : InvalidBlock(b) \/ ForkBlock(b) => orphans' \subseteq orphans
  BY DEF InvalidBlock, ForkBlock, TakeNext, TakeNextFrom
<1>9. ASSUME NEW b, NEW phase, ExtendChain(b, phase) \/ Reorganize(b, phase) \/ ExistingBlock(b)
      PROVE  orphans' \subseteq orphans
  <2>1. TakeNextFrom(HeldOrphans(phase), b) \/ TakeNext(b)
    BY <1>9, Zenon DEF ExtendChain, Reorganize, ExistingBlock
  <2> QED
    BY <2>1 DEF TakeNext, TakeNextFrom, HeldOrphans
<1> QED
  BY <1>1, <1>2, <1>3, <1>4, <1>5, <1>6, <1>7, <1>8, <1>9, Zenon DEF Next

\* TypeOK, from its parts.
LEMMA TypesFrom ==
  ASSUME ListInv, ListedIsKnown, OrphanInv, ChainTypes
  PROVE  TypeOK
<1> DEFINE q == wallet.list
           A == wallet.all
<1>1. q \in Seq(Tx) /\ Once(q) /\ ToSet(q) \subseteq A /\ A \subseteq Tx /\ ToSet(rows) = ToSet(q)
  BY DEF ListInv, ListedIsKnown
<1> HIDE DEF q, A
<1>2. q \in Seq(A)
  <2>1. Len(q) \in Nat /\ q \in [1 .. Len(q) -> Tx]
    BY <1>1
  <2>2. \A k \in 1 .. Len(q) : q[k] \in A
    BY <1>1, <2>1 DEF ToSet
  <2> QED
    BY <2>1, <2>2
<1>3. q \in Seq(A) /\ A \subseteq Tx /\ ToSet(rows) = ToSet(q) /\ \A i, j \in DOMAIN q : q[i] = q[j] => i = j
  BY <1>1, <1>2 DEF Once
<1> QED
  BY <1>3 DEF TypeOK, OrphanInv, ChainTypes, q, A

\* The lists are right, and TypeOK is, as long as no block frees a transaction
\* that is listed.
LEMMA ListsAlways == Spec /\ []ListedIsKnown => [](ListInv /\ TypeOK)
<1>1. Init => ListInv /\ OrphanInv
  <2> SUFFICES ASSUME Init PROVE ListInv /\ OrphanInv
    OBVIOUS
  <2>1. orphans = {}
    BY Zenon DEF Init
  <2> QED
    BY <2>1, ListInit DEF OrphanInv
<1>2. ListInv /\ OrphanInv /\ ListedIsKnown /\ ChainInv /\ [Next]_vars => ListInv' /\ OrphanInv'
  BY ListNext, OrphanNext DEF ChainInv
<1>3. ListInv /\ OrphanInv /\ ListedIsKnown /\ ChainInv => TypeOK
  BY TypesFrom DEF ChainInv
<1> QED
  BY <1>1, <1>2, <1>3, ChainInvariant, PTL DEF Spec

\* The database has the transactions the wallet lists, no others, and both have
\* each once, whatever was relayed, removed, confirmed, loaded and reorganised.
SameLists == Once(wallet.list) /\ Once(rows) /\ ToSet(rows) = ToSet(wallet.list)

\* A restart loads what the wallet listed: rows is written by txAdded and
\* txDeleted alone, and agrees with the list as long as no block freed a listed
\* transaction, which would then be registered and written once more.
THEOREM ListsAgree == Spec /\ []ListedIsKnown => []SameLists
<1>1. ListInv => SameLists
  BY DEF ListInv, SameLists
<1> QED
  BY <1>1, ListsAlways, PTL

-----------------------------------------------------------------------------
(* What follows for every behaviour *)

\* As long as no listed transaction is freed, the wallet stays right.
LEMMA WalletAlways == Spec /\ []ListedIsKnown => []WalletInv
<1>1. Init /\ TypeOK => WalletInv
  BY WalletInit
<1>2. WalletInv /\ TypeOK /\ TypeOK' /\ [Next]_vars => WalletInv'
  BY WalletNext
<1> QED
  BY <1>1, <1>2, ListsAlways, PTL DEF Spec

\* What a right wallet shows.
LEMMA WalletShows == WalletInv => BalanceIsUnspentSum /\ UnconfirmedSpendOnce /\ MaxIsSendable
<1> SUFFICES ASSUME WalletInv PROVE BalanceIsUnspentSum /\ UnconfirmedSpendOnce /\ MaxIsSendable
  OBVIOUS
<1>1. BalanceIsUnspentSum /\ UnconfirmedSpendOnce
  BY DEF WalletInv, RightWallet, BalanceIsUnspentSum, UnconfirmedSpendOnce
<1>2. IsFunded(wallet) /\ BodiesOK
  BY DEF WalletInv, RightWallet, IsFunded, BalanceRight
<1>3. MaxIsSendable
  BY <1>2, MaximumCanBeSent DEF MaxIsSendable
<1> QED
  BY <1>1, <1>3

\* The balance of every reachable wallet is the sum of its unspent outputs, as
\* BalanceIsUnspentSum says, in whatever order transactions were relayed,
\* confirmed, unconfirmed by a reorganisation, removed, or loaded again: most
\* of these leave _BRWalletUpdateBalance out when nothing it reads changed.
THEOREM BalanceAlwaysRight == Spec /\ []ListedIsKnown => []BalanceIsUnspentSum
  BY WalletShows, WalletAlways, PTL

\* Two unconfirmed transactions the wallet counts never spend one output.
THEOREM NoDoubleSpend == Spec /\ []ListedIsKnown => []UnconfirmedSpendOnce
  BY WalletShows, WalletAlways, PTL

\* What BRWalletMaxOutputAmount reports can be sent in every reachable state in
\* which a transaction has room for all the unspent outputs, whatever the fee
\* rate was set to since the balance was computed.
THEOREM MaximumAlwaysSendable == Spec /\ []ListedIsKnown => []MaxIsSendable
  BY WalletShows, WalletAlways, PTL

\* Only BRWalletCreateTransaction gives a transaction of the wallet its contents.
LEMMA OnlyCreated ==
  ASSUME WalletInv, [Next]_vars, NEW t \in OwnTx, body[t] = NoBody, body'[t] # NoBody
  PROVE  \E amount \in Amounts, swap \in BOOLEAN : CreateTransaction(t, amount, swap)
<1>1. body' # body
  OBVIOUS
<1>2. ASSUME NEW x \in OwnTx, NEW amount \in Amounts, NEW swap \in BOOLEAN, CreateTransaction(x, amount, swap)
      PROVE  CreateTransaction(t, amount, swap)
  <2>1. body' = [body EXCEPT ![x] = CreatedBody(wallet, Settled(wallet, amount), swap)]
    BY <1>2 DEF CreateTransaction, Create
  <2>2. x = t
    BY <2>1
  <2> QED
    BY <1>2, <2>2
<1>3. ~Restart
  <2> SUFFICES ASSUME Restart PROVE FALSE
    OBVIOUS
  <2>1. body' = [x \in Tx |-> IF x \in OwnTx /\ ~Contains(rows, x) THEN NoBody ELSE body[x]]
    BY DEF Restart
  <2>2. t \in Tx
    BY DEF Tx
  <2> QED
    BY <2>1, <2>2
<1>4. \A x \in Tx, verified \in BOOLEAN : ~RelayTx(x) /\ ~MarkVerified(x, verified) /\ ~RequestTx(x)
  BY <1>1 DEF RelayTx, MarkVerified, RequestTx
<1>5. \A lost : ~DropUnrelayed(lost)
  BY <1>1, Zenon DEF DropUnrelayed
<1>6. ~LoadBloomFilter /\ \A rate : ~SetFeePerKb(rate)
  BY <1>1 DEF LoadBloomFilter, SetFeePerKb
<1>7. \A b : ~OrphanBlock(b) /\ ~InvalidBlock(b) /\ ~BlockAhead(b) /\ ~ForkBlock(b)
  BY <1>1 DEF OrphanBlock, InvalidBlock, BlockAhead, ForkBlock, walletVars
<1>8. \A b, phase : ~ExtendChain(b, phase)
  BY <1>1, Zenon DEF ExtendChain
<1>9. \A b : ~ExistingBlock(b)
  BY <1>1, Zenon DEF ExistingBlock
<1>10. \A b, phase : ~Reorganize(b, phase)
  BY <1>1, Zenon DEF Reorganize
<1>11. ~Rescan /\ ~UNCHANGED vars
  BY <1>1 DEF Rescan, vars, walletVars
<1>12. NetTx \subseteq Tx /\ OwnTx \subseteq Tx
  BY DEF Tx
<1>13. \E x \in OwnTx, amount \in Amounts, swap \in BOOLEAN : CreateTransaction(x, amount, swap)
  BY <1>3, <1>4, <1>5, <1>6, <1>7, <1>8, <1>9, <1>10, <1>11, <1>12 DEF Next
<1> QED
  BY <1>2, <1>13

\* The outputs of a created transaction go to the address asked for and to
\* addresses the wallet has generated by then.
LEMMA CreatedAddrs ==
  ASSUME NEW w, DOMAIN w = DOMAIN EmptyWallet, AddrsOK(w), NEW amount, NEW swap
  PROVE  LET b == CreatedBody(w, amount, swap)
             v == IF ChangeOf(w, amount) > 0 THEN UnusedAddrs(w, "internal", 1) ELSE w
         IN \A o \in ToSet(b.out) : ChangeOf(w, amount) \in Nat => o.addr \in {Foreign} \cup AddrsUpTo(v.count)
<1> DEFINE chg == ChangeOf(w, amount)
           b == CreatedBody(w, amount, swap)
           u == UnusedAddrs(w, "internal", 1)
           i == FirstUnused(u, "internal")
           p == [addr |-> Foreign, amount |-> amount]
           c == [addr |-> <<"internal", i>>, amount |-> chg]
           v == IF chg > 0 THEN u ELSE w
<1> SUFFICES ASSUME NEW o \in ToSet(b.out), chg \in Nat
             PROVE  o.addr \in {Foreign} \cup AddrsUpTo(v.count)
  OBVIOUS
<1>1. b.out = IF chg = 0 THEN <<p>> ELSE IF swap THEN <<c, p>> ELSE <<p, c>>
  BY DEF CreatedBody
<1>2. i \in Nat /\ i < u.count["internal"] /\ u.count["internal"] \in Nat
  <2>1. "internal" \in Chains /\ "count" \in DOMAIN w /\ "ledger" \in DOMAIN w /\ 1 \in Nat
    BY WalletFields DEF Chains
  <2>2. u.count \in [Chains -> Nat] /\ i \in Nat /\ i + 1 <= u.count["internal"]
    BY <2>1, UnusedFacts
  <2> QED
    BY <2>1, <2>2
<1> HIDE DEF chg, u, i, b
<1>3. <<"internal", i>> \in AddrsUpTo(u.count)
  BY <1>2 DEF AddrsUpTo, Chains
<1>4. o = p \/ (o = c /\ chg # 0)
  <2> HIDE DEF p, c
  <2>1. b.out \in {<<p>>, <<c, p>>, <<p, c>>} /\ (chg = 0 => b.out = <<p>>)
    BY <1>1
  <2>2. ToSet(b.out) = {b.out[k] : k \in DOMAIN b.out}
    BY DEF ToSet
  <2> QED
    BY <2>1, <2>2
<1>5. CASE o = p
  BY <1>5
<1>6. CASE o = c /\ chg # 0
  BY <1>3, <1>6
<1> QED
  BY <1>4, <1>5, <1>6

\* Every transaction BRWalletCreateTransaction makes is sound, whatever came
\* before it: it spends outputs that are unspent then, each once, and what it
\* does not send is change to an unused address and a fee within its limits.
THEOREM CreatedAlwaysSound == Spec /\ []ListedIsKnown => CreatedIsSound
<1> DEFINE A ==
             \A t \in OwnTx : (body[t] = NoBody /\ body'[t] # NoBody) =>
                IsSound(wallet, body'[t]) /\ body'[t].out # <<>>
                    /\ \A o \in ToSet(body'[t].out) : o.addr \in {Foreign} \cup AddrsUpTo(wallet'.count)
<1>1. WalletInv /\ [Next]_vars => A
  <2> SUFFICES ASSUME WalletInv, [Next]_vars, NEW t \in OwnTx, body[t] = NoBody, body'[t] # NoBody
               PROVE  /\ IsSound(wallet, body'[t]) /\ body'[t].out # <<>>
                      /\ \A o \in ToSet(body'[t].out) : o.addr \in {Foreign} \cup AddrsUpTo(wallet'.count)
    OBVIOUS
  <2>1. PICK amount \in Amounts, swap \in BOOLEAN : CreateTransaction(t, amount, swap)
    BY OnlyCreated
  <2> DEFINE sent == Settled(wallet, amount)
             b == CreatedBody(wallet, sent, swap)
  <2>2. /\ body' = [body EXCEPT ![t] = b] /\ amount >= MinOutputAmount(wallet) /\ CanCreate(wallet, sent)
        /\ wallet' = IF ChangeOf(wallet, sent) > 0 THEN UnusedAddrs(wallet, "internal", 1) ELSE wallet
    BY <2>1 DEF CreateTransaction, Create
  <2>3. /\ DOMAIN wallet = DOMAIN EmptyWallet /\ DOMAIN body = Tx /\ BodiesOK
        /\ IsFunded(wallet) /\ AddrsOK(wallet) /\ Once(wallet.ledger.utxos)
    BY DEF WalletInv, RightWallet, IsFunded, BalanceRight, Once
  <2>4. sent \in Nat /\ sent \in Int /\ sent >= MinOutputAmount(wallet) /\ t \in Tx
    <3>1. amount \in Nat
      BY WalletAssumption
    <3>2. sent \in Nat /\ sent >= MinOutputAmount(wallet)
      BY <2>2, <2>3, <3>1, SettledFacts
    <3> QED
      BY <3>2 DEF Tx
  <2> HIDE DEF sent
  <2>5. IsSound(wallet, b)
    <3>1. "count" \in DOMAIN wallet /\ "ledger" \in DOMAIN wallet
      BY <2>3, WalletFields
    <3> QED
      BY <2>2, <2>3, <2>4, <3>1, CreatedSpendsRight
  <2>6. b.out # <<>>
    BY DEF CreatedBody
  <2>7. ChangeOf(wallet, sent) \in Nat
    BY <2>3, <2>4, ChangeFacts
  <2>8. \A o \in ToSet(b.out) : o.addr \in {Foreign} \cup AddrsUpTo(wallet'.count)
    BY <2>2, <2>3, <2>7, CreatedAddrs
  <2> HIDE DEF b
  <2>9. body'[t] = b
    BY <2>2, <2>3, <2>4
  <2> QED
    BY <2>5, <2>6, <2>8, <2>9
<1>2. WalletInv /\ [Next]_vars => [A]_walletVars
  <2> HIDE DEF A
  <2> QED
    BY <1>1
<1> QED
  BY <1>2, WalletAlways, PTL DEF Spec, CreatedIsSound

-----------------------------------------------------------------------------
(* Locked transactions *)

\* Whether a transaction is pending, by the ones it spends from.
HasPending(E, P, par) == \E g : g = [x \in Tx |-> x \in E /\ (x \in P \/ \E p \in par[x] : g[p])]

\* Such a function exists, even for transactions that spend from each other:
\* the pending ones are the least set that has what it must.
LEMMA PendingExists ==
  ASSUME NEW E \in SUBSET Tx, NEW P \in SUBSET Tx, NEW par \in [Tx -> SUBSET Tx]
  PROVE  HasPending(E, P, par)
<1> DEFINE Must(x, s) == x \in E /\ (x \in P \/ \E p \in par[x] : p \in s)
           Shut == {s \in SUBSET Tx : \A x \in Tx : Must(x, s) => x \in s}
           L == {x \in Tx : \A s \in Shut : x \in s}
           M == {x \in L : Must(x, L)}
           G == [x \in Tx |-> x \in L]
<1>1. ASSUME NEW x \in Tx, Must(x, L) PROVE x \in L
  <2> SUFFICES ASSUME NEW s \in Shut PROVE x \in s
    OBVIOUS
  <2>1. L \subseteq s
    OBVIOUS
  <2> HIDE DEF L
  <2>2. Must(x, s)
    BY <1>1, <2>1
  <2> QED
    BY <2>2
<1>2. M \in Shut
  <2>1. M \subseteq L /\ L \subseteq Tx
    OBVIOUS
  <2>2. \A y \in Tx : Must(y, M) => Must(y, L)
    <3> HIDE DEF L, M
    <3> QED
      BY <2>1
  <2>3. \A y \in Tx : y \in L /\ Must(y, L) => y \in M
    OBVIOUS
  <2> HIDE DEF L, M, Must
  <2> QED
    BY <1>1, <2>1, <2>2, <2>3
<1>3. \A x \in L : x \in M
  <2> HIDE DEF M
  <2> QED
    BY <1>2
<1>4. \A x \in L : Must(x, L)
  <2> HIDE DEF Must, L
  <2> QED
    BY <1>3
<1> HIDE DEF L
<1>5. \A x \in Tx : (x \in L) <=> Must(x, L)
  <2>1. \A x \in Tx : Must(x, L) => x \in L
    BY <1>1
  <2> HIDE DEF Must
  <2> QED
    BY <1>4, <2>1
<1>6. \A x \in Tx : G[x] = (x \in L)
  OBVIOUS
<1> DEFINE V(x) == x \in E /\ (x \in P \/ \E p \in par[x] : G[p])
<1> HIDE DEF G
<1>7. \A x \in Tx : V(x) = (x \in L)
  <2> SUFFICES ASSUME NEW x \in Tx PROVE V(x) = (x \in L)
    OBVIOUS
  <2>1. \A p \in par[x] : p \in Tx /\ G[p] = (p \in L)
    BY <1>6
  <2>2. V(x) <=> Must(x, L)
    BY <2>1, Zenon
  <2>3. V(x) <=> x \in L
    BY <1>5, <2>2, Zenon
  <2> QED
    BY <2>3
<1>8. G = [x \in Tx |-> V(x)]
  <2>1. G = [x \in Tx |-> x \in L]
    BY DEF G
  <2> HIDE DEF V
  <2> QED
    BY <1>7, <2>1, Zenon
<1> QED
  BY <1>8, Zenon DEF HasPending

\* A postdated transaction that is not confirmed is pending.
LEMMA PostdatedIsPending ==
  ASSUME NEW w, w.all \subseteq Tx, NEW t \in Tx, w.height[t] = Unconfirmed, IsPostdated(t, w.tip)
  PROVE  TransactionIsPending(w, t)
<1> DEFINE E == {x \in Tx : w.height[x] = Unconfirmed}
           P == {x \in Tx : IsPostdated(x, w.tip)}
           par == [x \in Tx |-> InputTxs(x) \cap w.all]
           V(f, x) == /\ w.height[x] = Unconfirmed
                      /\ IsPostdated(x, w.tip) \/ \E p \in InputTxs(x) \cap w.all : f[p]
           RHS(f) == [x \in Tx |-> V(f, x)]
           pending == CHOOSE f : f = RHS(f)
<1>1. TransactionIsPending(w, t) = pending[t]
  BY Zenon DEF TransactionIsPending
<1>2. \A x \in Tx : /\ x \in E <=> w.height[x] = Unconfirmed
                    /\ x \in P <=> IsPostdated(x, w.tip)
                    /\ par[x] = InputTxs(x) \cap w.all
  OBVIOUS
<1>3. HasPending(E, P, par)
  <2>1. E \in SUBSET Tx /\ P \in SUBSET Tx /\ par \in [Tx -> SUBSET Tx]
    OBVIOUS
  <2> HIDE DEF E, P, par
  <2> QED
    BY <2>1, PendingExists
<1> HIDE DEF E, P, par
<1>4. PICK g : g = [x \in Tx |-> x \in E /\ (x \in P \/ \E p \in par[x] : g[p])]
  BY <1>3, Zenon DEF HasPending
<1>5. g = RHS(g)
  BY <1>2, <1>4, Zenon
<1> HIDE DEF V
<1>6. pending = RHS(pending)
  BY <1>5, Zenon
<1> HIDE DEF pending
<1>7. pending[t] = V(pending, t)
  BY <1>6
<1> QED
  BY <1>1, <1>7 DEF V

\* The height the wallet takes for the chain's is no more than top, unless a
\* transaction was marked verified.
TipUpTo(w, top) == w.tip \in Nat /\ (w.tip = Unconfirmed \/ w.tip <= top)

\* Confirming transactions up to a height takes the wallet no further.
LEMMA ConfirmTip ==
  ASSUME NEW w, NEW at, NEW q, NEW n \in Nat, DOMAIN q = 1 .. n, Len(q) = n, NEW top \in Nat,
         \A k \in 1 .. n : q[k] \in Nat /\ q[k] <= top,
         DOMAIN w = DOMAIN EmptyWallet, TipUpTo(w, top),
         NEW v, v = ConfirmAll(at, w, q)
  PROVE  DOMAIN v = DOMAIN w /\ TipUpTo(v, top)
<1> DEFINE J(u) == DOMAIN u = DOMAIN w /\ TipUpTo(u, top)
<1>1. PICK f : StepsTo("height", at, q, w, f, v)
  BY ConfirmSteps, Zenon
<1>2. f[0] = w /\ f[n] = v /\ \A k \in 1 .. n : f[k] = StepOf("height", at, f[k - 1], q[k])
  BY <1>1 DEF StepsTo
<1>3. ASSUME NEW u, J(u), NEW h \in Nat, h <= top PROVE J(StepOf("height", at, u, h))
  <2> DEFINE txs == BlockTx[at[h]]
             r == UpdateTxs(u, txs, h, TRUE)
  <2>1. StepOf("height", at, u, h) = u \/ StepOf("height", at, u, h) = r
    BY Zenon DEF StepOf
  <2>2. Updated(u, r, txs, h)
    BY <1>3, UpdateTxsFacts
  <2> HIDE DEF r, txs
  <2>3. J(r)
    BY <1>3, <2>2 DEF Updated, TipUpTo
  <2> HIDE DEF J
  <2> QED
    BY <1>3, <2>1, <2>3
<1> DEFINE T == {k \in 0 .. n : J(f[k])}
<1>4. J(w)
  OBVIOUS
<1> HIDE DEF J
<1>5. 0 \in T
  BY <1>2, <1>4
<1>6. ASSUME NEW k \in 0 .. n - 1, k \in T PROVE k + 1 \in T
  <2>1. k + 1 \in 1 .. n /\ (k + 1) - 1 = k /\ k + 1 \in 0 .. n
    OBVIOUS
  <2>2. f[k + 1] = StepOf("height", at, f[k], q[k + 1])
    BY <1>2, <2>1
  <2>3. q[k + 1] \in Nat /\ q[k + 1] <= top
    BY <2>1
  <2> QED
    BY <1>3, <1>6, <2>1, <2>2, <2>3
<1>7. n \in T
  <2>1. \A k \in 0 .. n - 1 : k \in T => k + 1 \in T
    BY <1>6
  <2>2. n \in 0 .. n
    OBVIOUS
  <2> HIDE DEF T
  <2>3. \A k \in 0 .. n : k \in T
    BY <1>5, <2>1, CountUp, Zenon
  <2> QED
    BY <2>2, <2>3
<1>8. J(v)
  BY <1>2, <1>7
<1> QED
  BY <1>8 DEF J

\* Only transactions of the network are locked; they have inputs.
LocksOK == \A t \in Tx : body[t].seq = "locked" => body[t].in # <<>> /\ body[t].lock \in Nat

LEMMA LocksNext ==
  ASSUME WalletInv, LocksOK, [Next]_vars
  PROVE  LocksOK'
<1>0. NoBody.seq = "final" /\ DOMAIN body = Tx
  BY DEF NoBody, WalletInv
<1>1. CASE body' = body
  BY <1>1, Zenon DEF LocksOK
<1>2. ASSUME NEW t \in OwnTx, NEW amount \in Amounts, NEW swap \in BOOLEAN, CreateTransaction(t, amount, swap)
      PROVE  LocksOK'
  <2> DEFINE b == CreatedBody(wallet, Settled(wallet, amount), swap)
  <2>1. b.seq = "final"
    BY DEF CreatedBody
  <2>2. body' = [body EXCEPT ![t] = b]
    BY <1>2 DEF CreateTransaction, Create
  <2> HIDE DEF b
  <2>3. \A x \in Tx : body'[x] = body[x] \/ body'[x].seq = "final"
    BY <1>0, <2>1, <2>2
  <2> QED
    BY <2>3 DEF LocksOK
<1>3. CASE Restart
  <2>1. body' = [x \in Tx |-> IF x \in OwnTx /\ ~Contains(rows, x) THEN NoBody ELSE body[x]]
    BY <1>3 DEF Restart
  <2>2. \A x \in Tx : body'[x] = body[x] \/ body'[x].seq = "final"
    BY <1>0, <2>1
  <2> QED
    BY <2>2 DEF LocksOK
<1>4. \A x, verified : RelayTx(x) \/ MarkVerified(x, verified) \/ RequestTx(x) => body' = body
  BY DEF RelayTx, MarkVerified, RequestTx
<1>5. \A lost : DropUnrelayed(lost) => body' = body
  BY Zenon DEF DropUnrelayed
<1>6. \A rate : LoadBloomFilter \/ SetFeePerKb(rate) \/ Rescan => body' = body
  BY DEF LoadBloomFilter, SetFeePerKb, Rescan, walletVars
<1>7. \A b : OrphanBlock(b) \/ InvalidBlock(b) \/ BlockAhead(b) \/ ForkBlock(b) => body' = body
  BY DEF OrphanBlock, InvalidBlock, BlockAhead, ForkBlock, walletVars
<1>8. \A b, phase : ExtendChain(b, phase) \/ ExistingBlock(b) \/ Reorganize(b, phase) => body' = body
  BY Zenon DEF ExtendChain, ExistingBlock, Reorganize
<1>9. UNCHANGED vars => body' = body
  BY DEF vars, walletVars
<1> HIDE DEF LocksOK
<1> QED
  BY <1>1, <1>2, <1>3, <1>4, <1>5, <1>6, <1>7, <1>8, <1>9, Zenon DEF Next

\* A step does not take the wallet's height above the height of the chain.
TipStep ==
    /\ wallet'.tip \in Nat
    /\ TipUpTo(wallet, Height[lastBlock]) => TipUpTo(wallet', Height[lastBlock'])

LEMMA TipSame ==
  ASSUME wallet.tip \in Nat, wallet'.tip = wallet.tip, lastBlock' = lastBlock
  PROVE  TipStep
BY DEF TipStep, TipUpTo

\* Operations that do not hand the wallet a height.
LEMMA TipOfTransactions ==
  ASSUME WalletInv, TypeOK, wallet.tip \in Nat,
         \/ \E t : RelayTx(t) \/ RequestTx(t)
         \/ \E t \in Tx, verified \in BOOLEAN : MarkVerified(t, verified)
         \/ \E lost : DropUnrelayed(lost)
         \/ \E t, amount, swap : CreateTransaction(t, amount, swap)
         \/ LoadBloomFilter
         \/ \E rate : SetFeePerKb(rate)
  PROVE  TipStep
<1>1. DOMAIN wallet = DOMAIN EmptyWallet /\ wallet.count \in [Chains -> Nat] /\ wallet.list \in Seq(Tx)
  BY ListFacts DEF WalletInv, RightWallet, AddrsOK, TypeOK
<1>2. ASSUME NEW t, RelayTx(t) \/ RequestTx(t) PROVE TipStep
  <2>1. wallet' = Register(wallet, t) /\ lastBlock' = lastBlock
    BY <1>2 DEF RelayTx, RequestTx
  <2>2. wallet'.tip = wallet.tip
    BY <1>1, <2>1, RegisterFacts
  <2> QED
    BY <2>1, <2>2, TipSame
<1>3. ASSUME NEW t \in Tx, NEW verified \in BOOLEAN, MarkVerified(t, verified) PROVE TipStep
  <2> DEFINE v == UpdateTxs(wallet, {t}, Unconfirmed, verified)
  <2>1. wallet' = v /\ lastBlock' = lastBlock
    BY <1>3 DEF MarkVerified, chainVars
  <2>2. Updated(wallet, v, {t}, Unconfirmed)
    BY <1>1, UpdateTxsFacts
  <2> HIDE DEF v
  <2> QED
    BY <2>1, <2>2, BlocksBelow DEF Updated, TipStep, TipUpTo
<1>4. ASSUME NEW lost, DropUnrelayed(lost) PROVE TipStep
  <2> DEFINE q == TxUnconfirmedBefore(wallet, Unconfirmed)
             v == DropAll(lost, wallet, q)
  <2>1. wallet' = v
    BY <1>4, Zenon DEF DropUnrelayed, DropAll
  <2>2. lastBlock' = lastBlock
    BY <1>4, Zenon DEF DropUnrelayed
  <2>3. PICK n \in Nat : DOMAIN q = 1 .. n /\ Len(q) = n
    BY <1>1, QueueIsSeq
  <2> HIDE DEF q
  <2>4. v.tip = wallet.tip
    BY <1>1, <2>3, DropFacts
  <2> QED
    BY <2>1, <2>2, <2>4, TipSame
<1>5. ASSUME NEW t, NEW amount, NEW swap, CreateTransaction(t, amount, swap) PROVE TipStep
  <2>1. wallet' = wallet \/ wallet' = UnusedAddrs(wallet, "internal", 1)
    BY <1>5 DEF CreateTransaction, Create
  <2>2. lastBlock' = lastBlock
    BY <1>5 DEF CreateTransaction, Create, chainVars
  <2>3. SameBut(wallet, UnusedAddrs(wallet, "internal", 1))
    BY <1>1, AddrsKeep DEF Chains
  <2>4. wallet'.tip = wallet.tip
    BY <2>1, <2>3 DEF SameBut
  <2> QED
    BY <2>2, <2>4, TipSame
<1>6. CASE LoadBloomFilter
  <2>1. wallet' = SpareAddrs(wallet) /\ lastBlock' = lastBlock
    BY <1>6 DEF LoadBloomFilter
  <2>2. wallet'.tip = wallet.tip
    BY <1>1, <2>1, BothAddrsKeep DEF SameBut
  <2> QED
    BY <2>1, <2>2, TipSame
<1>7. ASSUME NEW rate, SetFeePerKb(rate) PROVE TipStep
  <2>1. wallet' = [wallet EXCEPT !.rate = rate] /\ lastBlock' = lastBlock
    BY <1>7 DEF SetFeePerKb, chainVars
  <2>2. wallet'.tip = wallet.tip
    BY <2>1
  <2> QED
    BY <2>1, <2>2, TipSame
<1> QED
  BY <1>2, <1>3, <1>4, <1>5, <1>6, <1>7

\* The transactions of a block get a height the chain has reached.
LEMMA TipOfBlocks ==
  ASSUME WalletInv, ChainTypes, wallet.tip \in Nat, NEW b \in Block,
         (\E phase : ExtendChain(b, phase)) \/ ExistingBlock(b)
  PROVE  TipStep
<1> DEFINE u == UpdateTxs(wallet, BlockTx[b], Height[b], TRUE)
<1>1. /\ DOMAIN wallet = DOMAIN EmptyWallet /\ lastBlock \in Block
      /\ Height[b] \in Nat /\ Height[lastBlock] \in Nat
  BY BlocksBelow DEF WalletInv, RightWallet, ChainTypes
<1>2. Updated(wallet, u, BlockTx[b], Height[b])
  BY <1>1, UpdateTxsFacts
<1> HIDE DEF u
<1>3. ASSUME NEW phase, ExtendChain(b, phase) PROVE TipStep
  <2>1. PICK v \in {wallet, u} : wallet' = LoadMempools(v, phase)
    BY <1>3, Zenon DEF ExtendChain, u
  <2>2. lastBlock' = b /\ Parent[b] = lastBlock
    BY <1>3, Zenon DEF ExtendChain
  <2>3. Height[b] = Height[lastBlock] + 1
    BY <1>1, <2>2, ChainAssumption
  <2>4. DOMAIN v = DOMAIN EmptyWallet
    BY <1>1, <1>2, <2>1 DEF Updated
  <2>5. wallet'.tip = v.tip
    BY <2>1, <2>4, BothAddrsKeep DEF SameBut
  <2> QED
    BY <1>1, <1>2, <2>1, <2>2, <2>3, <2>5 DEF Updated, TipStep, TipUpTo
<1>4. CASE ExistingBlock(b)
  <2>1. wallet' = wallet \/ (wallet' = u /\ b \in {lastBlock} \cup Walk(blocks', lastBlock))
    BY <1>4 DEF ExistingBlock, u
  <2>2. lastBlock' = lastBlock
    BY <1>4 DEF ExistingBlock
  <2>3. Walk(blocks', lastBlock) \subseteq Branch[lastBlock]
    BY DEF Walk
  <2>4. b \in {lastBlock} \cup Walk(blocks', lastBlock) => Height[b] <= Height[lastBlock]
    BY <1>1, <2>3, BranchHeights
  <2> QED
    BY <1>1, <1>2, <2>1, <2>2, <2>4 DEF Updated, TipStep, TipUpTo
<1> QED
  BY <1>3, <1>4

\* A reorganisation ends at the height of the new branch.
LEMMA TipOfReorg ==
  ASSUME WalletInv, ChainTypes, NEW b \in Block, NEW phase, Reorganize(b, phase)
  PROVE  TipStep
<1> DEFINE join == JoinPoint(blocks', b)
           h == Height[join[1]]
           reset == SetTxUnconfirmedAfter(wallet, h)
           again == Reconfirm(reset, blocks', b, Height[join[2]])
           v == IF join[2] = NoBlock THEN reset ELSE again
           top == Height[b]
<1>1. wallet' = LoadMempools(v, phase) /\ lastBlock' = b /\ join[1] # NoBlock
  BY DEF Reorganize
<1>2. DOMAIN wallet = DOMAIN EmptyWallet /\ blocks' \in SUBSET Block /\ lastBlock \in Block
  <2>1. blocks' = KeptBlocks(b) \cup {b}
    BY DEF Reorganize
  <2> QED
    BY <2>1, KeptIsHeld DEF WalletInv, RightWallet, ChainTypes
<1>3. join[2] \in Block \cup {NoBlock} /\ join[1] \in Block /\ Height[join[1]] <= Height[b]
  BY <1>1, <1>2, JoinIsBlock
<1>4. top \in Nat /\ h \in Nat /\ h <= top /\ top < Unconfirmed
  BY <1>3, BlocksBelow
<1>5. DOMAIN reset = DOMAIN wallet /\ reset.tip = h
  <2> HIDE DEF h
  <2> QED
    BY <1>2, UnconfirmedAfterFacts
<1>6. DOMAIN reset = DOMAIN EmptyWallet /\ TipUpTo(reset, top)
  <2> HIDE DEF h, reset, top
  <2> QED
    BY <1>2, <1>4, <1>5 DEF TipUpTo
<1>7. DOMAIN v = DOMAIN EmptyWallet /\ TipUpTo(v, top)
  <2>1. CASE join[2] = NoBlock
    BY <1>6, <2>1
  <2>2. CASE join[2] # NoBlock
    <3> DEFINE low == Height[join[2]]
               at == [x \in Nat |-> CHOOSE y \in {b} \cup Walk(blocks', b) : Height[y] = x]
               q == [k \in 1 .. top - low |-> top + 1 - k]
    <3>1. again = ConfirmAll(at, reset, q)
      BY Zenon DEF Reconfirm, ConfirmAll
    <3>2. low \in Nat
      BY <1>3, <2>2, BlocksBelow
    <3>3. v = again
      BY <2>2
    <3> HIDE DEF top, low, at, v, again, reset
    <3>4. PICK n \in Nat : /\ DOMAIN q = 1 .. n /\ Len(q) = n
                           /\ \A k \in 1 .. n : q[k] \in Nat /\ q[k] <= top /\ q[k] < Unconfirmed
      BY <1>4, <3>2, BranchHeightsSeq
    <3> HIDE DEF q
    <3>5. DOMAIN q = 1 .. n /\ Len(q) = n /\ \A k \in 1 .. n : q[k] \in Nat /\ q[k] <= top
      BY <3>4
    <3>6. top \in Nat
      BY <1>4
    <3>7. DOMAIN reset = DOMAIN EmptyWallet /\ TipUpTo(reset, top)
      BY <1>6
    <3>8. DOMAIN again = DOMAIN reset /\ TipUpTo(again, top)
      BY <3>1, <3>5, <3>6, <3>7, ConfirmTip
    <3> QED
      BY <3>3, <3>7, <3>8
  <2> QED
    BY <2>1, <2>2
<1> HIDE DEF v, top
<1>8. wallet'.tip = v.tip
  BY <1>1, <1>7, BothAddrsKeep DEF SameBut
<1> QED
  BY <1>1, <1>7, <1>8 DEF TipStep, TipUpTo, top

\* A restarted wallet has no height yet.
LEMMA TipOfRestart ==
  ASSUME WalletInv, ChainTypes', Restart
  PROVE  TipStep
<1> DEFINE height == [t \in Tx |-> IF t \in ToSet(rows) THEN wallet.height[t] ELSE Unconfirmed]
           stamped == [t \in Tx |-> t \in ToSet(rows) /\ wallet.stamped[t]]
           v == WalletNew(rows, height, stamped)
<1>1. wallet' = v
  BY Zenon DEF Restart
<1>2. rows \in Seq(Tx) /\ BodiesOK
  BY DEF WalletInv
<1> HIDE DEF height, stamped
<1>3. v.tip = 0
  BY <1>2, NewFacts
<1> HIDE DEF v
<1>4. Height[lastBlock'] \in Nat
  BY BlocksBelow DEF ChainTypes
<1> QED
  BY <1>1, <1>3, <1>4 DEF TipStep, TipUpTo

TipInv ==
    /\ LocksOK /\ wallet.tip \in Nat
    /\ budget.rescan = MaxRescans => TipUpTo(wallet, Height[lastBlock])

LEMMA TipNext ==
  ASSUME ChainInv, ChainInv', BudgetType, RescansLeft, WalletInv, TypeOK, TipInv, [Next]_vars
  PROVE  TipInv'
<1>0. /\ ChainTypes /\ ChainTypes' /\ wallet.tip \in Nat /\ LocksOK
      /\ budget.rescan \in Nat /\ MaxRescans \in Nat /\ budget.rescan <= MaxRescans
  BY ChainAssumption DEF ChainInv, BudgetType, TipInv, RescansLeft
<1>1. LocksOK'
  BY <1>0, LocksNext
<1>2. CASE Rescan
  <2>1. budget'.rescan = budget.rescan - 1 /\ wallet' = wallet
    BY <1>2, RescansCount DEF Next, Rescan, walletVars
  <2>2. budget'.rescan # MaxRescans
    BY <1>0, <2>1
  <2> QED
    BY <1>0, <1>1, <2>1, <2>2 DEF TipInv
<1>3. CASE ~Rescan
  <2>1. budget'.rescan = budget.rescan
    BY <1>3, RescansCount DEF vars, chainVars, history
  <2>2. TipStep
    <3>1. ASSUME NEW b \in Block, OrphanBlock(b) \/ InvalidBlock(b) \/ BlockAhead(b) \/ ForkBlock(b)
          PROVE  TipStep
      BY <1>0, <3>1, TipSame DEF OrphanBlock, InvalidBlock, BlockAhead, ForkBlock, walletVars
    <3>2. CASE UNCHANGED vars
      BY <1>0, <3>2, TipSame DEF vars, walletVars, chainVars
    <3>3. ASSUME NEW b \in Block, (\E phase : ExtendChain(b, phase)) \/ ExistingBlock(b) PROVE TipStep
      BY <1>0, <3>3, TipOfBlocks
    <3>4. ASSUME NEW b \in Block, NEW phase \in Progress, Reorganize(b, phase) PROVE TipStep
      BY <1>0, <3>4, TipOfReorg
    <3>5. CASE Restart
      BY <1>0, <3>5, TipOfRestart
    <3>6. CASE \/ \E t : RelayTx(t) \/ RequestTx(t)
               \/ \E t \in Tx, verified \in BOOLEAN : MarkVerified(t, verified)
               \/ \E lost : DropUnrelayed(lost)
               \/ \E t, amount, swap : CreateTransaction(t, amount, swap)
               \/ LoadBloomFilter
               \/ \E rate : SetFeePerKb(rate)
      BY <1>0, <3>6, TipOfTransactions
    <3> HIDE DEF TipStep
    <3> QED
      BY <1>3, <3>1, <3>2, <3>3, <3>4, <3>5, <3>6, Zenon DEF Next
  <2> QED
    BY <1>0, <1>1, <2>1, <2>2 DEF TipInv, TipStep
<1> QED
  BY <1>2, <1>3

LEMMA TipInit ==
  ASSUME Init, WalletInv
  PROVE  TipInv
<1>1. /\ body = [t \in Tx |-> IF t \in NetTx THEN NetBody[t] ELSE NoBody] /\ rows = <<>>
      /\ wallet = WalletNew(<<>>, [t \in Tx |-> Unconfirmed], [t \in Tx |-> FALSE])
      /\ lastBlock = Checkpoint
  BY DEF Init
<1>2. LocksOK
  BY <1>1, WalletAssumption DEF LocksOK, NoBody
<1>3. rows \in Seq(Tx) /\ BodiesOK
  BY DEF WalletInv
<1>4. wallet.tip = 0
  BY <1>1, <1>3, NewFacts
<1>5. Height[lastBlock] \in Nat
  BY <1>1, ChainAssumption
<1> QED
  BY <1>2, <1>4, <1>5 DEF TipInv, TipUpTo

\* BRWalletTransactionIsPending: until the user rescans, and unless the wallet took
\* TX_UNCONFIRMED for the height of the chain, a listed unconfirmed transaction that
\* is locked beyond the next block is pending, whatever blocks and reorganisations
\* moved the height the wallet compares its lock with.
THEOREM LockedAlwaysPending == Spec /\ []ListedIsKnown => []LockedIsPending
<1>1. Init /\ WalletInv => TipInv
  BY TipInit
<1>2. Init => RescansLeft
  BY ChainAssumption DEF Init, RescansLeft
<1>3. ChainInv /\ BudgetType /\ RescansLeft /\ [Next]_vars => RescansLeft'
  <2> SUFFICES ASSUME BudgetType, RescansLeft, [Next]_vars PROVE RescansLeft'
    OBVIOUS
  <2>1. budget.rescan \in Nat /\ MaxRescans \in Nat
    BY ChainAssumption DEF BudgetType
  <2>2. budget'.rescan \in {budget.rescan, budget.rescan - 1}
    BY RescansCount DEF vars, chainVars, history
  <2> QED
    BY <2>1, <2>2 DEF RescansLeft
<1>4. /\ ChainInv /\ ChainInv' /\ BudgetType /\ RescansLeft /\ WalletInv /\ TypeOK /\ TipInv
      /\ [Next]_vars
      => TipInv'
  BY TipNext
<1>5. WalletInv /\ ChainInv /\ TypeOK /\ TipInv => LockedIsPending
  <2> SUFFICES ASSUME WalletInv, ChainInv, TypeOK, TipInv,
                      budget.rescan = MaxRescans, wallet.tip # Unconfirmed,
                      NEW t \in ToSet(wallet.list), wallet.height[t] = Unconfirmed, body[t].seq = "locked",
                      body[t].lock > Height[lastBlock] + 1
               PROVE  TransactionIsPending(wallet, t)
    BY DEF LockedIsPending
  <2>1. wallet.all \subseteq Tx /\ t \in Tx
    BY ListFacts DEF TypeOK, ToSet
  <2>2. wallet.tip \in Nat /\ wallet.tip <= Height[lastBlock] /\ Height[lastBlock] \in Nat
    BY BlocksBelow DEF TipInv, TipUpTo, ChainInv, ChainTypes
  <2>3. body[t].in # <<>> /\ body[t].lock \in Nat
    BY <2>1 DEF TipInv, LocksOK
  <2>4. IsPostdated(t, wallet.tip)
    BY <2>2, <2>3 DEF IsPostdated
  <2> QED
    BY <2>1, <2>4, PostdatedIsPending
<1> QED
  BY <1>1, <1>2, <1>3, <1>4, <1>5, ListsAlways, WalletAlways, ChainInvariant, PTL DEF Spec

-----------------------------------------------------------------------------
(* Until something is removed or the app restarts *)

\* Addresses are added, and what is forgotten was not the wallet's.
Grows(w, v) ==
    /\ v.count \in [Chains -> Nat] /\ \A c \in Chains : w.count[c] <= v.count[c]
    /\ \A t \in w.all : ContainsTx(w, t) => t \in v.all

\* What was the wallet's still is.
LEMMA ContainsGrows ==
  ASSUME NEW w, NEW v, w.count \in [Chains -> Nat], Grows(w, v), NEW t, ContainsTx(w, t)
  PROVE  ContainsTx(v, t)
<1>1. AddrsUpTo(w.count) \subseteq AddrsUpTo(v.count)
  <2> SUFFICES ASSUME NEW c \in Chains, NEW i \in 0 .. w.count[c] - 1
               PROVE  <<c, i>> \in AddrsUpTo(v.count)
    BY DEF AddrsUpTo
  <2>1. i \in 0 .. v.count[c] - 1
    BY DEF Grows
  <2> QED
    BY <2>1 DEF AddrsUpTo
<1>2. CASE OutputAddrs(t) \cap AddrsUpTo(w.count) # {}
  BY <1>1, <1>2, Zenon DEF ContainsTx
<1>3. ASSUME NEW o \in Inputs(t), PaysWallet(w, o) PROVE ContainsTx(v, t)
  <2>1. o[1] \in w.all /\ o[2] \in DOMAIN body[o[1]].out /\ OutputOf(o).addr \in AddrsUpTo(w.count)
    BY <1>3 DEF PaysWallet
  <2>2. OutputOf(o).addr \in OutputAddrs(o[1])
    BY <2>1 DEF OutputAddrs, OutputOf, ToSet
  <2>3. ContainsTx(w, o[1])
    BY <2>1, <2>2, Zenon DEF ContainsTx
  <2>4. o[1] \in v.all
    BY <2>1, <2>3 DEF Grows
  <2>5. PaysWallet(v, o)
    BY <1>1, <2>1, <2>4 DEF PaysWallet
  <2> QED
    BY <2>5, Zenon DEF ContainsTx
<1> QED
  BY <1>2, <1>3, Zenon DEF ContainsTx

LEMMA GrowsTwice ==
  ASSUME NEW w, NEW u, NEW v, w.count \in [Chains -> Nat], Grows(w, u), Grows(u, v)
  PROVE  Grows(w, v)
<1>1. \A c \in Chains : w.count[c] <= v.count[c]
  BY DEF Grows
<1>2. \A t \in w.all : ContainsTx(w, t) => t \in v.all
  <2> SUFFICES ASSUME NEW t \in w.all, ContainsTx(w, t) PROVE t \in v.all
    OBVIOUS
  <2>1. t \in u.all
    BY DEF Grows
  <2>2. ContainsTx(u, t)
    BY ContainsGrows
  <2> QED
    BY <2>1, <2>2 DEF Grows
<1> QED
  BY <1>1, <1>2 DEF Grows

LEMMA GrowsFields ==
  ASSUME NEW w, NEW v, w.count \in [Chains -> Nat], v.count = w.count, w.all \subseteq v.all
  PROVE  Grows(w, v)
BY DEF Grows

LEMMA AddrsGrow ==
  ASSUME NEW w, NEW v, AddrsOK(w), SameBut(w, v)
  PROVE  Grows(w, v)
BY DEF SameBut, Grows

LEMMA UpdatedGrows ==
  ASSUME NEW w, NEW v, NEW txs, NEW h, w.count \in [Chains -> Nat], Updated(w, v, txs, h)
  PROVE  Grows(w, v) /\ DOMAIN v = DOMAIN w /\ v.list = w.list
BY DEF Updated, Grows

\* The blocks of a new branch free nothing of the wallet's.
LEMMA ConfirmGrows ==
  ASSUME NEW w, NEW at, NEW q, NEW n \in Nat, DOMAIN q = 1 .. n, Len(q) = n,
         DOMAIN w = DOMAIN EmptyWallet, w.count \in [Chains -> Nat], NEW v, v = ConfirmAll(at, w, q)
  PROVE  Grows(w, v)
<1> DEFINE J(u) == DOMAIN u = DOMAIN w /\ u.count = w.count /\ Grows(w, u)
<1>1. PICK f : StepsTo("height", at, q, w, f, v)
  BY ConfirmSteps, Zenon
<1>2. f[0] = w /\ f[n] = v /\ \A k \in 1 .. n : f[k] = StepOf("height", at, f[k - 1], q[k])
  BY <1>1 DEF StepsTo
<1>3. ASSUME NEW u, J(u), NEW h PROVE J(StepOf("height", at, u, h))
  <2> DEFINE txs == BlockTx[at[h]]
             r == UpdateTxs(u, txs, h, TRUE)
  <2>1. StepOf("height", at, u, h) = u \/ StepOf("height", at, u, h) = r
    BY Zenon DEF StepOf
  <2>2. Updated(u, r, txs, h)
    BY <1>3, UpdateTxsFacts
  <2> HIDE DEF r, txs
  <2>3. Grows(u, r)
    BY <1>3, <2>2, UpdatedGrows
  <2>4. J(r)
    BY <1>3, <2>2, <2>3, GrowsTwice DEF Updated
  <2> HIDE DEF J
  <2> QED
    BY <1>3, <2>1, <2>4
<1>4. J(w)
  BY GrowsFields
<1> DEFINE G == {k \in 0 .. n : J(f[k])}
<1> HIDE DEF J
<1>5. 0 \in G
  BY <1>2, <1>4
<1>6. \A k \in 1 .. n : k - 1 \in G => k \in G
  BY <1>2, <1>3
<1>7. n \in G
  <2> HIDE DEF G
  <2> QED
    BY <1>5, <1>6, StepsKeep
<1>8. J(v)
  BY <1>2, <1>7
<1> QED
  BY <1>8 DEF J

\* What is listed is known and the wallet's.
KnownInv == \A t \in ToSet(wallet.list) : t \in wallet.all /\ ContainsTx(wallet, t)

\* Contents are only given to transactions that have none.
LEMMA ContainsNext ==
  ASSUME NEW v, wallet' = v, \A x : body'[x] = body[x] \/ body[x] = NoBody, NEW t, ContainsTx(v, t)
  PROVE  ContainsTx(wallet, t)'
<1>1. NoBody.in = <<>> /\ NoBody.out = <<>> /\ DOMAIN <<>> = {}
  BY DEF NoBody
<1>2. CASE OutputAddrs(t) \cap AddrsUpTo(v.count) # {}
  <2>1. body[t] # NoBody
    BY <1>1, <1>2 DEF OutputAddrs, ToSet
  <2>2. OutputAddrs(t)' = OutputAddrs(t)
    BY <2>1 DEF OutputAddrs, ToSet
  <2>3. AddrsUpTo(wallet'.count) = AddrsUpTo(v.count)
    OBVIOUS
  <2>4. OutputAddrs(t)' \cap AddrsUpTo(wallet'.count) # {}
    BY <1>2, <2>2, <2>3
  <2> QED
    BY <2>4, Zenon DEF ContainsTx, AddrsUpTo
<1>3. ASSUME NEW o \in Inputs(t), PaysWallet(v, o) PROVE ContainsTx(wallet, t)'
  <2>1. body[t] # NoBody
    BY <1>1, <1>3 DEF Inputs, ToSet
  <2>2. o \in Inputs(t)'
    BY <1>3, <2>1 DEF Inputs, ToSet
  <2>3. o[1] \in v.all /\ o[2] \in DOMAIN body[o[1]].out /\ body[o[1]].out[o[2]].addr \in AddrsUpTo(v.count)
    BY <1>3 DEF PaysWallet, OutputOf
  <2>4. body'[o[1]] = body[o[1]]
    BY <1>1, <2>3
  <2>5. PaysWallet(wallet, o)'
    BY <2>3, <2>4 DEF PaysWallet, OutputOf, AddrsUpTo
  <2> QED
    BY <2>2, <2>5, Zenon DEF ContainsTx
<1> QED
  BY <1>2, <1>3, Zenon DEF ContainsTx

\* An operation that lists nothing new.
LEMMA KnownKept ==
  ASSUME KnownInv, wallet.count \in [Chains -> Nat], NEW v, wallet' = v, Grows(wallet, v),
         v.list = wallet.list, \A x : body'[x] = body[x] \/ body[x] = NoBody
  PROVE  KnownInv' /\ Grows(wallet, wallet')
<1> SUFFICES ASSUME NEW t \in ToSet(v.list) PROVE t \in v.all /\ ContainsTx(wallet, t)'
  BY DEF KnownInv, ToSet
<1>1. t \in wallet.all /\ ContainsTx(wallet, t)
  BY DEF KnownInv
<1>2. ContainsTx(v, t)
  BY <1>1, ContainsGrows
<1> QED
  BY <1>1, <1>2, ContainsNext DEF Grows

\* Neither does generating addresses after heights changed.
LEMMA KnownAfterHeights ==
  ASSUME KnownInv, NEW w, NEW phase, wallet' = LoadMempools(w, phase), body' = body,
         wallet.count \in [Chains -> Nat], DOMAIN w = DOMAIN EmptyWallet, AddrsOK(w),
         w.list = wallet.list, Grows(wallet, w)
  PROVE  KnownInv' /\ Grows(wallet, wallet')
<1> DEFINE v == LoadMempools(w, phase)
<1>1. SameBut(w, v)
  BY BothAddrsKeep
<1> HIDE DEF v
<1>2. Grows(w, v) /\ v.list = w.list
  BY <1>1, AddrsGrow DEF SameBut
<1>3. Grows(wallet, v)
  BY <1>2, GrowsTwice
<1> QED
  BY <1>2, <1>3, KnownKept DEF v

\* A transaction is listed when it is the wallet's.
LEMMA RegisterKnown ==
  ASSUME KnownInv, WalletInv, ListInv, NEW t \in Tx, wallet' = Register(wallet, t), body' = body
  PROVE  KnownInv' /\ Grows(wallet, wallet')
<1> DEFINE w == wallet
           known == [w EXCEPT !.all = @ \cup {t}]
           x == InsertTx(known, t)
           u == UpdateBalance(x)
           v == Register(w, t)
<1>1. /\ DOMAIN w = DOMAIN EmptyWallet /\ w.count \in [Chains -> Nat] /\ w.rate \in Nat
      /\ w.list \in Seq(Tx) /\ Once(w.list) /\ ToSet(w.list) \subseteq w.all /\ BodiesOK
  BY DEF WalletInv, RightWallet, AddrsOK, ListInv, KnownInv
<1>2. /\ DOMAIN known = DOMAIN w /\ known.list = w.list /\ known.all = w.all \cup {t}
      /\ known.count = w.count /\ known.rate = w.rate
  BY <1>1, WalletFields
<1>3. \/ v = w
      \/ v = known
      \/ v = NewAddrs(u) /\ t \notin w.all /\ ContainsTx(w, t)
  BY Zenon DEF Register
<1>4. CASE v = w
  BY <1>1, <1>4, KnownKept, GrowsFields
<1> HIDE DEF known
<1>5. CASE v = known
  <2>1. Grows(wallet, known)
    BY <1>1, <1>2, GrowsFields
  <2> QED
    BY <1>1, <1>2, <1>5, <2>1, KnownKept
<1>6. CASE v = NewAddrs(u) /\ t \notin w.all /\ ContainsTx(w, t)
  <2>1. /\ DOMAIN x = DOMAIN known /\ x.all = known.all
        /\ x.list \in Seq(Tx) /\ ToSet(x.list) = ToSet(known.list) \cup {t}
        /\ (Once(known.list) /\ t \notin ToSet(known.list)) => Once(x.list)
    BY <1>1, <1>2, InsertFacts
  <2>2. x.count = w.count /\ x.rate = w.rate
    <3>1. PICK q : x = [known EXCEPT !.list = q]
      BY Zenon DEF InsertTx
    <3> HIDE DEF x
    <3> QED
      BY <1>1, <1>2, <3>1, WalletFields
  <2> HIDE DEF x
  <2>3. IsWallet(x)
    BY <1>1, <1>2, <1>6, <2>1 DEF IsWallet
  <2>4. RightWallet(u)
    BY <1>1, <2>2, <2>3, UpdateIsRight
  <2>5. DOMAIN u = DOMAIN EmptyWallet /\ u.list = x.list /\ u.all = x.all /\ u.count = w.count
    BY <1>1, <1>2, <2>1, <2>2, UpdateFields
  <2> HIDE DEF u, v
  <2>6. SameBut(u, v)
    BY <1>6, <2>5, BothAddrsKeep
  <2>7. Grows(u, v) /\ v.list = x.list /\ v.all = w.all \cup {t}
    BY <1>2, <2>1, <2>4, <2>5, <2>6, AddrsGrow DEF SameBut, RightWallet
  <2>8. Grows(w, v)
    BY <1>1, <1>2, <2>1, <2>5, <2>7 DEF Grows
  <2> SUFFICES ASSUME NEW y \in ToSet(v.list) PROVE y \in v.all /\ ContainsTx(wallet, y)'
    BY <2>8 DEF KnownInv, ToSet, v
  <2>9. y \in v.all /\ ContainsTx(w, y)
    BY <1>1, <1>2, <1>6, <2>1, <2>7 DEF KnownInv
  <2>10. ContainsTx(v, y)
    BY <1>1, <2>8, <2>9, ContainsGrows
  <2> QED
    BY <2>9, <2>10, ContainsNext DEF v
<1> QED
  BY <1>3, <1>4, <1>5, <1>6

\* Blocks free nothing that is listed.
LEMMA BlocksKnown ==
  ASSUME KnownInv, WalletInv, ListInv, ChainTypes, NEW b \in Block,
         (\E phase : ExtendChain(b, phase)) \/ ExistingBlock(b)
  PROVE  KnownInv' /\ Grows(wallet, wallet')
<1> DEFINE txs == BlockTx[b]
           h == Height[b]
           u == UpdateTxs(wallet, txs, h, TRUE)
<1>1. /\ DOMAIN wallet = DOMAIN EmptyWallet /\ wallet.count \in [Chains -> Nat]
      /\ IsWallet(wallet) /\ BodiesOK /\ RightWallet(wallet)
  BY DEF WalletInv, RightWallet, AddrsOK, ListInv, IsWallet
<1>2. Updated(wallet, u, txs, h)
  BY <1>1, UpdateTxsFacts
<1>3. h # Unconfirmed
  BY BlocksBelow
<1>4. ASSUME NEW phase, ExtendChain(b, phase) PROVE KnownInv' /\ Grows(wallet, wallet')
  <2>1. PICK v \in {wallet, u} : wallet' = LoadMempools(v, phase)
    BY <1>4, Zenon DEF ExtendChain
  <2>2. body' = body
    BY <1>4, Zenon DEF ExtendChain
  <2> HIDE DEF u, txs, h
  <2>3. Grows(wallet, v) /\ DOMAIN v = DOMAIN wallet /\ v.list = wallet.list
    BY <1>1, <1>2, <2>1, UpdatedGrows, GrowsFields
  <2>4. AddrsOK(v)
    <3>1. ToSet(wallet.list) \subseteq v.all
      BY <2>3 DEF KnownInv, Grows
    <3>2. RightWallet(v)
      BY <1>1, <1>2, <1>3, <2>1, <3>1, UpdatedIsRight
    <3> QED
      BY <3>2 DEF RightWallet
  <2> QED
    BY <1>1, <2>1, <2>2, <2>3, <2>4, KnownAfterHeights
<1>5. CASE ExistingBlock(b)
  <2>1. PICK v \in {wallet, u} : wallet' = v
    BY <1>5, Zenon DEF ExistingBlock
  <2>2. body' = body
    BY <1>5, Zenon DEF ExistingBlock
  <2> HIDE DEF u, txs, h
  <2>3. Grows(wallet, v) /\ v.list = wallet.list
    BY <1>1, <1>2, <2>1, UpdatedGrows, GrowsFields
  <2> QED
    BY <1>1, <2>1, <2>2, <2>3, KnownKept
<1> QED
  BY <1>4, <1>5

LEMMA ReorganizeKnown ==
  ASSUME KnownInv, WalletInv, ListInv, ChainTypes, NEW b \in Block, NEW phase, Reorganize(b, phase)
  PROVE  KnownInv' /\ Grows(wallet, wallet')
<1> DEFINE join == JoinPoint(blocks', b)
           h == Height[join[1]]
           reset == SetTxUnconfirmedAfter(wallet, h)
           again == Reconfirm(reset, blocks', b, Height[join[2]])
           v == IF join[2] = NoBlock THEN reset ELSE again
<1>1. wallet' = LoadMempools(v, phase) /\ body' = body
  BY DEF Reorganize
<1>2. /\ DOMAIN wallet = DOMAIN EmptyWallet /\ wallet.count \in [Chains -> Nat]
      /\ IsWallet(wallet) /\ BodiesOK /\ RightWallet(wallet)
  BY DEF WalletInv, RightWallet, AddrsOK, ListInv, IsWallet
<1>3. join[2] \in Block \cup {NoBlock}
  <2>1. blocks' \in SUBSET Block /\ lastBlock \in Block
    BY KeptIsHeld DEF Reorganize, ChainTypes
  <2> QED
    BY <2>1, JoinIsBlock
<1> HIDE DEF join
<1>4. /\ RightWallet(reset) /\ IsWallet(reset) /\ DOMAIN reset = DOMAIN wallet
      /\ reset.list = wallet.list /\ reset.all = wallet.all /\ reset.count = wallet.count
  <2> HIDE DEF h
  <2> QED
    BY <1>2, ResetRight
<1> HIDE DEF reset
<1>5. Grows(wallet, reset)
  BY <1>2, <1>4, GrowsFields
<1>6. DOMAIN v = DOMAIN wallet /\ v.list = wallet.list /\ Grows(wallet, v) /\ AddrsOK(v)
  <2>1. CASE join[2] = NoBlock
    BY <1>4, <1>5, <2>1 DEF RightWallet
  <2>2. CASE join[2] # NoBlock
    <3> DEFINE top == Height[b]
               low == Height[join[2]]
               at == [x \in Nat |-> CHOOSE y \in {b} \cup Walk(blocks', b) : Height[y] = x]
               q == [k \in 1 .. top - low |-> top + 1 - k]
    <3>1. again = ConfirmAll(at, reset, q)
      BY Zenon DEF Reconfirm, ConfirmAll
    <3>2. top \in Nat /\ top < Unconfirmed /\ low \in Nat
      BY <1>3, <2>2, BlocksBelow
    <3>3. v = again
      BY <2>2
    <3> HIDE DEF top, low, at, v, again
    <3>4. PICK n \in Nat : /\ DOMAIN q = 1 .. n /\ Len(q) = n
                           /\ \A k \in 1 .. n : q[k] \in Nat /\ q[k] < Unconfirmed
      BY <3>2, BranchHeightsSeq
    <3> HIDE DEF q
    <3>5. DOMAIN q = 1 .. n /\ Len(q) = n /\ \A k \in 1 .. n : q[k] \in Nat /\ q[k] < Unconfirmed
      BY <3>4
    <3>6. Grows(reset, again)
      BY <1>2, <1>4, <3>1, <3>5, ConfirmGrows
    <3>7. Grows(wallet, again)
      BY <1>2, <1>5, <3>6, GrowsTwice
    <3>8. /\ DOMAIN again = DOMAIN reset /\ again.list = reset.list
          /\ ToSet(reset.list) \subseteq again.all => RightWallet(again)
      BY <1>2, <1>4, <3>1, <3>5, ConfirmFacts
    <3>9. ToSet(reset.list) \subseteq again.all
      BY <1>4, <3>7 DEF KnownInv, Grows
    <3> QED
      BY <1>4, <3>3, <3>7, <3>8, <3>9 DEF RightWallet
  <2> QED
    BY <2>1, <2>2
<1> HIDE DEF v
<1> QED
  BY <1>1, <1>2, <1>6, KnownAfterHeights

\* Every step but a removal or a restart.
LEMMA KnownNext ==
  ASSUME KnownInv, WalletInv, ListInv, ChainTypes, [Next]_vars, ~Restart, \A lost : ~DropUnrelayed(lost)
  PROVE  KnownInv' /\ Grows(wallet, wallet')
<1>0. DOMAIN wallet = DOMAIN EmptyWallet /\ wallet.count \in [Chains -> Nat] /\ AddrsOK(wallet)
  BY DEF WalletInv, RightWallet, AddrsOK
<1>1. ASSUME NEW t, RelayTx(t) \/ RequestTx(t), t \in Tx PROVE KnownInv' /\ Grows(wallet, wallet')
  <2>1. wallet' = Register(wallet, t) /\ body' = body
    BY <1>1 DEF RelayTx, RequestTx
  <2> QED
    BY <1>1, <2>1, RegisterKnown
<1>2. ASSUME NEW t \in Tx, NEW verified \in BOOLEAN, MarkVerified(t, verified) PROVE KnownInv' /\ Grows(wallet, wallet')
  <2> DEFINE v == UpdateTxs(wallet, {t}, Unconfirmed, verified)
  <2>1. wallet' = v /\ body' = body
    BY <1>2 DEF MarkVerified
  <2>2. Updated(wallet, v, {t}, Unconfirmed)
    BY <1>0, UpdateTxsFacts
  <2> HIDE DEF v
  <2>3. Grows(wallet, v) /\ v.list = wallet.list
    BY <1>0, <2>2, UpdatedGrows
  <2> QED
    BY <1>0, <2>1, <2>3, KnownKept
<1>3. ASSUME NEW t \in OwnTx, NEW amount, NEW swap, CreateTransaction(t, amount, swap) PROVE KnownInv' /\ Grows(wallet, wallet')
  <2> DEFINE u == UnusedAddrs(wallet, "internal", 1)
             c == CreatedBody(wallet, Settled(wallet, amount), swap)
  <2>1. PICK v \in {wallet, u} : wallet' = v
    BY <1>3 DEF CreateTransaction, Create
  <2>2. body' = [body EXCEPT ![t] = c] /\ body[t] = NoBody
    BY <1>3 DEF CreateTransaction, Create
  <2> HIDE DEF c
  <2>3. \A x : body'[x] = body[x] \/ body[x] = NoBody
    BY <2>2
  <2>4. SameBut(wallet, u)
    BY <1>0, AddrsKeep DEF Chains
  <2> HIDE DEF u
  <2>5. Grows(wallet, v) /\ v.list = wallet.list
    BY <1>0, <2>1, <2>4, AddrsGrow, GrowsFields DEF SameBut
  <2> QED
    BY <1>0, <2>1, <2>3, <2>5, KnownKept
<1>4. CASE LoadBloomFilter
  <2> DEFINE u == SpareAddrs(wallet)
  <2>1. wallet' = u /\ body' = body
    BY <1>4 DEF LoadBloomFilter
  <2>2. SameBut(wallet, u)
    BY <1>0, BothAddrsKeep
  <2> HIDE DEF u
  <2>3. Grows(wallet, u) /\ u.list = wallet.list
    BY <1>0, <2>2, AddrsGrow DEF SameBut
  <2> QED
    BY <1>0, <2>1, <2>3, KnownKept
<1>5. ASSUME NEW rate, SetFeePerKb(rate) PROVE KnownInv' /\ Grows(wallet, wallet')
  <2> DEFINE v == [wallet EXCEPT !.rate = rate]
  <2>1. wallet' = v /\ body' = body
    BY <1>5 DEF SetFeePerKb
  <2>2. v.list = wallet.list /\ v.all = wallet.all /\ v.count = wallet.count
    BY <1>0, WalletFields
  <2> HIDE DEF v
  <2>3. Grows(wallet, v)
    BY <1>0, <2>2, GrowsFields
  <2> QED
    BY <1>0, <2>1, <2>2, <2>3, KnownKept
<1>6. ASSUME NEW b \in Block, (\E phase : ExtendChain(b, phase)) \/ ExistingBlock(b) PROVE KnownInv' /\ Grows(wallet, wallet')
  BY <1>6, BlocksKnown
<1>7. ASSUME NEW b \in Block, NEW phase, Reorganize(b, phase) PROVE KnownInv' /\ Grows(wallet, wallet')
  BY <1>7, ReorganizeKnown
<1>8. CASE wallet' = wallet /\ body' = body
  BY <1>0, <1>8, KnownKept, GrowsFields
<1>9. ASSUME NEW b \in Block, OrphanBlock(b) \/ InvalidBlock(b) \/ BlockAhead(b) \/ ForkBlock(b)
      PROVE  wallet' = wallet /\ body' = body
  BY <1>9 DEF OrphanBlock, InvalidBlock, BlockAhead, ForkBlock, walletVars
<1>10. Rescan \/ UNCHANGED vars => wallet' = wallet /\ body' = body
  BY DEF Rescan, vars, walletVars
<1>11. NetTx \subseteq Tx /\ OwnTx \subseteq Tx
  BY DEF Tx
<1> QED
  BY <1>1, <1>2, <1>3, <1>4, <1>5, <1>6, <1>7, <1>8, <1>9, <1>10, <1>11, Zenon DEF Next

\* The app has not restarted yet, and no transaction was removed.
FirstSession == budget.restart = MaxRestarts /\ budget.drop = MaxDrops

BudgetLeft == budget.restart <= MaxRestarts /\ budget.drop <= MaxDrops

\* Restarts and removals are counted.
LEMMA SessionEnds ==
  ASSUME BudgetType, BudgetLeft, [Next]_vars
  PROVE  BudgetLeft' /\ (FirstSession' => FirstSession /\ ~Restart /\ \A lost : ~DropUnrelayed(lost))
<1>0. /\ budget.restart \in Nat /\ budget.drop \in Nat /\ MaxRestarts \in Nat /\ MaxDrops \in Nat
      /\ DOMAIN budget = {"rescan", "restart", "drop"}
  BY ChainAssumption DEF BudgetType
<1>1. Restart => budget'.restart = budget.restart - 1 /\ budget'.drop = budget.drop
  BY <1>0 DEF Restart
<1>2. \A lost : DropUnrelayed(lost) => budget'.drop = budget.drop - 1 /\ budget'.restart = budget.restart
  <2> SUFFICES ASSUME NEW lost, DropUnrelayed(lost)
               PROVE  budget'.drop = budget.drop - 1 /\ budget'.restart = budget.restart
    OBVIOUS
  <2>1. budget' = [budget EXCEPT !.drop = budget.drop - 1]
    BY Zenon DEF DropUnrelayed
  <2> QED
    BY <1>0, <2>1
<1>3. Rescan => budget'.restart = budget.restart /\ budget'.drop = budget.drop
  BY <1>0 DEF Rescan
<1>4. ASSUME NEW b \in Block,
             \/ \E phase \in Progress : ExtendChain(b, phase) \/ Reorganize(b, phase)
             \/ OrphanBlock(b) \/ InvalidBlock(b) \/ ExistingBlock(b)
             \/ BlockAhead(b) \/ ForkBlock(b)
      PROVE  UNCHANGED budget
  BY <1>4 DEF ExtendChain, Reorganize, OrphanBlock, InvalidBlock, ExistingBlock, BlockAhead,
              ForkBlock, history
<1>5. ASSUME \/ \E t \in NetTx : RelayTx(t)
             \/ \E t \in Tx, verified \in BOOLEAN : MarkVerified(t, verified)
             \/ \E t \in OwnTx, amount \in Amounts, swap \in BOOLEAN : CreateTransaction(t, amount, swap)
             \/ \E t \in OwnTx : RequestTx(t)
             \/ LoadBloomFilter
             \/ \E rate \in Fees : SetFeePerKb(rate)
             \/ UNCHANGED vars
      PROVE  UNCHANGED budget
  BY <1>5 DEF RelayTx, MarkVerified, CreateTransaction, Create, RequestTx, LoadBloomFilter,
              SetFeePerKb, vars, chainVars, history
<1>6. \/ Restart \/ (\E lost : DropUnrelayed(lost)) \/ Rescan \/ UNCHANGED budget
  BY <1>4, <1>5, Zenon DEF Next
<1>7. CASE Restart
  BY <1>0, <1>1, <1>7 DEF BudgetLeft, FirstSession
<1>8. CASE \E lost : DropUnrelayed(lost)
  BY <1>0, <1>2, <1>8 DEF BudgetLeft, FirstSession
<1>9. CASE (Rescan \/ UNCHANGED budget) /\ ~Restart /\ \A lost : ~DropUnrelayed(lost)
  BY <1>0, <1>3, <1>9 DEF BudgetLeft, FirstSession
<1> QED
  BY <1>6, <1>7, <1>8, <1>9

SessionInv ==
    /\ OrphanInv /\ BudgetLeft
    /\ FirstSession => ListInv /\ KnownInv /\ WalletInv

\* In the first session no listed transaction can be freed: every transaction is
\* listed because it was the wallet's, and addresses only become more.
LEMMA SessionInvariant == Spec => []SessionInv
<1> DEFINE R == ListInv /\ KnownInv /\ WalletInv
<1>1. Init /\ ChainInv => SessionInv
  <2> SUFFICES ASSUME Init, ChainInv PROVE SessionInv
    OBVIOUS
  <2>1. ListInv
    BY ListInit
  <2>2. OrphanInv
    BY DEF Init, OrphanInv
  <2>3. BudgetLeft
    BY ChainAssumption DEF Init, BudgetLeft
  <2>4. ToSet(wallet.list) = {}
    <3>1. rows = <<>> /\ ToSet(rows) = ToSet(wallet.list)
      BY <2>1 DEF Init, ListInv
    <3>2. ToSet(rows) = {}
      BY <3>1 DEF ToSet
    <3> QED
      BY <3>1, <3>2
  <2>5. KnownInv /\ ListedIsKnown
    BY <2>4, Zenon DEF KnownInv, ListedIsKnown
  <2>6. TypeOK
    BY <2>1, <2>2, <2>5, TypesFrom DEF ChainInv
  <2>7. WalletInv
    BY <2>6, WalletInit
  <2> QED
    BY <2>1, <2>2, <2>3, <2>5, <2>7 DEF SessionInv
<1>2. SessionInv /\ ChainInv /\ ChainInv' /\ BudgetType /\ [Next]_vars => SessionInv'
  <2> SUFFICES ASSUME SessionInv, ChainInv, ChainInv', BudgetType, [Next]_vars PROVE SessionInv'
    OBVIOUS
  <2>1. OrphanInv' /\ BudgetLeft'
    BY OrphanNext, SessionEnds DEF SessionInv
  <2>2. ASSUME FirstSession' PROVE R'
    <3>1. FirstSession /\ ~Restart /\ \A lost : ~DropUnrelayed(lost)
      BY <2>2, SessionEnds DEF SessionInv
    <3>2. ListInv /\ KnownInv /\ WalletInv /\ ChainTypes /\ ChainTypes' /\ OrphanInv
      BY <3>1 DEF ChainInv, SessionInv
    <3>3. ListedIsKnown
      BY <3>2 DEF KnownInv, ListedIsKnown
    <3>4. ListInv'
      BY <3>2, <3>3, ListNext
    <3>5. KnownInv'
      BY <3>1, <3>2, KnownNext
    <3>6. ListedIsKnown'
      BY <3>5 DEF KnownInv, ListedIsKnown
    <3>7. TypeOK
      BY <3>2, <3>3, TypesFrom
    <3>8. TypeOK'
      BY <2>1, <3>2, <3>4, <3>6, TypesFrom, PTL
    <3>9. WalletInv'
      BY <3>2, <3>7, <3>8, WalletNext
    <3> QED
      BY <3>4, <3>5, <3>9
  <2> QED
    BY <2>1, <2>2 DEF SessionInv
<1> QED
  BY <1>1, <1>2, ChainInvariant, PTL DEF Spec

\* In the first session the lists agree and the wallet is right without further ado.
THEOREM FirstSessionRight ==
  Spec => [](FirstSession => /\ TypeOK /\ BalanceIsUnspentSum
                             /\ UnconfirmedSpendOnce /\ MaxIsSendable)
<1>1. SessionInv /\ ChainInv => (FirstSession => TypeOK /\ BalanceIsUnspentSum /\ UnconfirmedSpendOnce /\ MaxIsSendable)
  <2> SUFFICES ASSUME SessionInv, ChainInv, FirstSession
               PROVE  TypeOK /\ BalanceIsUnspentSum /\ UnconfirmedSpendOnce /\ MaxIsSendable
    OBVIOUS
  <2>0. OrphanInv /\ ListInv /\ KnownInv /\ WalletInv
    BY DEF SessionInv
  <2>1. ListedIsKnown
    BY <2>0 DEF KnownInv, ListedIsKnown
  <2>2. TypeOK
    BY <2>0, <2>1, TypesFrom DEF ChainInv
  <2> QED
    BY <2>0, <2>2, WalletShows
<1> QED
  BY <1>1, SessionInvariant, ChainInvariant, PTL

-----------------------------------------------------------------------------
(* The heights of transactions, until the first rescan *)

\* The list has what is confirmed lower first.
InOrder ==
    \A i, j \in DOMAIN wallet.list :
        i < j => wallet.height[wallet.list[i]] <= wallet.height[wallet.list[j]]

\* Of the blocks s, t has the height of the one that holds it.
RightHeight(w, t, s) ==
    \/ w.height[t] = Unconfirmed /\ \A x \in s : t \notin BlockTx[x]
    \/ \E x \in s : t \in BlockTx[x] /\ w.height[t] = Height[x]

RightHeights(w, s) == \A t \in ToSet(w.list) : RightHeight(w, t, s)

\* Transactions are heard of before the blocks that hold them.
HeardInv ==
    /\ \A x \in blocks \cup {lastBlock} : \A y \in Branch[x] : BlockTx[y] \subseteq heard
    /\ \A x \in orphans \cup next : BlockTx[x] \subseteq heard

\* What the wallet created is its own, and known once a peer asked for it.
OwnInv ==
    \A t \in OwnTx :
        /\ body[t] # NoBody => ContainsTx(wallet, t)
        /\ t \in heard => t \in wallet.all /\ body[t] # NoBody

\* What is not known has no height.
UnknownIsBare(w) == \A t \in Tx \ w.all : w.height[t] = Unconfirmed

HeightInv == ~lostTrack => UnknownIsBare(wallet) /\ RightHeights(wallet, Branch[lastBlock])

\* An unspent output pays the wallet.
LEMMA UnspentPays ==
  ASSUME NEW w, RightWallet(w), ToSet(w.list) \subseteq w.all, NEW o \in ToSet(w.ledger.utxos)
  PROVE  PaysWallet(w, o)
<1> DEFINE outs == {p \in UNION {{<<t, n>> : n \in DOMAIN body[t].out} : t \in Counted(w)} :
                       OutputOf(p).addr \in AddrsUpTo(w.ledger.known)}
<1>1. o \in outs
  <2>1. BalanceRight(w)
    BY DEF RightWallet
  <2>2. PICK s : ToSet(w.ledger.utxos) = {p \in outs : \A t \in s : p \notin Inputs(t)}
    BY <2>1, Zenon DEF BalanceRight
  <2> HIDE DEF outs
  <2> QED
    BY <2>2
<1>2. OutputOf(o).addr \in AddrsUpTo(w.ledger.known)
  BY <1>1
<1>3. PICK t \in Counted(w) : \E n \in DOMAIN body[t].out : o = <<t, n>>
  BY <1>1
<1>4. o[1] \in w.all /\ o[2] \in DOMAIN body[o[1]].out
  BY <1>3 DEF Counted
<1>5. AddrsUpTo(w.ledger.known) \subseteq AddrsUpTo(w.count)
  <2> SUFFICES ASSUME NEW c \in Chains, NEW i \in 0 .. w.ledger.known[c] - 1
               PROVE  <<c, i>> \in AddrsUpTo(w.count)
    BY DEF AddrsUpTo
  <2>1. i \in 0 .. w.count[c] - 1
    BY DEF RightWallet, KnownBounded, AddrsOK
  <2> QED
    BY <2>1 DEF AddrsUpTo
<1> QED
  BY <1>2, <1>4, <1>5 DEF PaysWallet

\* So what the wallet creates is its own.
LEMMA CreatedIsOwn ==
  ASSUME WalletInv, KnownInv, NEW t \in OwnTx, NEW amount \in Amounts, NEW swap,
         CreateTransaction(t, amount, swap), Grows(wallet, wallet'), wallet'.list = wallet.list
  PROVE  ContainsTx(wallet, t)'
<1> DEFINE sent == Settled(wallet, amount)
           c == CreatedBody(wallet, sent, swap)
<1>0. /\ RightWallet(wallet) /\ BodiesOK /\ DOMAIN body = Tx /\ t \in Tx
      /\ ToSet(wallet.list) \subseteq wallet.all /\ amount \in Nat
  BY WalletAssumption DEF WalletInv, KnownInv, Tx
<1>1. amount >= MinOutputAmount(wallet) /\ CanCreate(wallet, sent) /\ body' = [body EXCEPT ![t] = c]
      /\ body[t] = NoBody
  BY DEF CreateTransaction, Create
<1>2. IsFunded(wallet) /\ Once(wallet.ledger.utxos)
  BY <1>0 DEF RightWallet, IsFunded, BalanceRight, Once
<1>3. PICK o \in ToSet(c.in) : o \in ToSet(wallet.ledger.utxos)
  <2>1. sent \in Nat /\ sent >= MinOutputAmount(wallet)
    BY <1>0, <1>1, <1>2, SettledFacts
  <2> HIDE DEF sent
  <2>2. sent \in Int
    BY <2>1
  <2> QED
    BY <1>0, <1>1, <1>2, <2>1, <2>2, CreatedSpends
<1>4. PaysWallet(wallet, o)
  BY <1>0, <1>3, UnspentPays
<1> HIDE DEF c
<1>5. body'[t] = c /\ \A x : x # t => body'[x] = body[x]
  BY <1>0, <1>1
<1>6. o \in Inputs(t)'
  BY <1>3, <1>5 DEF Inputs
<1>7. o[1] \in wallet.all /\ o[2] \in DOMAIN body[o[1]].out /\ OutputOf(o).addr \in AddrsUpTo(wallet.count)
  BY <1>4 DEF PaysWallet
<1>8. body[o[1]].out # <<>>
  BY <1>7
<1>9. body'[o[1]] = body[o[1]]
  BY <1>1, <1>5, <1>8 DEF NoBody
<1>10. o[1] \in wallet'.all
  <2>1. OutputOf(o).addr \in OutputAddrs(o[1])
    BY <1>7 DEF OutputAddrs, OutputOf, ToSet
  <2>2. ContainsTx(wallet, o[1])
    BY <1>7, <2>1, Zenon DEF ContainsTx
  <2> QED
    BY <1>7, <2>2 DEF Grows
<1>11. AddrsUpTo(wallet.count) \subseteq AddrsUpTo(wallet'.count)
  <2> SUFFICES ASSUME NEW d \in Chains, NEW i \in 0 .. wallet.count[d] - 1
               PROVE  <<d, i>> \in AddrsUpTo(wallet'.count)
    BY DEF AddrsUpTo
  <2>1. i \in 0 .. wallet'.count[d] - 1
    BY <1>0 DEF Grows, RightWallet, AddrsOK
  <2> QED
    BY <2>1 DEF AddrsUpTo
<1>12. PaysWallet(wallet, o)'
  BY <1>7, <1>9, <1>10, <1>11 DEF PaysWallet, OutputOf, AddrsUpTo
<1> QED
  BY <1>6, <1>12, Zenon DEF ContainsTx

\* What was its own stays its own.
LEMMA OwnKept ==
  ASSUME OwnInv, wallet.count \in [Chains -> Nat], Grows(wallet, wallet'),
         \A x : body'[x] = body[x] \/ body[x] = NoBody, NEW t \in OwnTx, body[t] # NoBody
  PROVE  ContainsTx(wallet, t)' /\ body'[t] # NoBody /\ (t \in wallet.all => t \in wallet'.all)
<1>1. ContainsTx(wallet, t)
  BY DEF OwnInv
<1>2. ContainsTx(wallet', t)
  BY <1>1, ContainsGrows
<1>3. ContainsTx(wallet, t)'
  BY <1>2, ContainsNext
<1> QED
  BY <1>1, <1>3 DEF Grows

LEMMA OwnNext ==
  ASSUME OwnInv, KnownInv, WalletInv, ListInv, ChainTypes, [Next]_vars, ~Restart,
         \A lost : ~DropUnrelayed(lost)
  PROVE  OwnInv'
<1>0. Grows(wallet, wallet') /\ wallet.count \in [Chains -> Nat] /\ DOMAIN body = Tx
  BY KnownNext DEF WalletInv, RightWallet, AddrsOK
<1>1. CASE body' = body /\ heard' \subseteq heard \cup NetTx
  <2> SUFFICES ASSUME NEW t \in OwnTx
               PROVE  /\ body'[t] # NoBody => ContainsTx(wallet, t)'
                      /\ t \in heard' => t \in wallet'.all /\ body'[t] # NoBody
    BY DEF OwnInv
  <2>1. t \in heard' => t \in heard
    BY <1>1, WalletAssumption
  <2> QED
    BY <1>0, <1>1, <2>1, OwnKept DEF OwnInv
<1>2. ASSUME NEW r \in OwnTx, RequestTx(r) PROVE OwnInv'
  <2>1. /\ body' = body /\ heard' = heard \cup {r} /\ body[r] # NoBody
        /\ r \notin wallet.all /\ wallet' = Register(wallet, r)
    BY <1>2 DEF RequestTx
  <2>2. r \in wallet'.all
    <3> DEFINE known == [wallet EXCEPT !.all = @ \cup {r}]
               x == InsertTx(known, r)
               u == UpdateBalance(x)
    <3>1. wallet' = known \/ wallet' = NewAddrs(u)
      BY <2>1, Zenon DEF Register
    <3>2. DOMAIN wallet = DOMAIN EmptyWallet /\ wallet.list \in Seq(Tx) /\ r \in Tx
      BY DEF WalletInv, RightWallet, ListInv, Tx
    <3>3. DOMAIN known = DOMAIN EmptyWallet /\ known.list = wallet.list /\ r \in known.all
      BY <3>2, WalletFields
    <3> HIDE DEF known
    <3>4. DOMAIN x = DOMAIN EmptyWallet /\ r \in x.all
      BY <3>2, <3>3, InsertFacts
    <3> HIDE DEF x
    <3>5. DOMAIN u = DOMAIN EmptyWallet /\ r \in u.all
      BY <3>4, UpdateFields
    <3> HIDE DEF u
    <3>6. r \in NewAddrs(u).all
      BY <3>5, BothAddrsKeep DEF SameBut
    <3> QED
      BY <3>1, <3>3, <3>6
  <2> SUFFICES ASSUME NEW t \in OwnTx
               PROVE  /\ body'[t] # NoBody => ContainsTx(wallet, t)'
                      /\ t \in heard' => t \in wallet'.all /\ body'[t] # NoBody
    BY DEF OwnInv
  <2> QED
    BY <1>0, <2>1, <2>2, OwnKept DEF OwnInv
<1>3. ASSUME NEW c \in OwnTx, NEW amount \in Amounts, NEW swap \in BOOLEAN,
             CreateTransaction(c, amount, swap)
      PROVE  OwnInv'
  <2>1. body[c] = NoBody /\ heard' = heard /\ \A x : x # c => body'[x] = body[x]
    BY <1>3 DEF CreateTransaction, Create, chainVars
  <2>2. wallet'.list = wallet.list
    <3> DEFINE u == UnusedAddrs(wallet, "internal", 1)
    <3>1. wallet' \in {wallet, u}
      BY <1>3 DEF CreateTransaction, Create
    <3>2. SameBut(wallet, u)
      BY AddrsKeep DEF Chains, WalletInv, RightWallet
    <3> HIDE DEF u
    <3> QED
      BY <3>1, <3>2 DEF SameBut
  <2>3. ContainsTx(wallet, c)'
    BY <1>0, <1>3, <2>2, CreatedIsOwn
  <2> SUFFICES ASSUME NEW t \in OwnTx
               PROVE  /\ body'[t] # NoBody => ContainsTx(wallet, t)'
                      /\ t \in heard' => t \in wallet'.all /\ body'[t] # NoBody
    BY DEF OwnInv
  <2>4. CASE t = c
    BY <2>1, <2>3, <2>4 DEF OwnInv
  <2>5. CASE t # c
    BY <1>0, <2>1, <2>5, OwnKept DEF OwnInv
  <2> QED
    BY <2>4, <2>5
<1>4. ASSUME NEW b \in Block,
             \/ \E phase \in Progress : ExtendChain(b, phase) \/ Reorganize(b, phase)
             \/ OrphanBlock(b) \/ InvalidBlock(b) \/ ExistingBlock(b)
             \/ BlockAhead(b) \/ ForkBlock(b)
      PROVE  body' = body /\ heard' = heard
  BY <1>4 DEF ExtendChain, Reorganize, OrphanBlock, InvalidBlock, ExistingBlock, BlockAhead,
              ForkBlock, walletVars
<1>5. ASSUME \/ \E t \in NetTx : RelayTx(t)
             \/ \E t \in Tx, verified \in BOOLEAN : MarkVerified(t, verified)
             \/ LoadBloomFilter
             \/ \E rate \in Fees : SetFeePerKb(rate)
             \/ Rescan
             \/ UNCHANGED vars
      PROVE  body' = body /\ heard' \subseteq heard \cup NetTx
  BY <1>5 DEF RelayTx, MarkVerified, LoadBloomFilter, SetFeePerKb, Rescan, vars, chainVars, walletVars
<1> QED
  BY <1>1, <1>2, <1>3, <1>4, <1>5, Zenon DEF Next

\* A block that is handed in, or that a peer relays, has been heard of.
LEMMA DeliveredHeard ==
  ASSUME HeardInv, NEW b \in Block, Delivered(b)
  PROVE  BlockTx[b] \subseteq heard
BY DEF HeardInv, Delivered

\* What every way of dealing with a block comes down to.
LEMMA HeardBlocks ==
  ASSUME HeardInv, ChainTypes, NEW b \in Block, Delivered(b), heard' = heard,
         blocks' \subseteq blocks \/ (Parent[b] \in blocks /\ blocks' \subseteq blocks \cup {b}),
         lastBlock' \in {lastBlock} \cup blocks',
         orphans' \cup next' \subseteq orphans \cup next \cup {b}
  PROVE  HeardInv'
<1>1. BlockTx[b] \subseteq heard
  BY DeliveredHeard
<1>2. ASSUME Parent[b] \in blocks PROVE \A y \in Branch[b] : BlockTx[y] \subseteq heard
  <2>1. b # Checkpoint
    BY <1>2, ChainAssumption DEF ChainTypes
  <2>2. Branch[b] = {b} \cup Branch[Parent[b]]
    BY <2>1, BranchBelow
  <2> QED
    BY <1>1, <1>2, <2>2 DEF HeardInv
<1>3. \A x \in blocks' \cup {lastBlock'} : \A y \in Branch[x] : BlockTx[y] \subseteq heard
  BY <1>2 DEF HeardInv
<1>4. \A x \in orphans' \cup next' : BlockTx[x] \subseteq heard
  BY <1>1 DEF HeardInv
<1> QED
  BY <1>3, <1>4 DEF HeardInv

LEMMA HeardNext ==
  ASSUME HeardInv, ChainTypes, [Next]_vars, ~Restart, ~Rescan
  PROVE  HeardInv'
<1>0. \A b \in Block : KeptBlocks(b) \subseteq blocks
  BY KeptIsHeld
<1>1. ASSUME NEW b \in Block, OrphanBlock(b) PROVE HeardInv'
  BY <1>1, HeardBlocks DEF OrphanBlock, AddOrphan
<1>2. ASSUME NEW b \in Block, InvalidBlock(b) PROVE HeardInv'
  BY <1>0, <1>2, HeardBlocks DEF InvalidBlock
<1>3. ASSUME NEW b \in Block, NEW phase, ExtendChain(b, phase) PROVE HeardInv'
  <2>1. /\ Delivered(b) /\ heard' = heard /\ Parent[b] = lastBlock
        /\ blocks' = KeptBlocks(b) \cup {b} /\ lastBlock' = b
        /\ orphans' \cup next' \subseteq orphans \cup next
    BY <1>3 DEF ExtendChain, TakeNextFrom, HeldOrphans
  <2>2. b # Checkpoint
    BY <2>1, ChainAssumption DEF ChainTypes
  <2>3. Branch[b] = {b} \cup Branch[Parent[b]]
    BY <2>2, BranchBelow
  <2>4. BlockTx[b] \subseteq heard
    BY <2>1, DeliveredHeard
  <2>5. \A x \in blocks' \cup {lastBlock'} : \A y \in Branch[x] : BlockTx[y] \subseteq heard
    BY <1>0, <2>1, <2>3, <2>4 DEF HeardInv
  <2> QED
    BY <2>1, <2>5 DEF HeardInv
<1>4. ASSUME NEW b \in Block, ExistingBlock(b) PROVE HeardInv'
  <2>1. orphans' \cup next' \subseteq orphans \cup next
    BY <1>4 DEF ExistingBlock, TakeNext, TakeNextFrom
  <2> QED
    BY <1>0, <1>4, <2>1, HeardBlocks DEF ExistingBlock
<1>5. ASSUME NEW b \in Block, BlockAhead(b) PROVE HeardInv'
  <2>1. orphans' \cup next' \subseteq orphans \cup next \cup {b}
    BY <1>5 DEF BlockAhead, TakeNextFrom, AddOrphan
  <2> QED
    BY <1>0, <1>5, <2>1, HeardBlocks DEF BlockAhead
<1>6. ASSUME NEW b \in Block, ForkBlock(b) PROVE HeardInv'
  <2>1. orphans' \cup next' \subseteq orphans \cup next
    BY <1>6 DEF ForkBlock, TakeNext, TakeNextFrom
  <2> QED
    BY <1>0, <1>6, <2>1, HeardBlocks DEF ForkBlock, OnFork
<1>7. ASSUME NEW b \in Block, NEW phase, Reorganize(b, phase) PROVE HeardInv'
  <2>1. orphans' \cup next' \subseteq orphans \cup next
    BY <1>7 DEF Reorganize, TakeNextFrom, HeldOrphans
  <2>2. heard' = heard /\ blocks' = KeptBlocks(b) \cup {b} /\ lastBlock' = b
        /\ Delivered(b) /\ Parent[b] \in blocks
    BY <1>7 DEF Reorganize, OnFork
  <2> QED
    BY <1>0, <2>1, <2>2, HeardBlocks
<1>8. CASE /\ blocks' = blocks /\ lastBlock' = lastBlock /\ heard \subseteq heard'
           /\ orphans' \subseteq orphans /\ next' = next
  BY <1>8 DEF HeardInv
<1>9. ASSUME \/ \E t \in NetTx : RelayTx(t)
             \/ \E t \in Tx, verified \in BOOLEAN : MarkVerified(t, verified)
             \/ \E lost \in SUBSET ToSet(wallet.list) : DropUnrelayed(lost)
             \/ \E t \in OwnTx, amount \in Amounts, swap \in BOOLEAN : CreateTransaction(t, amount, swap)
             \/ \E t \in OwnTx : RequestTx(t)
             \/ LoadBloomFilter
             \/ \E rate \in Fees : SetFeePerKb(rate)
             \/ UNCHANGED vars
      PROVE  /\ blocks' = blocks /\ lastBlock' = lastBlock /\ heard \subseteq heard'
             /\ orphans' \subseteq orphans /\ next' = next
  BY <1>9 DEF RelayTx, MarkVerified, DropUnrelayed, CreateTransaction, Create, RequestTx, LoadBloomFilter,
              SetFeePerKb, vars, chainVars
<1> QED
  BY <1>1, <1>2, <1>3, <1>4, <1>5, <1>6, <1>7, <1>8, <1>9, Zenon DEF Next

\* A block x gives the listed transactions it holds its height.
LEMMA BlockConfirms ==
  ASSUME NEW w, NEW v, NEW x \in Block, NEW s, RightHeights(w, s), v.list = w.list,
         \A t \in ToSet(w.list) : v.height[t] = IF t \in BlockTx[x] THEN Height[x] ELSE w.height[t]
  PROVE  RightHeights(v, s \cup {x})
<1> SUFFICES ASSUME NEW t \in ToSet(w.list) PROVE RightHeight(v, t, s \cup {x})
  BY DEF RightHeights
<1>1. RightHeight(w, t, s)
  BY DEF RightHeights
<1>2. CASE t \in BlockTx[x]
  BY <1>2 DEF RightHeight
<1>3. CASE t \notin BlockTx[x]
  BY <1>1, <1>3 DEF RightHeight
<1> QED
  BY <1>2, <1>3

\* BRWalletUpdateTransactions does that, as long as nothing that is listed is freed.
LEMMA UpdateConfirms ==
  ASSUME NEW w, NEW v, NEW x \in Block, NEW s, RightHeights(w, s),
         w.list \in Seq(Tx), ToSet(w.list) \subseteq v.all,
         (v = w /\ BlockTx[x] = {}) \/ Updated(w, v, BlockTx[x], Height[x])
  PROVE  RightHeights(v, s \cup {x})
<1>1. ToSet(w.list) \subseteq Tx
  BY DEF ToSet
<1>2. CASE v = w /\ BlockTx[x] = {}
  BY <1>2, BlockConfirms
<1>3. CASE Updated(w, v, BlockTx[x], Height[x])
  <2>1. v.list = w.list
    BY <1>3 DEF Updated
  <2>2. \A t \in Tx \cap v.all : v.height[t] = IF t \in BlockTx[x] THEN Height[x] ELSE w.height[t]
    BY <1>3 DEF Updated
  <2> QED
    BY <1>1, <2>1, <2>2, BlockConfirms
<1> QED
  BY <1>2, <1>3

\* What else the wallet does to its list and its heights.
LEMMA SameHeights ==
  ASSUME NEW w, NEW v, NEW s, RightHeights(w, s), v.list = w.list,
         \A t \in ToSet(w.list) : v.height[t] = w.height[t]
  PROVE  RightHeights(v, s)
BY DEF RightHeights, RightHeight

\* BRWalletSetTxUnconfirmedAfter, with the list in the order of heights: exactly what
\* is confirmed above h becomes unconfirmed.
LEMMA ResetHeights ==
  ASSUME InOrder, DOMAIN wallet = DOMAIN EmptyWallet, wallet.list \in Seq(Tx), NEW h \in Nat,
         \A t \in ToSet(wallet.list) : wallet.height[t] \in Nat
  PROVE  \A t \in Tx : SetTxUnconfirmedAfter(wallet, h).height[t] =
            IF t \in ToSet(wallet.list) /\ wallet.height[t] > h THEN Unconfirmed ELSE wallet.height[t]
<1> DEFINE q == wallet.list
           S == {0} \cup {k \in DOMAIN q : wallet.height[q[k]] <= h}
           from == Max(S)
           suffix == {q[k] : k \in from + 1 .. Len(q)}
           height == [t \in Tx |-> IF t \in suffix THEN Unconfirmed ELSE wallet.height[t]]
           new == [wallet EXCEPT !.tip = h, !.height = height]
           v == SetTxUnconfirmedAfter(wallet, h)
<1>1. v = IF suffix # {} THEN UpdateBalance(new) ELSE new
  BY Zenon DEF SetTxUnconfirmedAfter
<1>2. from \in S /\ \A k \in S : k <= from
  <2>1. S \in SUBSET (0 .. Len(q)) /\ S # {} /\ Len(q) \in Nat
    OBVIOUS
  <2> DEFINE m == Len(q)
  <2> HIDE DEF S, m
  <2>2. Max(S) \in S /\ \A k \in S : Max(S) >= k
    BY <2>1, LargestBelow DEF m
  <2> QED
    BY <2>1, <2>2 DEF m
<1>3. \A k \in DOMAIN q : k \in from + 1 .. Len(q) <=> wallet.height[q[k]] > h
  <2> SUFFICES ASSUME NEW k \in DOMAIN q PROVE k \in from + 1 .. Len(q) <=> wallet.height[q[k]] > h
    OBVIOUS
  <2> HIDE DEF from
  <2>1. k \in 1 .. Len(q) /\ wallet.height[q[k]] \in Nat /\ from \in 0 .. Len(q)
    BY <1>2 DEF ToSet
  <2>2. CASE k > from
    <3>1. k \notin S
      BY <1>2, <2>1, <2>2
    <3> QED
      BY <2>1, <2>2, <3>1
  <2>3. CASE k <= from
    <3>1. from \in DOMAIN q /\ wallet.height[q[from]] <= h /\ wallet.height[q[from]] \in Nat
      BY <1>2, <2>1, <2>3 DEF ToSet
    <3>2. wallet.height[q[k]] <= wallet.height[q[from]]
      BY <2>1, <2>3, <3>1 DEF InOrder
    <3> QED
      BY <2>1, <2>3, <3>1, <3>2
  <2> QED
    BY <2>1, <2>2, <2>3
<1>4. \A t \in Tx : t \in suffix <=> t \in ToSet(q) /\ wallet.height[t] > h
  <2> HIDE DEF from
  <2>1. \A t : t \in suffix <=> \E k \in DOMAIN q : k \in from + 1 .. Len(q) /\ t = q[k]
    <3>1. from \in Nat
      BY <1>2
    <3>2. \A k \in from + 1 .. Len(q) : k \in DOMAIN q
      BY <3>1
    <3> QED
      BY <3>2
  <2>2. \A t : t \in ToSet(q) <=> \E k \in DOMAIN q : t = q[k]
    BY DEF ToSet
  <2> QED
    BY <1>3, <2>1, <2>2
<1>5. v.height = height
  <2> HIDE DEF suffix, height, v
  <2>1. DOMAIN new = DOMAIN EmptyWallet /\ new.height = height
    BY WalletFields
  <2> HIDE DEF new
  <2> QED
    BY <1>1, <2>1, UpdateFields
<1> HIDE DEF v, suffix
<1> QED
  BY <1>4, <1>5 DEF v

\* BRWalletRegisterTransaction changes no height.
LEMMA RegisterHeights ==
  ASSUME NEW w, NEW t \in Tx, DOMAIN w = DOMAIN EmptyWallet, w.list \in Seq(Tx), t \notin w.all
  PROVE  LET v == Register(w, t)
         IN /\ v.height = w.height /\ v.all = w.all \cup {t}
            /\ ToSet(v.list) \subseteq ToSet(w.list) \cup {t}
<1> DEFINE known == [w EXCEPT !.all = @ \cup {t}]
           x == InsertTx(known, t)
           u == UpdateBalance(x)
           v == Register(w, t)
<1>1. v = known \/ v = NewAddrs(u)
  BY Zenon DEF Register
<1>2. /\ DOMAIN known = DOMAIN EmptyWallet /\ known.list = w.list /\ known.all = w.all \cup {t}
      /\ known.height = w.height
  BY WalletFields
<1> HIDE DEF v, known
<1>3. /\ DOMAIN x = DOMAIN EmptyWallet /\ x.all = known.all
      /\ ToSet(x.list) = ToSet(known.list) \cup {t}
  BY <1>2, InsertFacts
<1>4. x.height = known.height
  <2>1. PICK q : x = [known EXCEPT !.list = q]
    BY Zenon DEF InsertTx
  <2> HIDE DEF x
  <2> QED
    BY <1>2, <2>1, WalletFields
<1> HIDE DEF x
<1>5. DOMAIN u = DOMAIN EmptyWallet /\ u.list = x.list /\ u.all = x.all /\ u.height = x.height
  BY <1>3, UpdateFields
<1> HIDE DEF u
<1>6. SameBut(u, NewAddrs(u))
  BY <1>5, BothAddrsKeep
<1> QED
  BY <1>1, <1>2, <1>3, <1>4, <1>5, <1>6 DEF SameBut, v

\* The blocks s, and the first n that are met at the heights q.
WithBlocks(s, at, q, n) == s \cup {at[q[k]] : k \in 1 .. n}

\* The blocks of the new branch, newest first, give their transactions their heights.
LEMMA ConfirmHeights ==
  ASSUME NEW at, NEW q, NEW n \in Nat, DOMAIN q = 1 .. n, Len(q) = n,
         NEW w, DOMAIN w = DOMAIN EmptyWallet, w.list \in Seq(Tx), w.count \in [Chains -> Nat],
         \A t \in ToSet(w.list) : t \in w.all /\ ContainsTx(w, t),
         \A k \in 1 .. n : at[q[k]] \in Block /\ Height[at[q[k]]] = q[k],
         NEW s, RightHeights(w, s), UnknownIsBare(w), NEW v, v = ConfirmAll(at, w, q)
  PROVE  UnknownIsBare(v) /\ RightHeights(v, WithBlocks(s, at, q, n))
<1> DEFINE J(u) == /\ DOMAIN u = DOMAIN w /\ u.list = w.list /\ u.count = w.count
                   /\ Grows(w, u) /\ UnknownIsBare(u)
           R(k) == WithBlocks(s, at, q, k)
<1>1. PICK f : StepsTo("height", at, q, w, f, v)
  BY ConfirmSteps, Zenon
<1>2. f[0] = w /\ f[n] = v /\ \A k \in 1 .. n : f[k] = StepOf("height", at, f[k - 1], q[k])
  BY <1>1 DEF StepsTo
<1>3. ASSUME NEW u, J(u), NEW h, NEW r, RightHeights(u, r), at[h] \in Block, Height[at[h]] = h
      PROVE  LET y == StepOf("height", at, u, h) IN J(y) /\ RightHeights(y, r \cup {at[h]})
  <2> DEFINE x == at[h]
             y == UpdateTxs(u, BlockTx[x], Height[x], TRUE)
  <2>1. StepOf("height", at, u, h) = IF BlockTx[x] = {} THEN u ELSE y
    BY <1>3 DEF StepOf
  <2>2. Updated(u, y, BlockTx[x], Height[x])
    BY <1>3, UpdateTxsFacts
  <2> HIDE DEF y
  <2>3. Grows(u, y)
    BY <1>3, <2>2, UpdatedGrows
  <2>4. J(y)
    <3>1. UnknownIsBare(y)
      BY <1>3, <2>2 DEF Updated, UnknownIsBare
    <3> QED
      BY <1>3, <2>2, <2>3, <3>1, GrowsTwice DEF Updated
  <2>5. ToSet(u.list) \subseteq u.all /\ ToSet(u.list) \subseteq y.all
    BY <1>3, <2>4 DEF Grows
  <2>6. u.list \in Seq(Tx) /\ x \in Block
    BY <1>3
  <2> HIDE DEF x
  <2>7. RightHeights(y, r \cup {x})
    BY <1>3, <2>2, <2>5, <2>6, UpdateConfirms
  <2>8. BlockTx[x] = {} => RightHeights(u, r \cup {x})
    BY <1>3, <2>5, <2>6, UpdateConfirms
  <2> HIDE DEF J
  <2> QED
    BY <1>3, <2>1, <2>4, <2>7, <2>8 DEF x
<1>4. J(w) /\ RightHeights(w, R(0))
  <2>1. R(0) = s
    BY DEF WithBlocks
  <2> HIDE DEF R
  <2> QED
    BY <2>1, GrowsFields
<1> DEFINE G == {k \in 0 .. n : J(f[k]) /\ RightHeights(f[k], R(k))}
<1> HIDE DEF J
<1>5. 0 \in G
  <2> HIDE DEF R
  <2> QED
    BY <1>2, <1>4
<1>6. \A k \in 1 .. n : k - 1 \in G => k \in G
  <2> SUFFICES ASSUME NEW k \in 1 .. n, k - 1 \in G PROVE k \in G
    OBVIOUS
  <2>1. 1 .. k = (1 .. k - 1) \cup {k}
    OBVIOUS
  <2>2. R(k) = R(k - 1) \cup {at[q[k]]}
    BY <2>1 DEF WithBlocks
  <2> HIDE DEF R
  <2>3. J(f[k - 1]) /\ RightHeights(f[k - 1], R(k - 1)) /\ f[k] = StepOf("height", at, f[k - 1], q[k])
    BY <1>2
  <2> QED
    BY <1>3, <2>2, <2>3
<1>7. n \in G
  <2> HIDE DEF G
  <2> QED
    BY <1>5, <1>6, StepsKeep
<1> HIDE DEF R
<1>8. J(v) /\ RightHeights(v, R(n))
  BY <1>2, <1>7
<1> QED
  BY <1>8 DEF J, R

\* A branch has one block at each height.
LEMMA OneAtHeight ==
  ASSUME NEW b \in Block, NEW x \in Branch[b], NEW y \in Branch[b], Height[x] = Height[y]
  PROVE  x = y
<1>1. x \in Block /\ y \in Block /\ Height[x] \in Nat /\ Height[y] \in Nat
  BY BranchHeights, BlocksBelow
<1>2. x \in Branch[y]
  BY <1>1, BranchIsLine
<1> QED
  BY <1>1, <1>2, BranchHeights

\* The walk back from b has the blocks of its branch down to the join.
LEMMA WalkHasBranch ==
  ASSUME NEW held \in SUBSET Block, NEW b \in Block, NEW j \in Branch[b],
         \A w \in Branch[b] : Height[w] > Height[j] => Parent[w] \in held,
         NEW h \in Nat, h > Height[j], h <= Height[b]
  PROVE  LET y == CHOOSE y \in {b} \cup Walk(held, b) : Height[y] = h
         IN y \in Branch[b] /\ Height[y] = h
<1>0. /\ Branch[b] \subseteq Block /\ b \in Branch[b] /\ \A x \in Block : Height[x] \in Nat
      /\ Height[j] \in Nat /\ Height[b] \in Nat
  BY BranchHeights, BlocksBelow
<1>1. ASSUME NEW x \in Branch[b] \ {b}, Height[x] > Height[j] PROVE x \in held
  <2>1. Height[x] \in Nat /\ Height[x] < Height[b] /\ Height[x] + 1 \in 0 .. Height[b]
    BY <1>0, BranchHeights
  <2>2. PICK w \in Branch[b] : Height[w] = Height[x] + 1
    BY <2>1, BranchHeights
  <2>3. w \in Block \ {Checkpoint}
    BY <1>0, <2>1, <2>2, ChainAssumption
  <2>4. Parent[w] \in Branch[b] /\ Height[Parent[w]] = Height[x]
    <3>1. /\ Parent[w] \in Block /\ Height[w] = Height[Parent[w]] + 1
          /\ Branch[w] = {w} \cup Branch[Parent[w]] /\ Parent[w] \in Branch[Parent[w]]
      BY <2>3, BranchBelow, BranchHeights
    <3>2. Branch[w] \subseteq Branch[b]
      BY <2>2, BranchIsLine
    <3>3. Height[Parent[w]] \in Nat
      BY <1>0, <3>1
    <3> QED
      BY <2>1, <2>2, <3>1, <3>2, <3>3
  <2>5. Parent[w] = x
    BY <2>4, OneAtHeight
  <2>6. Height[w] > Height[j]
    BY <1>0, <1>1, <2>1, <2>2
  <2> QED
    BY <2>2, <2>5, <2>6
<1>2. PICK x \in Branch[b] : Height[x] = h
  BY <1>0, BranchHeights
<1>3. x \in {b} \cup Walk(held, b)
  <2> SUFFICES ASSUME x # b PROVE x \in Walk(held, b)
    OBVIOUS
  <2>1. x \in held
    BY <1>1, <1>2
  <2>2. ASSUME NEW y \in Branch[b] \ {b}, Height[y] > Height[x] PROVE y \in held
    <3>1. Height[y] > Height[j]
      BY <1>0, <1>2, <2>2
    <3> QED
      BY <1>1, <3>1
  <2> QED
    BY <2>1, <2>2 DEF Walk
<1>4. {b} \cup Walk(held, b) \subseteq Branch[b]
  BY <1>0 DEF Walk
<1> QED
  BY <1>2, <1>3, <1>4

\* A reorganisation that knows where the branches join leaves the heights of the
\* new branch.
LEMMA ReorganizeHeights ==
  ASSUME RightHeights(wallet, Branch[lastBlock]), UnknownIsBare(wallet), InOrder, MinedOnce,
         ListInv, KnownInv, WalletInv, ChainTypes, NEW b \in Block, NEW phase, Reorganize(b, phase), ~lostTrack'
  PROVE  UnknownIsBare(wallet') /\ RightHeights(wallet', Branch[b])
<1> DEFINE join == JoinPoint(blocks', b)
           j == join[1]
           h == Height[j]
           reset == SetTxUnconfirmedAfter(wallet, h)
           top == Height[b]
           at == [x \in Nat |-> CHOOSE y \in {b} \cup Walk(blocks', b) : Height[y] = x]
           q == [k \in 1 .. top - h |-> top + 1 - k]
           v == ConfirmAll(at, reset, q)
<1>1. join[1] # NoBlock /\ join[2] # NoBlock /\ blocks' \in SUBSET Block /\ lastBlock \in Block
  BY KeptIsHeld DEF Reorganize, ChainTypes
<1>2. /\ join[1] = join[2] /\ join[2] \in Branch[b] \cap Branch[lastBlock]
      /\ \A w \in Branch[b] : Height[w] > Height[join[2]] => Parent[w] \in blocks'
  <2> HIDE DEF join
  <2> QED
    BY <1>1, JoinMeets DEF join
<1>3. wallet' = LoadMempools(v, phase)
  BY <1>1, <1>2, Zenon DEF Reorganize, Reconfirm, ConfirmAll
<1> HIDE DEF join
<1>4. /\ j \in Block /\ j \in Branch[b] /\ j \in Branch[lastBlock]
      /\ h \in Nat /\ top \in Nat /\ h <= top /\ top < Unconfirmed
  <2>1. j \in Block /\ (j = b \/ Height[j] < Height[b])
    BY <1>2, BranchHeights
  <2> QED
    BY <1>2, <2>1, BlocksBelow
<1>5. /\ DOMAIN wallet = DOMAIN EmptyWallet /\ wallet.list \in Seq(Tx) /\ wallet.count \in [Chains -> Nat]
      /\ RightWallet(wallet) /\ IsWallet(wallet) /\ BodiesOK
      /\ \A t \in ToSet(wallet.list) : t \in wallet.all /\ ContainsTx(wallet, t) /\ t \in Tx
  BY DEF WalletInv, RightWallet, AddrsOK, ListInv, IsWallet, KnownInv, ToSet
<1>6. /\ DOMAIN reset = DOMAIN wallet /\ reset.list = wallet.list
      /\ reset.all = wallet.all /\ reset.count = wallet.count
  <2> HIDE DEF h
  <2> QED
    BY <1>5, ResetRight
<1>7. RightHeights(reset, Branch[j]) /\ UnknownIsBare(reset)
  <2>1. \A t \in ToSet(wallet.list) : wallet.height[t] \in Nat
    <3> SUFFICES ASSUME NEW t \in ToSet(wallet.list) PROVE wallet.height[t] \in Nat
      OBVIOUS
    <3>1. \A x \in Branch[lastBlock] : Height[x] \in Nat
      BY <1>1, BranchHeights, BlocksBelow
    <3> QED
      BY <3>1, BlocksBelow DEF RightHeights, RightHeight
  <2>2. \A t \in Tx : reset.height[t] =
           IF t \in ToSet(wallet.list) /\ wallet.height[t] > h THEN Unconfirmed ELSE wallet.height[t]
    <3> HIDE DEF h
    <3> QED
      BY <1>4, <1>5, <2>1, ResetHeights
  <2> HIDE DEF reset
  <2>8. UnknownIsBare(reset)
    BY <1>5, <1>6, <2>2 DEF UnknownIsBare
  <2> SUFFICES ASSUME NEW t \in ToSet(wallet.list) PROVE RightHeight(reset, t, Branch[j])
    BY <1>6, <2>8 DEF RightHeights
  <2>3. RightHeight(wallet, t, Branch[lastBlock])
    BY DEF RightHeights
  <2>4. Branch[j] \subseteq Branch[lastBlock]
    BY <1>1, <1>4, BranchIsLine
  <2>5. reset.height[t] = IF wallet.height[t] > h THEN Unconfirmed ELSE wallet.height[t]
    BY <1>5, <2>2
  <2>6. CASE wallet.height[t] = Unconfirmed /\ \A x \in Branch[lastBlock] : t \notin BlockTx[x]
    BY <2>4, <2>5, <2>6 DEF RightHeight
  <2>7. ASSUME NEW x \in Branch[lastBlock], t \in BlockTx[x], wallet.height[t] = Height[x]
        PROVE  RightHeight(reset, t, Branch[j])
    <3>1. x \in Block /\ Height[x] \in Nat
      BY <1>1, BranchHeights, BlocksBelow
    <3>2. CASE Height[x] <= h
      <4>1. x \in Branch[j]
        BY <1>1, <1>4, <3>2, BranchIsLine
      <4>2. reset.height[t] = Height[x]
        BY <1>4, <2>5, <2>7, <3>1, <3>2
      <4> QED
        BY <2>7, <4>1, <4>2 DEF RightHeight
    <3>3. CASE Height[x] > h
      <4>1. \A y \in Branch[j] : t \notin BlockTx[y]
        <5> SUFFICES ASSUME NEW y \in Branch[j], t \in BlockTx[y] PROVE FALSE
          OBVIOUS
        <5>1. y = x
          BY <1>1, <2>4, <2>7 DEF MinedOnce
        <5>2. y \in Block /\ (y = j \/ Height[y] < Height[j]) /\ Height[y] \in Nat
          BY <1>4, BranchHeights, BlocksBelow
        <5> QED
          BY <1>4, <3>1, <3>3, <5>1, <5>2
      <4>2. reset.height[t] = Unconfirmed
        BY <2>5, <2>7, <3>3
      <4> QED
        BY <4>1, <4>2 DEF RightHeight
    <3> QED
      BY <1>4, <3>1, <3>2, <3>3
  <2> QED
    BY <2>3, <2>6, <2>7 DEF RightHeight
<1>8. \A x \in Nat : x > h /\ x <= top => at[x] \in Branch[b] /\ Height[at[x]] = x
  <2> SUFFICES ASSUME NEW x \in Nat, x > h, x <= top PROVE at[x] \in Branch[b] /\ Height[at[x]] = x
    OBVIOUS
  <2>1. \A w \in Branch[b] : Height[w] > Height[j] => Parent[w] \in blocks'
    BY <1>2
  <2>2. LET y == CHOOSE y \in {b} \cup Walk(blocks', b) : Height[y] = x
        IN y \in Branch[b] /\ Height[y] = x
    BY <1>1, <1>4, <2>1, WalkHasBranch
  <2> QED
    BY <2>2
<1> DEFINE n == top - h
<1>9. n \in Nat /\ DOMAIN q = 1 .. n /\ Len(q) = n
  BY <1>4
<1>10. \A k \in 1 .. n : q[k] \in Nat /\ q[k] > h /\ q[k] <= top
  BY <1>4
<1>11. \A k \in 1 .. n : at[q[k]] \in Branch[b] /\ Height[at[q[k]]] = q[k]
  <2> HIDE DEF at, q, n
  <2> QED
    BY <1>8, <1>10
<1>12. Branch[b] \subseteq Block
  BY BranchHeights
<1>13. \A x \in Branch[b] : x \in Branch[j] \/ \E k \in 1 .. n : x = at[q[k]]
  <2> SUFFICES ASSUME NEW x \in Branch[b], x \notin Branch[j] PROVE \E k \in 1 .. n : x = at[q[k]]
    OBVIOUS
  <2>1. Height[x] \in Nat /\ Height[x] <= top
    <3>1. x \in Block /\ (x = b \/ Height[x] < Height[b])
      BY BranchHeights
    <3> QED
      BY <3>1, BlocksBelow
  <2>2. Height[x] > h
    BY <1>4, <2>1, BranchIsLine
  <2>3. top + 1 - Height[x] \in 1 .. n /\ q[top + 1 - Height[x]] = Height[x]
    BY <1>4, <2>1, <2>2
  <2> HIDE DEF at, q, n
  <2>4. at[Height[x]] \in Branch[b] /\ Height[at[Height[x]]] = Height[x]
    BY <1>8, <2>1, <2>2
  <2>5. x = at[Height[x]]
    BY <2>4, OneAtHeight
  <2> QED
    BY <2>3, <2>5
<1> HIDE DEF at, q, n, reset, top, h, v
<1> DEFINE s == WithBlocks(Branch[j], at, q, n)
<1>14. s = Branch[b]
  <2>1. Branch[j] \subseteq Branch[b]
    BY <1>4, BranchIsLine
  <2> HIDE DEF j
  <2> QED
    BY <1>11, <1>13, <2>1 DEF WithBlocks
<1>15. UnknownIsBare(v) /\ RightHeights(v, s)
  <2>1. /\ DOMAIN reset = DOMAIN EmptyWallet /\ reset.list \in Seq(Tx) /\ reset.count \in [Chains -> Nat]
        /\ ToSet(reset.list) = ToSet(wallet.list)
    BY <1>5, <1>6
  <2>2. \A t \in ToSet(reset.list) : t \in reset.all /\ ContainsTx(reset, t)
    <3>1. Grows(wallet, reset)
      BY <1>5, <1>6, GrowsFields
    <3> QED
      BY <1>5, <1>6, <2>1, <3>1, ContainsGrows
  <2>3. \A k \in 1 .. n : at[q[k]] \in Block /\ Height[at[q[k]]] = q[k]
    BY <1>11, <1>12
  <2> DEFINE r == Branch[j]
  <2>4. v = ConfirmAll(at, reset, q) /\ RightHeights(reset, r) /\ UnknownIsBare(reset)
    BY <1>7 DEF v
  <2>5. n \in Nat /\ DOMAIN q = 1 .. n /\ Len(q) = n
    BY <1>9
  <2> HIDE DEF r, s, j
  <2>6. UnknownIsBare(v) /\ RightHeights(v, WithBlocks(r, at, q, n))
    BY <2>1, <2>2, <2>3, <2>4, <2>5, ConfirmHeights
  <2> QED
    BY <2>6 DEF r, s
<1>16. DOMAIN v = DOMAIN EmptyWallet
  BY <1>5, <1>6, <1>9, ConfirmList DEF v
<1>17. SameBut(v, wallet')
  BY <1>3, <1>16, BothAddrsKeep
<1> QED
  BY <1>14, <1>15, <1>17, SameHeights DEF SameBut, UnknownIsBare

\* A transaction that was not heard of is in no block the chain has.
LEMMA RegisterKeepsHeights ==
  ASSUME HeightInv, HeardInv, ListInv, ~lostTrack, NEW t \in Tx, t \notin heard,
         wallet' = Register(wallet, t)
  PROVE  UnknownIsBare(wallet') /\ RightHeights(wallet', Branch[lastBlock])
<1> DEFINE v == Register(wallet, t)
<1>1. UnknownIsBare(wallet) /\ RightHeights(wallet, Branch[lastBlock])
  BY DEF HeightInv
<1>2. CASE t \in wallet.all
  BY <1>1, <1>2 DEF Register
<1>3. CASE t \notin wallet.all
  <2>1. DOMAIN wallet = DOMAIN EmptyWallet /\ wallet.list \in Seq(Tx)
    BY DEF ListInv
  <2>2. /\ v.height = wallet.height /\ v.all = wallet.all \cup {t}
        /\ ToSet(v.list) \subseteq ToSet(wallet.list) \cup {t}
    BY <1>3, <2>1, RegisterHeights
  <2> HIDE DEF v
  <2>3. wallet.height[t] = Unconfirmed
    BY <1>1, <1>3 DEF UnknownIsBare
  <2>4. \A x \in Branch[lastBlock] : t \notin BlockTx[x]
    BY DEF HeardInv
  <2>5. RightHeight(v, t, Branch[lastBlock])
    BY <2>2, <2>3, <2>4 DEF RightHeight
  <2>6. \A u \in ToSet(wallet.list) : RightHeight(v, u, Branch[lastBlock])
    BY <1>1, <2>2 DEF RightHeights, RightHeight
  <2>7. UnknownIsBare(v) /\ RightHeights(v, Branch[lastBlock])
    BY <1>1, <2>2, <2>5, <2>6 DEF UnknownIsBare, RightHeights
  <2> QED
    BY <2>7 DEF v
<1> QED
  BY <1>2, <1>3

\* A block of the main chain, or one that follows it.
LEMMA BlockKeepsHeights ==
  ASSUME HeightInv, KnownInv, WalletInv, ListInv, ChainTypes, ~lostTrack, NEW b \in Block,
         (\E phase : ExtendChain(b, phase)) \/ ExistingBlock(b)
  PROVE  UnknownIsBare(wallet') /\ RightHeights(wallet', Branch[lastBlock'])
<1> DEFINE u == UpdateTxs(wallet, BlockTx[b], Height[b], TRUE)
<1>1. /\ UnknownIsBare(wallet) /\ RightHeights(wallet, Branch[lastBlock])
      /\ DOMAIN wallet = DOMAIN EmptyWallet /\ wallet.list \in Seq(Tx)
      /\ \A t \in ToSet(wallet.list) : t \in wallet.all /\ ContainsTx(wallet, t)
  BY DEF HeightInv, ListInv, KnownInv
<1>2. Updated(wallet, u, BlockTx[b], Height[b])
  BY <1>1, UpdateTxsFacts
<1> HIDE DEF u
<1>3. \A v : v = u \/ (v = wallet /\ BlockTx[b] = {}) =>
             DOMAIN v = DOMAIN EmptyWallet /\ UnknownIsBare(v) /\ RightHeights(v, Branch[lastBlock] \cup {b})
  <2> SUFFICES ASSUME NEW v, v = u \/ (v = wallet /\ BlockTx[b] = {})
               PROVE  /\ DOMAIN v = DOMAIN EmptyWallet /\ UnknownIsBare(v)
                      /\ RightHeights(v, Branch[lastBlock] \cup {b})
    OBVIOUS
  <2>1. (v = wallet /\ BlockTx[b] = {}) \/ Updated(wallet, v, BlockTx[b], Height[b])
    BY <1>2
  <2>2. ToSet(wallet.list) \subseteq v.all
    BY <1>1, <2>1 DEF Updated
  <2>3. RightHeights(v, Branch[lastBlock] \cup {b})
    BY <1>1, <2>1, <2>2, UpdateConfirms
  <2>4. UnknownIsBare(v)
    BY <1>1, <2>1 DEF Updated, UnknownIsBare
  <2>5. DOMAIN v = DOMAIN EmptyWallet
    BY <1>1, <2>1 DEF Updated
  <2> QED
    BY <2>3, <2>4, <2>5
<1>4. ASSUME NEW phase, ExtendChain(b, phase)
      PROVE  UnknownIsBare(wallet') /\ RightHeights(wallet', Branch[lastBlock'])
  <2>1. PICK v : /\ v = u \/ (v = wallet /\ BlockTx[b] = {})
                 /\ wallet' = LoadMempools(v, phase)
    <3> DEFINE v == IF BlockTx[b] # {} THEN UpdateTxs(wallet, BlockTx[b], Height[b], TRUE) ELSE wallet
    <3>1. wallet' = LoadMempools(v, phase)
      BY <1>4, Zenon DEF ExtendChain
    <3>2. v = u \/ (v = wallet /\ BlockTx[b] = {})
      BY DEF u
    <3> HIDE DEF v
    <3> QED
      BY <3>1, <3>2
  <2>2. lastBlock' = b /\ Parent[b] = lastBlock
    BY <1>4 DEF ExtendChain
  <2>3. b # Checkpoint
    BY <2>2, ChainAssumption DEF ChainTypes
  <2>4. Branch[lastBlock'] = Branch[lastBlock] \cup {b}
    BY <2>2, <2>3, BranchBelow
  <2>5. DOMAIN v = DOMAIN EmptyWallet /\ UnknownIsBare(v) /\ RightHeights(v, Branch[lastBlock'])
    BY <1>3, <2>1, <2>4
  <2>6. SameBut(v, wallet')
    BY <2>1, <2>5, BothAddrsKeep
  <2> QED
    BY <2>5, <2>6, SameHeights DEF SameBut, UnknownIsBare
<1>5. CASE ExistingBlock(b)
  <2>1. lastBlock' = lastBlock
    BY <1>5 DEF ExistingBlock
  <2>2. wallet' = wallet \/ (wallet' = u /\ b \in {lastBlock} \cup Walk(blocks', lastBlock))
    BY <1>5 DEF ExistingBlock, u
  <2>3. CASE wallet' = wallet
    BY <1>1, <2>1, <2>3
  <2>4. CASE wallet' = u /\ b \in {lastBlock} \cup Walk(blocks', lastBlock)
    <3>1. b \in Branch[lastBlock]
      BY <2>4, BranchHeights DEF Walk, ChainTypes
    <3>2. Branch[lastBlock] \cup {b} = Branch[lastBlock]
      BY <3>1
    <3> QED
      BY <1>3, <2>1, <2>4, <3>2
  <2> QED
    BY <2>2, <2>3, <2>4
<1> QED
  BY <1>4, <1>5

\* Marking an unconfirmed transaction as verified changes no height.
LEMMA VerifiedKeepsHeights ==
  ASSUME HeightInv, KnownInv, ListInv, ~lostTrack, NEW t, NEW verified, MarkVerified(t, verified)
  PROVE  UnknownIsBare(wallet') /\ RightHeights(wallet', Branch[lastBlock])
<1> DEFINE v == UpdateTxs(wallet, {t}, Unconfirmed, verified)
<1>1. /\ UnknownIsBare(wallet) /\ RightHeights(wallet, Branch[lastBlock])
      /\ DOMAIN wallet = DOMAIN EmptyWallet /\ ToSet(wallet.list) \subseteq Tx
      /\ \A x \in ToSet(wallet.list) : x \in wallet.all /\ ContainsTx(wallet, x)
  BY DEF HeightInv, ListInv, KnownInv, ToSet
<1>2. wallet' = v /\ wallet.height[t] = Unconfirmed
  BY DEF MarkVerified
<1>3. Updated(wallet, v, {t}, Unconfirmed)
  BY <1>1, UpdateTxsFacts
<1> HIDE DEF v
<1>4. \A x \in ToSet(wallet.list) : v.height[x] = wallet.height[x]
  BY <1>1, <1>2, <1>3 DEF Updated
<1>5. v.list = wallet.list
  BY <1>3 DEF Updated
<1>6. RightHeights(v, Branch[lastBlock])
  BY <1>1, <1>4, <1>5, SameHeights
<1>7. UnknownIsBare(v)
  BY <1>1, <1>3 DEF Updated, UnknownIsBare
<1> QED
  BY <1>2, <1>6, <1>7

\* Every step but a removal, a rescan or a restart.
LEMMA HeightNext ==
  ASSUME HeightInv, HeardInv, OwnInv, InOrder, MinedOnce, KnownInv, WalletInv, ListInv, ChainTypes,
         [Next]_vars, ~Restart, ~Rescan, \A lost : ~DropUnrelayed(lost)
  PROVE  HeightInv'
<1> DEFINE P == UnknownIsBare(wallet') /\ RightHeights(wallet', Branch[lastBlock'])
<1> SUFFICES ASSUME ~lostTrack' PROVE P
  BY DEF HeightInv
<1>0. /\ DOMAIN wallet = DOMAIN EmptyWallet /\ AddrsOK(wallet)
      /\ NetTx \subseteq Tx /\ OwnTx \subseteq Tx /\ OwnTx \cap NetTx = {}
  BY WalletAssumption DEF WalletInv, RightWallet, Tx
<1>1. CASE /\ lostTrack' = lostTrack /\ lastBlock' = lastBlock /\ wallet'.list = wallet.list
           /\ wallet'.all = wallet.all /\ wallet'.height = wallet.height
  <2>1. UnknownIsBare(wallet) /\ RightHeights(wallet, Branch[lastBlock])
    BY <1>1 DEF HeightInv
  <2> QED
    BY <1>1, <2>1, SameHeights DEF UnknownIsBare
<1>2. ASSUME NEW t \in Tx, RelayTx(t) \/ (RequestTx(t) /\ t \in OwnTx) PROVE P
  <2>1. /\ lastBlock' = lastBlock /\ lostTrack' = lostTrack /\ wallet' = Register(wallet, t)
        /\ t \notin heard
    BY <1>2 DEF RelayTx, RequestTx, OwnInv, history
  <2> QED
    BY <2>1, RegisterKeepsHeights
<1>3. ASSUME NEW t, NEW verified, MarkVerified(t, verified) PROVE P
  <2>1. lastBlock' = lastBlock /\ lostTrack' = lostTrack
    BY <1>3 DEF MarkVerified, chainVars, history
  <2> QED
    BY <1>3, <2>1, VerifiedKeepsHeights
<1>4. ASSUME NEW t, NEW amount, NEW swap, CreateTransaction(t, amount, swap) PROVE P
  <2> DEFINE u == UnusedAddrs(wallet, "internal", 1)
  <2>1. wallet' \in {wallet, u} /\ lastBlock' = lastBlock /\ lostTrack' = lostTrack
    BY <1>4 DEF CreateTransaction, Create, chainVars, history
  <2>2. SameBut(wallet, u)
    BY <1>0, AddrsKeep DEF Chains
  <2> HIDE DEF u
  <2> QED
    BY <1>1, <2>1, <2>2 DEF SameBut
<1>5. CASE LoadBloomFilter
  <2>1. SameBut(wallet, SpareAddrs(wallet))
    BY <1>0, BothAddrsKeep
  <2>2. wallet' = SpareAddrs(wallet) /\ lastBlock' = lastBlock /\ lostTrack' = lostTrack
    BY <1>5 DEF LoadBloomFilter, history
  <2> QED
    BY <1>1, <2>1, <2>2 DEF SameBut
<1>6. ASSUME NEW rate, SetFeePerKb(rate) PROVE P
  <2>1. wallet' = [wallet EXCEPT !.rate = rate] /\ lastBlock' = lastBlock /\ lostTrack' = lostTrack
    BY <1>6 DEF SetFeePerKb, chainVars, history
  <2>2. wallet'.list = wallet.list /\ wallet'.all = wallet.all /\ wallet'.height = wallet.height
    BY <1>0, <2>1, WalletFields
  <2> QED
    BY <1>1, <2>1, <2>2
<1>7. ASSUME NEW b \in Block, (\E phase : ExtendChain(b, phase)) \/ ExistingBlock(b) PROVE P
  <2>1. lostTrack' = lostTrack
    BY <1>7 DEF ExtendChain, ExistingBlock, history
  <2> QED
    BY <1>7, <2>1, BlockKeepsHeights
<1>8. ASSUME NEW b \in Block, NEW phase, Reorganize(b, phase) PROVE P
  <2>1. ~lostTrack /\ lastBlock' = b
    BY <1>8 DEF Reorganize
  <2>2. UnknownIsBare(wallet) /\ RightHeights(wallet, Branch[lastBlock])
    BY <2>1 DEF HeightInv
  <2> QED
    BY <1>8, <2>1, <2>2, ReorganizeHeights
<1>9. ASSUME \/ UNCHANGED vars
             \/ \E b \in Block : OrphanBlock(b) \/ InvalidBlock(b) \/ BlockAhead(b) \/ ForkBlock(b)
      PROVE  P
  <2>1. wallet' = wallet /\ lastBlock' = lastBlock /\ lostTrack' = lostTrack
    BY <1>9 DEF OrphanBlock, InvalidBlock, BlockAhead, ForkBlock, walletVars, vars, chainVars, history
  <2> QED
    BY <1>1, <2>1
<1> HIDE DEF P
<1> QED
  BY <1>0, <1>2, <1>3, <1>4, <1>5, <1>6, <1>7, <1>8, <1>9, Zenon DEF Next

\* The app has not rescanned either: blocks and transactions only come in.
Undisturbed == FirstSession /\ budget.rescan = MaxRescans

DownloadInv ==
    /\ RescansLeft
    /\ Undisturbed => HeardInv /\ OwnInv /\ HeightInv

\* The wallet of an app that has just been installed.
LEMMA DownloadInit ==
  ASSUME Init, MinedOnce, ListInv
  PROVE  DownloadInv
<1> DEFINE none == <<>>
           height == [t \in Tx |-> Unconfirmed]
           stamped == [t \in Tx |-> FALSE]
           start == [EmptyWallet EXCEPT !.height = height, !.stamped = stamped]
           loaded == LoadAll(start, none)
           y == [loaded EXCEPT !.ledger.used = UNION {OutputAddrs(t) : t \in ToSet(none)}]
           x == NewAddrs(y)
           v == WalletNew(none, height, stamped)
<1>1. /\ rows = none /\ wallet = v /\ blocks = {Checkpoint} /\ lastBlock = Checkpoint
      /\ orphans = {} /\ next = {} /\ heard = {} /\ budget.rescan = MaxRescans
      /\ body = [t \in Tx |-> IF t \in NetTx THEN NetBody[t] ELSE NoBody]
  BY DEF Init
<1>2. v = UpdateBalance(x)
  BY Zenon DEF WalletNew, LoadAll
<1>3. DOMAIN start = DOMAIN EmptyWallet /\ start.height = height
  BY WalletFields
<1>4. Len(none) = 0 /\ DOMAIN none = 1 .. 0 /\ 0 \in Nat
  OBVIOUS
<1> HIDE DEF start, none
<1>5. loaded = start
  <2>1. PICK f : StepsTo("load", {}, none, start, f, loaded)
    BY <1>4, LoadSteps, Zenon
  <2> QED
    BY <1>4, <2>1 DEF StepsTo
<1> HIDE DEF loaded
<1>6. DOMAIN y = DOMAIN EmptyWallet /\ y.height = height
  BY <1>3, <1>5, WalletFields
<1> HIDE DEF y
<1>7. SameBut(y, x)
  BY <1>6, BothAddrsKeep
<1>8. DOMAIN x = DOMAIN EmptyWallet /\ x.height = height
  BY <1>6, <1>7 DEF SameBut
<1> HIDE DEF x, v
<1>9. wallet.height = height
  BY <1>1, <1>2, <1>8, UpdateFields
<1>10. ToSet(wallet.list) = {}
  <2>1. ToSet(rows) = ToSet(wallet.list)
    BY DEF ListInv
  <2>2. DOMAIN rows = {} /\ ToSet(rows) = {rows[i] : i \in DOMAIN rows}
    BY <1>1, <1>4 DEF ToSet
  <2> QED
    BY <2>1, <2>2
<1>11. HeightInv
  BY <1>9, <1>10 DEF HeightInv, UnknownIsBare, RightHeights
<1>12. HeardInv
  BY <1>1, BranchBelow DEF HeardInv, MinedOnce
<1>13. OwnInv
  BY <1>1, WalletAssumption DEF OwnInv, Tx
<1> QED
  BY <1>1, <1>11, <1>12, <1>13, ChainAssumption DEF DownloadInv, RescansLeft

LEMMA DownloadNext ==
  ASSUME DownloadInv, SessionInv, ChainInv, BudgetType, Undisturbed => InOrder, MinedOnce, [Next]_vars
  PROVE  DownloadInv'
<1>0. ChainTypes /\ budget.rescan \in Nat /\ MaxRescans \in Nat
  BY ChainAssumption DEF ChainInv, BudgetType
<1>1. /\ Rescan => budget'.rescan = budget.rescan - 1
      /\ ~Rescan => budget'.rescan = budget.rescan
  <2>1. CASE Next
    BY <2>1, RescansCount
  <2>2. CASE UNCHANGED vars
    <3>1. budget' = budget
      BY <2>2 DEF vars, chainVars, history
    <3>2. ~Rescan
      BY <1>0, <3>1 DEF Rescan, BudgetType
    <3> QED
      BY <3>1, <3>2
  <2> QED
    BY <2>1, <2>2
<1>2. RescansLeft'
  BY <1>0, <1>1 DEF DownloadInv, RescansLeft
<1>3. ASSUME Undisturbed' PROVE HeardInv' /\ OwnInv' /\ HeightInv'
  <2>1. /\ FirstSession /\ ~Restart /\ \A lost : ~DropUnrelayed(lost)
    BY <1>3, SessionEnds DEF Undisturbed, SessionInv
  <2>2. ~Rescan /\ budget.rescan = MaxRescans
    BY <1>0, <1>1, <1>3 DEF Undisturbed, DownloadInv, RescansLeft
  <2>3. HeardInv /\ OwnInv /\ HeightInv /\ InOrder /\ ListInv /\ KnownInv /\ WalletInv
    BY <2>1, <2>2 DEF DownloadInv, SessionInv, Undisturbed
  <2>4. HeardInv'
    BY <1>0, <2>1, <2>2, <2>3, HeardNext
  <2>5. OwnInv'
    BY <1>0, <2>1, <2>3, OwnNext
  <2>6. HeightInv'
    BY <1>0, <2>1, <2>2, <2>3, HeightNext
  <2> QED
    BY <2>4, <2>5, <2>6
<1> QED
  BY <1>2, <1>3 DEF DownloadInv

\* From installation until the first rescan, restart or removal, on every tree of blocks
\* and in every order of delivery, a listed transaction has the height of the block of
\* the main chain that holds it, and none when no block of the chain does: as long as the
\* list is in the order of heights, which is what BRWalletSetTxUnconfirmedAfter takes for
\* granted when it looks for what a reorganisation unconfirms from the end of the list.
THEOREM HeightsFollow ==
  ASSUME MinedOnce
  PROVE  Spec /\ [](Undisturbed => InOrder) => [](Undisturbed => HeightsMatchChain)
<1>1. Init => DownloadInv
  BY DownloadInit, ListInit
<1>2. DownloadInv /\ SessionInv /\ ChainInv /\ BudgetType /\ (Undisturbed => InOrder) /\ [Next]_vars => DownloadInv'
  BY DownloadNext
<1>3. DownloadInv /\ ChainInv => (Undisturbed => HeightsMatchChain)
  <2> SUFFICES ASSUME DownloadInv, ChainInv, Undisturbed, ~lostTrack, NEW t \in ToSet(wallet.list)
               PROVE  LET at == {b \in Branch[lastBlock] : t \in BlockTx[b]}
                      IN IF at = {} THEN wallet.height[t] = Unconfirmed
                         ELSE \A b \in at : wallet.height[t] = Height[b]
    BY DEF HeightsMatchChain
  <2>1. RightHeight(wallet, t, Branch[lastBlock])
    BY DEF DownloadInv, HeightInv, RightHeights
  <2>2. lastBlock \in Block
    BY DEF ChainInv, ChainTypes
  <2>3. \A x, y \in Branch[lastBlock] : t \in BlockTx[x] /\ t \in BlockTx[y] => x = y
    BY <2>2 DEF MinedOnce
  <2> QED
    BY <2>1, <2>3 DEF RightHeight
<1> QED
  BY <1>1, <1>2, <1>3, SessionInvariant, ChainInvariant, PTL DEF Spec
=============================================================================
