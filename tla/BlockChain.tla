----------------------------- MODULE BlockChain -----------------------------
(***************************************************************************)
(* The block chain the peer manager keeps (the block part of               *)
(* BRPeerManager.c) together with the wallet it drives: blocks arrive in   *)
(* any order and on any fork, transactions arrive before, with or without  *)
(* their block, the app rescans and restarts.                              *)
(*                                                                         *)
(* A callback of a peer thread runs under the manager's lock and is one    *)
(* step; _peerRelayedBlock releases the lock before it turns to the        *)
(* orphan that follows the block, so that orphan waits in `next`.  The     *)
(* tree of blocks that exist is a constant; `blocks` are the ones the      *)
(* manager holds.  Objects are values here: their lifetime in memory is    *)
(* not modelled.                                                           *)
(***************************************************************************)
EXTENDS Wallet

CONSTANTS
    Block,          \* all blocks on all forks
    Checkpoint,     \* the checkpoint the download starts from, at height 0
    NoBlock,
    Parent,         \* [Block -> Block \cup {NoBlock}]
    Height,         \* [Block -> Nat]
    BlockTx,        \* [Block -> SUBSET Tx]: what the filter matches in a block
    Invalid,        \* blocks whose difficulty or checkpoint is wrong
    Interval,       \* BLOCK_DIFFICULTY_INTERVAL
    Reported,       \* heights some peer may report as its last block
    Spare,          \* addresses the bloom filter has beyond the gap limit: 100
    MaxRescans, MaxRestarts, MaxDrops   \* bounds

VARIABLES
    blocks,         \* manager->blocks
    lastBlock,      \* manager->lastBlock
    orphans,        \* manager->orphans, at most one for each previous block
    next,           \* orphans whose previous block has just been accepted
    saved,          \* the blocks in the app's database
    heard,          \* transactions relayed in this session
    budget,         \* how many rescans, restarts and removals are left
    peerHeight,     \* no peer reported a lower last block when it connected
    lostTrack       \* history: lastBlock moved and the wallet was not told

history == <<budget, peerHeight, lostTrack>>
chainVars == <<blocks, lastBlock, orphans, next, saved, heard, history>>
vars == <<walletVars, chainVars>>

\* The block and its ancestors, on the tree.
Branch[b \in Block] == {b} \cup (IF Parent[b] = NoBlock THEN {} ELSE Branch[Parent[b]])

\* The ancestors of b that a walk along prevBlock finds in `held`.
Walk(held, b) ==
    {x \in held : /\ x \in Branch[b] \ {b}
                  /\ \A y \in Branch[b] \ {b} : Height[y] > Height[x] => y \in held}

ASSUME ChainAssumption ==
    /\ Checkpoint \in Block /\ NoBlock \notin Block /\ Parent[Checkpoint] = NoBlock
    /\ Height \in [Block -> 0 .. Unconfirmed - 1] /\ Height[Checkpoint] = 0
    /\ \A b \in Block \ {Checkpoint} : Parent[b] \in Block /\ Height[b] = Height[Parent[b]] + 1
    /\ BlockTx \in [Block -> SUBSET Tx] /\ Invalid \subseteq Block
    /\ Interval \in Nat \ {0} /\ Reported \subseteq Nat /\ Spare \in Nat
    /\ MaxRescans \in Nat /\ MaxRestarts \in Nat /\ MaxDrops \in Nat

Init ==
    /\ body = [t \in Tx |-> IF t \in NetTx THEN NetBody[t] ELSE NoBody]
    /\ rows = <<>>
    /\ wallet = WalletNew(<<>>, [t \in Tx |-> Unconfirmed], [t \in Tx |-> FALSE])
    /\ blocks = {Checkpoint} /\ lastBlock = Checkpoint
    /\ orphans = {} /\ next = {} /\ saved = {} /\ heard = {}
    /\ budget = [rescan |-> MaxRescans, restart |-> MaxRestarts, drop |-> MaxDrops]
    /\ peerHeight = 0 /\ lostTrack = FALSE

-----------------------------------------------------------------------------
(* Transactions *)

\* A peer relays a transaction (_peerRelayedTx, or _peerHasTx for a known one).
RelayTx(t) ==
    /\ t \in NetTx \ heard
    /\ heard' = heard \cup {t}
    /\ wallet' = Register(wallet, t)
    /\ rows' = IF WasAdded(wallet, t) THEN Append(rows, t) ELSE rows
    /\ UNCHANGED <<body, blocks, lastBlock, orphans, next, saved, history>>

\* The peers that have an unconfirmed transaction reach, or fall below, the
\* number that marks it verified.
MarkVerified(t, verified) ==
    /\ t \in wallet.all /\ wallet.height[t] = Unconfirmed /\ wallet.stamped[t] # verified
    /\ wallet' = UpdateTxs(wallet, {t}, Unconfirmed, verified)
    /\ UNCHANGED <<body, rows, chainVars>>

\* _requestUnrelayedTxGetdataDone: no peer has the transactions of `lost`.
DropUnrelayed(lost) ==
    LET drop(w, t) == IF Contains(w.list, t) THEN RemoveTx(w, t) ELSE w
        queue == TxUnconfirmedBefore(wallet, Unconfirmed)
        after == FoldLeft(LAMBDA w, t : IF t \in lost THEN drop(w, t) ELSE w, wallet, queue)
    IN /\ budget.drop > 0 /\ lost # {} /\ lost \subseteq ToSet(queue)
       /\ wallet' = after
       /\ rows' = Keep(rows, ToSet(after.list))
       /\ budget' = [budget EXCEPT !.drop = @ - 1]
       /\ UNCHANGED <<body, blocks, lastBlock, orphans, next, saved, heard, peerHeight, lostTrack>>

\* BRWalletCreateTransaction and BRWalletSignTransaction of an amount there is
\* room for.
Create(t, amount, swap) ==
    /\ CanCreate(wallet, amount)
    /\ swap => ChangeOf(wallet, amount) > 0
    /\ body' = [body EXCEPT ![t] = CreatedBody(wallet, amount, swap)]
    /\ wallet' = IF ChangeOf(wallet, amount) > 0 THEN UnusedAddrs(wallet, "internal", 1) ELSE wallet
    /\ UNCHANGED <<rows, chainVars>>

\* The user sends: with too many inputs, a reduced amount.
CreateTransaction(t, amount, swap) ==
    /\ t \in OwnTx /\ body[t] = NoBody
    /\ amount >= MinOutputAmount(wallet)
    /\ Create(t, Settled(wallet, amount), swap)

\* A peer asks for a published transaction: _peerRequestedTx registers it.
RequestTx(t) ==
    /\ t \in OwnTx /\ body[t] # NoBody /\ t \notin wallet.all
    /\ TransactionIsValid(wallet, t)
    /\ wallet' = Register(wallet, t)
    /\ rows' = IF WasAdded(wallet, t) THEN Append(rows, t) ELSE rows
    /\ heard' = heard \cup {t}
    /\ UNCHANGED <<body, blocks, lastBlock, orphans, next, saved, history>>

\* _BRPeerManagerLoadBloomFilter generates spare addresses, so that the filter
\* need not be rebuilt for each transaction.
SpareAddrs(w) ==
    UnusedAddrs(UnusedAddrs(w, "external", GapLimit["external"] + Spare),
                "internal", GapLimit["internal"] + Spare)

\* A filter is loaded when a peer connects or the filter is rebuilt: orphans
\* may have been matched with the old one and are dropped.
LoadBloomFilter ==
    /\ wallet' = SpareAddrs(wallet)
    /\ orphans' = {}
    /\ UNCHANGED <<body, rows, blocks, lastBlock, next, saved, heard, history>>

SetFeePerKb(rate) ==
    /\ rate # wallet.rate
    /\ wallet' = [wallet EXCEPT !.rate = rate]
    /\ UNCHANGED <<body, rows, chainVars>>

-----------------------------------------------------------------------------
(* Blocks *)

\* _BRPeerManagerVerifyBlock: at a difficulty transition the block one
\* interval back must still be there.
TransitionBlock(b) == CHOOSE x \in Branch[b] : Height[x] = Height[b] - Interval
HasTransition(b) == TransitionBlock(b) \in Walk(blocks, b)
VerifyBlock(b) ==
    /\ b \notin Invalid
    /\ Height[b] % Interval = 0 => HasTransition(b)

\* Mutant: everything between transitions is freed.
KeptBlocksNone(b) ==
    IF Height[b] % Interval = 0 /\ HasTransition(b)
    THEN {x \in blocks : Height[x] % Interval = 0} ELSE blocks

\* Mutant: the blocks before b are freed, not the ones before the transition.
KeptBlocksBehind(b) ==
    IF Height[b] % Interval = 0 /\ HasTransition(b)
    THEN {x \in blocks : x \in Walk(blocks, b) => Height[x] % Interval = 0} ELSE blocks

\* The blocks left once a transition freed the ones before the last interval.
KeptBlocks(b) ==
    IF Height[b] % Interval = 0 /\ HasTransition(b)
    THEN {x \in blocks : x \in Walk(blocks, TransitionBlock(b)) => Height[x] % Interval = 0}
    ELSE blocks

\* The blocks handed to saveBlocks: back to a whole number of intervals.
ToSave(held, b, complete) ==
    LET count == IF complete THEN (Height[b] % Interval) + Interval + 1
                 ELSE IF Height[b] % Interval = 0 THEN 1 ELSE 0
        run == {x \in {b} \cup Walk(held, b) : Height[x] > Height[b] - count}
        low == Min({Height[x] : x \in run})
        start == CHOOSE h \in low .. low + Interval - 1 : h % Interval = 0
    IN IF count = 0 THEN {} ELSE {x \in run : Height[x] >= start}

SaveBlocks(held, b, complete) ==
    LET s == ToSave(held, b, complete) IN IF Cardinality(s) > 1 THEN s ELSE saved \cup s

\* Mutant: orphans are kept by their own hash.
AddOrphanBeside(b) == orphans \cup {b}

\* A new orphan takes the place of one with the same previous block.
AddOrphan(b) == {o \in orphans : Parent[o] # Parent[b]} \cup {b}

\* Mutant: the orphans are not looked through.
TakeNextFromNone(held, b) == orphans' = held /\ next' = next \ {b}

\* "check if the next block was received as an orphan"
TakeNextFrom(held, b) ==
    LET following == {o \in held : Parent[o] = b}
    IN /\ orphans' = held \ following
       /\ next' = (next \ {b}) \cup following
TakeNext(b) == TakeNextFrom(orphans, b)

\* The download goes on, is complete ("mempool": the block has the height the
\* peers reported last), or is complete and LoadMempools loads a new filter.
Progress == {"syncing", "mempool", "filter"}
Complete(phase) == phase # "syncing"
LoadMempools(w, phase) == IF phase = "filter" THEN SpareAddrs(w) ELSE w
HeldOrphans(phase) == IF phase = "filter" THEN {} ELSE orphans

\* Block b is handed to _peerRelayedBlock: by a peer that has relayed its
\* transactions, or as the orphan that follows an accepted block.
Delivered(b) == b \in next \/ (b # Checkpoint /\ BlockTx[b] \subseteq heard)

OrphanBlock(b) ==
    /\ Delivered(b) /\ Parent[b] \notin blocks
    /\ orphans' = AddOrphan(b)
    /\ next' = next \ {b}
    /\ UNCHANGED <<walletVars, blocks, lastBlock, saved, heard, history>>

InvalidBlock(b) ==
    /\ Delivered(b) /\ Parent[b] \in blocks /\ ~VerifyBlock(b)
    /\ blocks' = KeptBlocks(b)
    /\ next' = next \ {b}
    /\ UNCHANGED <<walletVars, lastBlock, orphans, saved, heard, history>>

ExtendChain(b, phase) ==
    /\ Complete(phase) => Height[b] \in Reported
    /\ Delivered(b) /\ Parent[b] = lastBlock /\ VerifyBlock(b)
    /\ blocks' = KeptBlocks(b) \cup {b}
    /\ lastBlock' = b
    /\ LET confirmed == IF BlockTx[b] # {} THEN UpdateTxs(wallet, BlockTx[b], Height[b], TRUE) ELSE wallet
       IN wallet' = LoadMempools(confirmed, phase)
    /\ saved' = SaveBlocks(blocks', b, Complete(phase))
    /\ TakeNextFrom(HeldOrphans(phase), b)
    /\ UNCHANGED <<body, rows, heard, history>>

ExistingBlock(b) ==
    /\ Delivered(b) /\ Parent[b] \in blocks /\ Parent[b] # lastBlock /\ VerifyBlock(b)
    /\ b \in blocks
    /\ blocks' = KeptBlocks(b) \cup {b}
    /\ wallet' = IF b \in {lastBlock} \cup Walk(blocks', lastBlock) /\ BlockTx[b] # {}
                 THEN UpdateTxs(wallet, BlockTx[b], Height[b], TRUE) ELSE wallet
    /\ TakeNext(b)
    /\ UNCHANGED <<body, rows, lastBlock, saved, heard, history>>

\* A block mined during a rescan waits while the chain is behind the height
\* the relaying peer reported when it connected.
BlockAhead(b) ==
    /\ Delivered(b) /\ Parent[b] \in blocks /\ Parent[b] # lastBlock /\ VerifyBlock(b)
    /\ b \notin blocks /\ Height[b] > Height[lastBlock] + 1
    /\ blocks' = KeptBlocks(b)
    /\ TakeNextFrom(AddOrphan(b), b)
    /\ UNCHANGED <<walletVars, lastBlock, saved, heard, history>>

OnFork(b) ==
    /\ Delivered(b) /\ Parent[b] \in blocks /\ Parent[b] # lastBlock /\ VerifyBlock(b)
    /\ b \notin blocks /\ Height[b] > 0
    /\ Height[b] > Height[lastBlock] + 1 => Height[lastBlock] >= peerHeight

\* Mutants: the longer branch is never, or any branch is always, adopted.
LongerNever(b) == FALSE /\ Height[b] > Height[lastBlock]
LongerAlways(b) == TRUE \/ Height[b] > Height[lastBlock]

\* "check if fork is now longer than main chain"
Longer(b) == Height[b] > Height[lastBlock]

ForkBlock(b) ==
    /\ OnFork(b) /\ ~Longer(b)
    /\ blocks' = KeptBlocks(b) \cup {b}
    /\ TakeNext(b)
    /\ UNCHANGED <<walletVars, lastBlock, saved, heard, history>>

\* The walk back to where the fork joins the main chain: one step at a time
\* on the fork, and on the main chain whenever the fork is lower.  It ends
\* early where the blocks of the main chain are not held.
JoinPoint(held, block) ==
    LET prev(x) == IF Parent[x] \in held THEN Parent[x] ELSE NoBlock
        walk[p \in (Block \cup {NoBlock}) \X (Block \cup {NoBlock})] ==
            IF NoBlock \in {p[1], p[2]} \/ p[1] = p[2] THEN p
            ELSE LET b == prev(p[1])
                     lower == b # NoBlock /\ Height[b] < Height[p[2]]
                 IN walk[<<b, IF lower THEN prev(p[2]) ELSE p[2]>>]
    IN walk[<<block, lastBlock>>]

\* Mutant: the block that made the branch longer is left out.
ReconfirmOld(w, held, b, join) ==
    LET at[h \in Nat] == CHOOSE x \in {b} \cup Walk(held, b) : Height[x] = h
        heights == [k \in 1 .. Height[b] - join - 1 |-> Height[b] - k]
    IN FoldLeft(LAMBDA v, h : IF BlockTx[at[h]] = {} THEN v ELSE UpdateTxs(v, BlockTx[at[h]], h, TRUE),
                w, heights)

\* The transactions of the new branch get their heights, newest block first.
Reconfirm(w, held, b, join) ==
    LET at[h \in Nat] == CHOOSE x \in {b} \cup Walk(held, b) : Height[x] = h
        heights == [k \in 1 .. Height[b] - join |-> Height[b] + 1 - k]
    IN FoldLeft(LAMBDA v, h : IF BlockTx[at[h]] = {} THEN v ELSE UpdateTxs(v, BlockTx[at[h]], h, TRUE),
                w, heights)

Reorganize(b, phase) ==
    /\ Complete(phase) => Height[b] \in Reported
    /\ OnFork(b) /\ Longer(b)
    /\ blocks' = KeptBlocks(b) \cup {b}
    /\ LET join == JoinPoint(blocks', b)
           reset == SetTxUnconfirmedAfter(wallet, Height[join[1]])
       IN /\ join[1] # NoBlock
          /\ wallet' = LoadMempools(IF join[2] = NoBlock THEN reset
                                    ELSE Reconfirm(reset, blocks', b, Height[join[2]]), phase)
          /\ lostTrack' = (lostTrack \/ join[2] = NoBlock)
    /\ lastBlock' = b
    /\ saved' = IF Complete(phase) THEN SaveBlocks(blocks', b, TRUE) ELSE saved
    /\ TakeNextFrom(HeldOrphans(phase), b)
    /\ UNCHANGED <<body, rows, heard, budget, peerHeight>>

-----------------------------------------------------------------------------
(* Rescan and restart *)

\* BRPeerManagerRescan: the download starts again from the checkpoint, with
\* another peer; peers are taken to have seen the chain as long as it was.
Rescan ==
    /\ budget.rescan > 0
    /\ budget' = [budget EXCEPT !.rescan = @ - 1]
    /\ lastBlock' = Checkpoint
    /\ heard' = {}
    /\ peerHeight' = Max({peerHeight, Height[lastBlock]})
    /\ lostTrack' = (lostTrack \/ lastBlock # Checkpoint)
    /\ UNCHANGED <<walletVars, blocks, orphans, next, saved>>

\* BRPeerManagerNew: from the last saved transition, block by block.
LoadFrom(start) ==
    {x \in saved : /\ start \in Branch[x]
                   /\ \A y \in Branch[x] : Height[y] >= Height[start] => y \in saved}

\* Orphans are indexed by the block before them: one for each stays.
OnePerParent(s) ==
    {r \in SUBSET s : \A x \in s : \E y \in r : {z \in r : Parent[z] = Parent[x]} = {y}}

Highest(s) == {x \in s : \A y \in s : Height[y] <= Height[x]}
Transitions == {x \in saved : Height[x] % Interval = 0}

Restart ==
    /\ budget.restart > 0
    /\ budget' = [budget EXCEPT !.restart = @ - 1]
    /\ \/ /\ Transitions = {}
          /\ blocks' = {Checkpoint} /\ lastBlock' = Checkpoint /\ orphans' \in OnePerParent(saved)
       \/ \E top \in Highest(Transitions) : \E last \in Highest(LoadFrom(top)) :
             /\ blocks' = {Checkpoint} \cup LoadFrom(top) /\ lastBlock' = last
             /\ orphans' \in OnePerParent({x \in saved : \A y \in LoadFrom(top) : Parent[x] # Parent[y]})
    /\ LET kept == ToSet(rows)
       IN wallet' = WalletNew(rows, [t \in Tx |-> IF t \in kept THEN wallet.height[t] ELSE Unconfirmed],
                              [t \in Tx |-> t \in kept /\ wallet.stamped[t]])
    /\ Opens(wallet', rows)
    /\ next' = {} /\ heard' = {}
    /\ body' = [t \in Tx |-> IF t \in OwnTx /\ ~Contains(rows, t) THEN NoBody ELSE body[t]]
    /\ peerHeight' = Height[lastBlock']
    /\ lostTrack' = (lostTrack \/ lastBlock' # lastBlock)
    /\ UNCHANGED <<rows, saved>>

-----------------------------------------------------------------------------
Next ==
    \/ \E t \in NetTx : RelayTx(t)
    \/ \E t \in Tx, verified \in BOOLEAN : MarkVerified(t, verified)
    \/ \E lost \in SUBSET ToSet(wallet.list) : DropUnrelayed(lost)
    \/ \E t \in OwnTx, amount \in Amounts, swap \in BOOLEAN : CreateTransaction(t, amount, swap)
    \/ \E t \in OwnTx : RequestTx(t)
    \/ LoadBloomFilter
    \/ \E rate \in Fees : SetFeePerKb(rate)
    \/ \E b \in Block : OrphanBlock(b)
    \/ \E b \in Block : InvalidBlock(b)
    \/ \E b \in Block, phase \in Progress : ExtendChain(b, phase)
    \/ \E b \in Block : ExistingBlock(b)
    \/ \E b \in Block : BlockAhead(b)
    \/ \E b \in Block : ForkBlock(b)
    \/ \E b \in Block, phase \in Progress : Reorganize(b, phase)
    \/ Rescan
    \/ Restart

Spec == Init /\ [][Next]_vars

-----------------------------------------------------------------------------
(* Properties of the chain *)

\* The wallet knows what it lists, lists it once, and the database has the same
\* transactions, whatever was removed, relayed again after a rescan or loaded
\* after a restart; at most one orphan waits for each previous block.
TypeOK ==
    /\ wallet.list \in Seq(wallet.all) /\ wallet.all \subseteq Tx
    /\ \A i, j \in DOMAIN wallet.list : wallet.list[i] = wallet.list[j] => i = j
    /\ ToSet(rows) = ToSet(wallet.list)
    /\ blocks \subseteq Block /\ lastBlock \in Block
    /\ orphans \cup next \cup saved \subseteq Block
    /\ \A o, p \in orphans : Parent[o] = Parent[p] => o = p

\* A branch holds a transaction once, and the checkpoint is older than the wallet.
MinedOnce ==
    /\ BlockTx[Checkpoint] = {}
    /\ \A b \in Block : \A x, y \in Branch[b] : BlockTx[x] \cap BlockTx[y] # {} => x = y

\* Reorganisations keep heights right: every listed transaction is confirmed
\* at the height of the block of the main chain that holds it, and is
\* unconfirmed when no block of the main chain does.
HeightsMatchChain ==
    ~lostTrack =>
        \A t \in ToSet(wallet.list) :
            LET at == {b \in Branch[lastBlock] : t \in BlockTx[b]}
            IN IF at = {} THEN wallet.height[t] = Unconfirmed
               ELSE \A b \in at : wallet.height[t] = Height[b]

\* The main chain is the longest branch the manager holds.
FollowsLongest ==
    ~lostTrack => \A b \in blocks : Height[b] <= Height[lastBlock]

\* No block that would lengthen the chain waits for a previous block that is
\* already there.
NoForgottenOrphan ==
    ~lostTrack => \A o \in orphans : Parent[o] \in blocks => Height[o] <= Height[lastBlock]

\* The next difficulty transition can be verified: the blocks of the present
\* interval are held, whatever forks freed and whatever a restart loaded.  (A
\* transition that arrives during a rescan frees blocks the rescan has got to.)
IntervalHeld ==
    budget.rescan = MaxRescans =>
    \A b \in Branch[lastBlock] :
        Height[b] \div Interval = Height[lastBlock] \div Interval => b \in blocks

\* No fork is longer than a difficulty interval: of two branches, the lower one
\* leaves the other less than an interval below its own tip.
ShortForks ==
    \A x, y \in Block :
        Height[y] <= Height[x] =>
            \E z \in Branch[x] \cap Branch[y] : Height[z] > Height[y] - Interval

\* A longer fork always meets the main chain: the walk back along the fork
\* finds a block to mark transactions from.
ForkHasJoin ==
    ~lostTrack =>
    \A b \in Block : (OnFork(b) /\ Height[b] > Height[lastBlock]) =>
        JoinPoint(KeptBlocks(b) \cup {b}, b)[1] # NoBlock

\* The main chain never gets shorter, except by a rescan or a restart.
NeverShorter == [][Height[lastBlock'] >= Height[lastBlock] \/ budget' # budget]_vars

\* BRWalletTransactionIsPending is "true if tx cannot be immediately spent": an
\* unconfirmed transaction that is locked beyond the next block is pending.
\* (Marking an unconfirmed transaction verified passes TX_UNCONFIRMED for the
\* height, which the wallet takes for the height of the chain from then on; and
\* a rescan leaves the wallet's height ahead of the manager's chain.)
LockedIsPending ==
    (budget.rescan = MaxRescans /\ wallet.tip # Unconfirmed) =>
        \A t \in ToSet(wallet.list) :
            (/\ wallet.height[t] = Unconfirmed /\ body[t].seq = "locked"
             /\ body[t].lock > Height[lastBlock] + 1) => TransactionIsPending(wallet, t)

-----------------------------------------------------------------------------
(* What the comments of the code say, and the code does not do *)

\* BRWalletSetTxUnconfirmedAfter "marks all transactions confirmed after
\* blockHeight as unconfirmed (useful for chain re-orgs)": after a
\* reorganisation a listed transaction has a height only if the block of the
\* new main chain at that height holds it.
ReorgUnconfirms ==
    [][(lastBlock \notin Branch[lastBlock'] /\ budget' = budget /\ ~lostTrack') =>
          \A t \in ToSet(wallet.list) :
             \/ wallet'.height[t] = Unconfirmed
             \/ \E b \in Branch[lastBlock'] : Height[b] = wallet'.height[t] /\ t \in BlockTx[b]]_vars
=============================================================================
