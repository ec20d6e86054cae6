---------------------------- MODULE MCBlockChain ----------------------------
(***************************************************************************)
(* Instances of BlockChain for TLC.  Transactions:                         *)
(*   a  100000 received on the first address                               *)
(*   c  spends the output of a to the second address, locked until block 2 *)
(*   d  pays the second and the third address, the third beyond the gap    *)
(*   o  created by the wallet                                              *)
(* Forks are no longer than one difficulty interval, and a branch holds a  *)
(* transaction once.                                                       *)
(***************************************************************************)
EXTENDS BlockChain

ASSUME Forks == ShortForks
ASSUME Mined == MinedOnce

Out(c, i, n) == [addr |-> <<c, i>>, amount |-> n]
Final(in, out) == [in |-> in, out |-> out, seq |-> "final", lock |-> 0]

Bodies ==
    [a |-> Final(<<<<"x", 1>>>>, <<Out("external", 0, 100000)>>),
     c |-> [in |-> <<<<"a", 1>>>>, out |-> <<Out("external", 1, 80000)>>, seq |-> "locked", lock |-> 2],
     d |-> Final(<<<<"y", 1>>>>, <<Out("external", 1, 20000), Out("external", 2, 6000)>>)]
MCNetBody == [t \in NetTx |-> Bodies[t]]

MCGapLimit == [c \in {"external", "internal"} |-> 1]

\* g - b1 - b2 - b3          g - b1
\*             \ f3 - f4       \ c1 - c2
Tree == [g |-> "none", b1 |-> "g", b2 |-> "b1", b3 |-> "b2", f3 |-> "b2", f4 |-> "f3",
         c1 |-> "g", c2 |-> "c1", bad |-> "g"]
MCParent == [b \in Block |-> Tree[b]]
MCHeight[b \in Block] == IF Tree[b] = "none" THEN 0 ELSE MCHeight[Tree[b]] + 1

\* Three received transactions and a sent one, on two short branches.
WalletBlockTx ==
    [b \in Block |-> CASE b = "b1" -> {"a", "o"} [] b = "c1" -> {"a", "d"} [] b = "c2" -> {"c"} [] OTHER -> {}]

\* One transaction, on both branches.
ChainBlockTx == [b \in Block |-> IF b \in {"b3", "f4"} THEN {"a"} ELSE {}]

\* Two transactions, of which one is confirmed on one branch only.
ReorgBlockTx ==
    [b \in Block |-> CASE b = "b2" -> NetTx \cap {"d"} [] b = "b3" -> {"a"} [] OTHER -> {}]
=============================================================================
