----------------------------- MODULE MCPublish -----------------------------
(***************************************************************************)
(* Instances of Publish for TLC: t spends the change of s.                 *)
(***************************************************************************)
EXTENDS Publish

MCParents == [x \in Tx |-> IF x = "t" THEN Tx \cap {"s"} ELSE {}]
=============================================================================
