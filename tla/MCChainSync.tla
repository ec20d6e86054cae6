---------------------------- MODULE MCChainSync ----------------------------
(***************************************************************************)
(* Instances of ChainSync for TLC.  "c" pays beyond the first filter, and  *)
(* "d" spends the output of "a" and pays the wallet nothing.               *)
(***************************************************************************)
EXTENDS ChainSync

MCPay == [t \in Tx |-> CASE t = "a" -> 1 [] t = "b" -> 2 [] t = "c" -> 3 [] OTHER -> 0]
MCSpends == [t \in Tx |-> IF t = "d" THEN {"a"} ELSE {}]

MCChains == {
    << <<"a">>, <<"b", "c">>, <<"d">> >>,
    << <<"a", "b">>, <<"d", "c">>, <<>> >>,
    << <<>>, <<"a", "d">>, <<"c", "b">> >> }
=============================================================================
