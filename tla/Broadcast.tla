----------------------------- MODULE Broadcast -----------------------------
(***************************************************************************)
(* What sending a transaction promises to the caller of                    *)
(* BRPeerManagerPublishTx: each call is answered exactly once; an error    *)
(* means that no node was sent the transaction and none will be, so that   *)
(* the user may pay again; success means that a node asked for it (or said *)
(* that it has it).  Only then is it sent, so that success is no promise   *)
(* that the network has the transaction already.                           *)
(***************************************************************************)
CONSTANT Tx

VARIABLES
    fate,      \* [Tx -> Fates]: what has been decided
    told,      \* [Tx -> Seq(BOOLEAN)]: the answers the caller got (TRUE: success)
    net        \* the transactions some node was sent

bvars == <<fate, told, net>>

Fates == {"idle", "asked", "accepted", "failed"}

Init ==
    /\ fate = [t \in Tx |-> "idle"]
    /\ told = [t \in Tx |-> <<>>]
    /\ net = {}

Submit(t) ==
    /\ fate[t] = "idle"
    /\ fate' = [fate EXCEPT ![t] = "asked"]
    /\ UNCHANGED <<told, net>>

Accept(t) ==
    /\ fate[t] = "asked"
    /\ fate' = [fate EXCEPT ![t] = "accepted"]
    /\ UNCHANGED <<told, net>>

\* Before or after the answer.
Send(t) ==
    /\ fate[t] = "accepted"
    /\ net' = net \cup {t}
    /\ UNCHANGED <<fate, told>>

\* Several transactions may fail together; one may fail as it is submitted.
Fail(ts) ==
    /\ \A t \in ts : fate[t] \in {"idle", "asked"}
    /\ fate' = [t \in Tx |-> IF t \in ts THEN "failed" ELSE fate[t]]
    /\ UNCHANGED <<told, net>>

Answer(t) ==
    /\ fate[t] \in {"accepted", "failed"} /\ told[t] = <<>>
    /\ told' = [told EXCEPT ![t] = IF fate[t] = "accepted" THEN <<TRUE>> ELSE <<FALSE>>]
    /\ UNCHANGED <<fate, net>>

Next ==
    \/ \E t \in Tx : Submit(t) \/ Accept(t) \/ Send(t) \/ Answer(t)
    \/ \E ts \in SUBSET Tx : Fail(ts)

Safe == Init /\ [][Next]_bvars

Answered == \A t \in Tx : fate[t] # "idle" ~> told[t] # <<>>

Spec == Safe /\ Answered
=============================================================================
