----------------------------- MODULE ChainSync -----------------------------
(***************************************************************************)
(* The download of the chain from the download peer, with a bloom filter   *)
(* that must be replaced whenever the wallet's addresses outgrow it        *)
(* (BRPeerManager.c, BRPeer.c).                                            *)
(*                                                                         *)
(* Messages in each direction are delivered in order.  The peer serves     *)
(* requests with the filter it has at that moment; the callbacks of pings  *)
(* run in the order of the pongs.  The chain is one branch (forks are in   *)
(* BlockChain): a block is its height, and holds the wallet's transactions *)
(* in order.  Transactions that only match by accident are left out.       *)
(***************************************************************************)
EXTENDS Integers, Sequences, SequencesExt

CONSTANTS
    Tx,
    Pay,            \* [Tx -> Nat]: the wallet's address it pays to, by index, or 0
    Spends,         \* [Tx -> SUBSET Tx]: transactions whose output to us it spends
    Chains,         \* the chains that are tried: sequences of sequences of Tx
    Announced,      \* transactions that may be seen before they are in a block
    Gap,            \* SEQUENCE_GAP_LIMIT
    Spare,          \* the addresses a new filter holds beyond the gap (100)
    Recent,         \* spent outputs are watched this many blocks longer (100)
    Batch,          \* block hashes in an inv (500)
    MaxFaults, MaxDegraded

ASSUME ChainSyncAssumption ==
    /\ Pay \in [Tx -> Nat] /\ Spends \in [Tx -> SUBSET Tx]
    /\ {Gap, Batch} \subseteq Nat \ {0}
    /\ {Spare, Recent, MaxFaults, MaxDegraded} \subseteq Nat
    /\ Announced \subseteq Tx /\ Chains \subseteq Seq(Seq(Tx))

VARIABLES
    chain, tip,     \* the network's chain, and how much of it is mined
    wallet,         \* tx: registered, height: of each, 0 if unconfirmed, addrs: generated
    lastBlock,      \* height of lastBlock
    estimated,      \* estimatedHeight
    orphans,        \* blocks without a parent: <<height, matched transactions>>
    lastOrphan,
    bloomFilter,    \* NoFilter, or addrs: the first of them, outs: outputs
    peer,           \* what BRPeer and the manager keep of the download peer
    toPeer, fromPeer,
    peerFilter,     \* the filter the peer has
    late,           \* history: blocks that were joined after waiting as orphans
    budget

vars == <<chain, tip, wallet, lastBlock, estimated, orphans, lastOrphan, bloomFilter, peer,
          toPeer, fromPeer, peerFilter, late, budget>>

NoFilter == [addrs |-> -1, outs |-> {}]

\* needsUpdate: PEER_FLAG_NEEDSUPDATE and needsFilterUpdate, which change together.
\* lastHash: lastBlockHash, of the last inv with one block.
\* current: the merkleblock whose transactions have not all arrived.
NoPeer == [on |-> FALSE, last |-> 0, needsUpdate |-> FALSE, knownBlocks |-> <<>>, knownTx |-> {},
           lastHash |-> 0, current |-> <<>>, pongs |-> <<>>]

Init ==
    /\ chain \in Chains /\ tip \in 1 .. Len(chain)
    /\ wallet = [tx |-> {}, height |-> [t \in Tx |-> 0], addrs |-> Gap]
    /\ lastBlock = 0 /\ estimated = 0
    /\ orphans = {} /\ lastOrphan = 0
    /\ bloomFilter = NoFilter
    /\ peer = NoPeer /\ toPeer = <<>> /\ fromPeer = <<>> /\ peerFilter = NoFilter
    /\ late = {}
    /\ budget = [fault |-> MaxFaults, degrade |-> MaxDegraded]

Spend(what) == budget[what] > 0 /\ budget' = [budget EXCEPT ![what] = @ - 1]

-----------------------------------------------------------------------------
(* The wallet *)

Larger(a, b) == IF a > b THEN a ELSE b

\* The last address that has transactions.
Used(w) == CHOOSE n \in {0} \cup {Pay[t] : t \in w.tx} : \A t \in w.tx : n >= Pay[t]

\* BRWalletUnusedAddrs
UnusedAddrs(w, gap) == [w EXCEPT !.addrs = Larger(@, Used(w) + gap)]

\* _BRWalletContainsTx
ContainsTx(w, t) == Pay[t] \in 1 .. w.addrs \/ Spends[t] \cap w.tx # {}

\* BRWalletRegisterTransaction
Register(w, t) == UnusedAddrs([w EXCEPT !.tx = @ \cup {t}], Gap)

\* BRWalletUpdateTransactions
UpdateTx(w, ts, h) ==
    [w EXCEPT !.height = [t \in Tx |-> IF t \in ts \cap w.tx THEN h ELSE @[t]]]

UTXOs(w) == {t \in w.tx : Pay[t] > 0 /\ \A u \in w.tx : t \notin Spends[u]}

-----------------------------------------------------------------------------
(* Filters *)

\* _BRPeerManagerLoadBloomFilter: addresses, unspent outputs, and outputs that
\* were spent by what is unconfirmed or in one of the last blocks.
Watch(w) ==
    LET recent == {t \in w.tx : w.height[t] = 0 \/ w.height[t] > lastBlock - Recent}
    IN [addrs |-> w.addrs, outs |-> UTXOs(w) \cup (w.tx \cap UNION {Spends[t] : t \in recent})]

LoadBloomFilter ==
    LET w == UnusedAddrs(wallet, Gap + Spare)
    IN /\ wallet' = w
       /\ bloomFilter' = Watch(w)
       /\ orphans' = {} /\ lastOrphan' = 0

Matches(f, t) == Pay[t] \in 1 .. f.addrs \/ Spends[t] \cap f.outs # {}

\* A node adds the outputs it finds to the filter (BLOOM_UPDATE_ALL).
Learn(f, ts) == [f EXCEPT !.outs = @ \cup {t \in ts : Pay[t] \in 1 .. f.addrs}]

\* The transactions of a block that match: each sees what the ones before it added.
Sift(f, ts) ==
    FlattenSeq([i \in DOMAIN ts |->
        IF Matches(Learn(f, {ts[j] : j \in 1 .. i - 1}), ts[i]) THEN <<ts[i]>> ELSE <<>>])

-----------------------------------------------------------------------------
(* The node at the other end *)

Msg(type, arg) == [type |-> type, arg |-> arg]
Inv(hs) == Msg("inv", hs)

\* The answer to getdata: each block, followed by the transactions that match.
TxOf(hs) == UNION {ToSet(chain[hs[i]]) : i \in DOMAIN hs}
Blocks(hs) ==
    FlattenSeq([i \in DOMAIN hs |->
        LET ts == Sift(Learn(peerFilter, TxOf(SubSeq(hs, 1, i - 1))), chain[hs[i]])
        IN <<Msg("merkleblock", <<hs[i], ToSet(ts)>>)>> \o [j \in DOMAIN ts |-> Msg("tx", ts[j])]])

Range1(a, b) == [i \in 1 .. b - a + 1 |-> a + i - 1]

Serve ==
    /\ peer.on /\ toPeer # <<>>
    /\ toPeer' = Tail(toPeer)
    /\ LET m == Head(toPeer) IN
       \/ /\ m.type = "filterload"
          /\ peerFilter' = m.arg /\ UNCHANGED fromPeer
       \/ /\ m.type = "getblocks"
          /\ LET upTo == IF m.arg + Batch < tip THEN m.arg + Batch ELSE tip
             IN fromPeer' = IF m.arg < tip THEN Append(fromPeer, Inv(Range1(m.arg + 1, upTo))) ELSE fromPeer
          /\ UNCHANGED peerFilter
       \/ /\ m.type = "getdata"
          /\ fromPeer' = fromPeer \o Blocks(m.arg)
          /\ peerFilter' = Learn(peerFilter, TxOf(m.arg))
       \/ /\ m.type = "ping"
          /\ fromPeer' = Append(fromPeer, Msg("pong", 0)) /\ UNCHANGED peerFilter
    /\ UNCHANGED <<chain, tip, wallet, lastBlock, estimated, orphans, lastOrphan, bloomFilter, peer, late, budget>>

Mine ==
    /\ tip < Len(chain)
    /\ tip' = tip + 1
    /\ fromPeer' = IF peer.on THEN Append(fromPeer, Inv(<<tip'>>)) ELSE fromPeer
    /\ UNCHANGED <<chain, wallet, lastBlock, estimated, orphans, lastOrphan, bloomFilter, peer, toPeer,
                   peerFilter, late, budget>>

\* A transaction that is not in a block yet: inv, getdata and tx in one.
Announce(t) ==
    /\ peer.on /\ Matches(peerFilter, t)
    /\ t \notin peer.knownTx /\ Msg("mempool", t) \notin ToSet(fromPeer)
    /\ \E h \in tip + 1 .. Len(chain) : t \in ToSet(chain[h])
    /\ fromPeer' = Append(fromPeer, Msg("mempool", t))
    /\ peerFilter' = Learn(peerFilter, {t})
    /\ UNCHANGED <<chain, tip, wallet, lastBlock, estimated, orphans, lastOrphan, bloomFilter, peer, toPeer, late,
                   budget>>

-----------------------------------------------------------------------------
(* The connection *)

\* _peerConnected, for the download peer.
Connect ==
    /\ ~peer.on
    /\ LoadBloomFilter
    /\ peer' = [NoPeer EXCEPT !.on = TRUE, !.last = tip]
    /\ estimated' = tip
    /\ toPeer' = <<Msg("filterload", bloomFilter')>>
                 \o IF lastBlock < tip THEN <<Msg("getblocks", lastBlock)>> ELSE <<>>
    /\ fromPeer' = <<>> /\ peerFilter' = NoFilter
    /\ UNCHANGED <<chain, tip, lastBlock, late, budget>>

Lost ==
    /\ peer' = NoPeer /\ toPeer' = <<>> /\ fromPeer' = <<>> /\ peerFilter' = NoFilter
    /\ UNCHANGED <<chain, tip, wallet, lastBlock, estimated, orphans, lastOrphan, bloomFilter, late>>

Failed == peer.on /\ Spend("fault") /\ Lost

Syncing == lastBlock < estimated

\* Mutant: the timeout is cancelled with the sync still behind.
TimedOutNever == FALSE /\ Lost /\ UNCHANGED budget

\* The sync timeout, which every block and transaction puts off.
TimedOut == peer.on /\ Syncing /\ toPeer = <<>> /\ fromPeer = <<>> /\ Lost /\ UNCHANGED budget

-----------------------------------------------------------------------------
(* Messages from the peer *)

Receive(type) == peer.on /\ fromPeer # <<>> /\ Head(fromPeer).type = type /\ fromPeer' = Tail(fromPeer)

\* Mutant: the callback is not registered with the ping.
UpdateFilterUnheard(p) == [p |-> [p EXCEPT !.needsUpdate = TRUE], out |-> <<>>]

\* _BRPeerManagerUpdateFilter: "wait for pong so we're sure to include any tx
\* already sent by the peer in the updated filter"
UpdateFilter(p) ==
    IF p.needsUpdate THEN [p |-> p, out |-> <<>>]
    ELSE [p |-> [p EXCEPT !.needsUpdate = TRUE, !.pongs = Append(@, "update")], out |-> <<Msg("ping", 0)>>]

\* _BRPeerAcceptInvMessage.  The hashes are remembered to be asked for again;
\* nothing is asked for while the filter is being replaced.
AcceptInv ==
    /\ Receive("inv")
    /\ LET hs == Head(fromPeer).arg
           new == IF Len(hs) = 1 /\ hs[1] = peer.lastHash THEN <<>> ELSE hs
           ask == IF peer.needsUpdate THEN <<>> ELSE new
       IN /\ peer' = [peer EXCEPT !.knownBlocks = @ \o new, !.lastHash = IF Len(new) = 1 THEN new[1] ELSE @]
          /\ toPeer' = toPeer \o (IF ask # <<>> THEN <<Msg("getdata", ask)>> ELSE <<>>)
                              \o (IF Len(ask) >= Batch THEN <<Msg("getblocks", Last(ask))>> ELSE <<>>)
    /\ UNCHANGED <<chain, tip, wallet, lastBlock, estimated, orphans, lastOrphan, bloomFilter, peerFilter, late,
                   budget>>

\* The blocks from h on that were kept as orphans.
Joined(h) == {k \in h + 1 .. tip : \A j \in h + 1 .. k : \E o \in orphans : o[1] = j}

\* Mutant: blocks count although the filter is about to be replaced.
IncompleteNever(f) == FALSE /\ f = NoFilter

\* "ignore potentially incomplete blocks when a filter update is pending"
Incomplete(f) == f = NoFilter

\* Mutant: the height the peer reported is not enough.
AsksForParentsLater(p, h) == lastBlock > p.last /\ lastOrphan # h - 1

\* "call getblocks, unless we already did with the previous block, or we're
\* still syncing"
AsksForParents(p, h) == lastBlock >= p.last /\ lastOrphan # h - 1

\* _peerRelayedBlock, with the wallet w, filter f and peer p at that point.  A
\* block is dropped while there is no filter; else it confirms its transactions,
\* with the orphans that follow it; without its parent it becomes an orphan.
RelayedBlock(w, f, p, out, h, ts) ==
    /\ bloomFilter' = f
    /\ IF Incomplete(f)
       THEN /\ wallet' = w /\ peer' = p /\ toPeer' = toPeer \o out
            /\ UNCHANGED <<lastBlock, estimated, orphans, lastOrphan, late>>
       ELSE IF h > lastBlock + 1
       THEN /\ orphans' = {o \in orphans : o[1] # h} \cup {<<h, ts>>}
            /\ lastOrphan' = h
            /\ wallet' = w /\ peer' = p
            /\ toPeer' = toPeer \o out \o (IF AsksForParents(p, h)
                                           THEN <<Msg("getblocks", lastBlock)>> ELSE <<>>)
            /\ UNCHANGED <<lastBlock, estimated, late>>
       ELSE LET added == {o \in orphans : o[1] \in Joined(h)}
                top == CHOOSE k \in {h} \cup Joined(h) : \A j \in Joined(h) : k >= j
            IN /\ wallet' = [UpdateTx(w, ts, h) EXCEPT
                                !.height = [t \in Tx |->
                                    IF t \in w.tx /\ \E o \in added : t \in o[2]
                                    THEN (CHOOSE o \in added : t \in o[2])[1] ELSE @[t]]]
               /\ lastBlock' = Larger(lastBlock, top)
               /\ estimated' = Larger(estimated, top)
               /\ orphans' = orphans \ added
               /\ late' = late \cup Joined(h)
               /\ lastOrphan' = IF h <= lastBlock /\ lastOrphan = h THEN 0 ELSE lastOrphan
               /\ peer' = p /\ toPeer' = toPeer \o out

\* The false positive rate may have degraded: the filter is rebuilt, and blocks
\* on the old one still count.
BlockDone(w, f, p, out, h, ts, degraded) ==
    LET u == UpdateFilter(p)
    IN IF degraded THEN Syncing /\ Spend("degrade") /\ RelayedBlock(w, f, u.p, out \o u.out, h, ts)
       ELSE RelayedBlock(w, f, p, out, h, ts) /\ UNCHANGED budget

\* _BRPeerAcceptMerkleblockMessage
AcceptMerkleblock ==
    /\ Receive("merkleblock")
    /\ LET h == Head(fromPeer).arg[1]
           ts == Head(fromPeer).arg[2]
       IN IF ts \subseteq peer.knownTx
          THEN \E degraded \in BOOLEAN : BlockDone(wallet, bloomFilter, peer, <<>>, h, ts, degraded)
          ELSE /\ peer' = [peer EXCEPT !.current = <<h, ts, ts \ peer.knownTx>>]
               /\ UNCHANGED <<wallet, lastBlock, estimated, orphans, lastOrphan, bloomFilter, toPeer, late, budget>>
    /\ UNCHANGED <<chain, tip, peerFilter>>

\* Mutant: only the addresses in use are looked for.
OutgrownLate(w) == bloomFilter # NoFilter /\ Used(w) > bloomFilter.addrs

\* _peerRelayedTx: a transaction of the wallet is registered; if the filter no
\* longer matches the next addresses it is dropped and an update begun.
Outgrown(w) == bloomFilter # NoFilter /\ Used(w) + Gap > bloomFilter.addrs

RelayedTx(t) ==
    LET w == IF ContainsTx(wallet, t) THEN Register(wallet, t) ELSE wallet
        outgrown == ContainsTx(wallet, t) /\ Outgrown(w)
        u == IF outgrown THEN UpdateFilter(peer) ELSE [p |-> peer, out |-> <<>>]
    IN [w |-> w, f |-> IF outgrown THEN NoFilter ELSE bloomFilter, p |-> u.p, out |-> u.out]

\* _BRPeerAcceptTxMessage, for a transaction of a merkleblock.
AcceptTx ==
    /\ Receive("tx")
    /\ LET t == Head(fromPeer).arg
           r == RelayedTx(t)
           left == peer.current[3] \ {t}
       IN IF peer.current # <<>> /\ left = {}
          THEN \E degraded \in BOOLEAN :
                 BlockDone(r.w, r.f, [r.p EXCEPT !.current = <<>>], r.out,
                           peer.current[1], peer.current[2], degraded)
          ELSE /\ wallet' = r.w /\ bloomFilter' = r.f /\ toPeer' = toPeer \o r.out
               /\ peer' = IF peer.current = <<>> THEN r.p ELSE [r.p EXCEPT !.current[3] = left]
               /\ UNCHANGED <<lastBlock, estimated, orphans, lastOrphan, late, budget>>
    /\ UNCHANGED <<chain, tip, peerFilter>>

AcceptMempoolTx ==
    /\ Receive("mempool")
    /\ LET t == Head(fromPeer).arg
           r == RelayedTx(t)
       IN /\ wallet' = r.w /\ bloomFilter' = r.f /\ toPeer' = toPeer \o r.out
          /\ peer' = [r.p EXCEPT !.knownTx = @ \cup {t}]
    /\ UNCHANGED <<chain, tip, lastBlock, estimated, orphans, lastOrphan, peerFilter, late, budget>>

AcceptPong(callback) ==
    /\ Receive("pong")
    /\ Head(peer.pongs) = callback
    /\ UNCHANGED <<chain, tip, lastBlock, estimated, peerFilter, late, budget>>

Pongs == Tail(peer.pongs)

\* _updateFilterPingDone
UpdateFilterPingDone ==
    /\ AcceptPong("update")
    /\ LoadBloomFilter
    /\ peer' = [peer EXCEPT !.pongs = Append(Pongs, "load")]
    /\ toPeer' = toPeer \o <<Msg("filterload", bloomFilter'), Msg("ping", 0)>>

\* BRPeerRerequestBlocks: the known hashes from lastBlock on.
KnownFrom(h) ==
    LET at == {i \in DOMAIN peer.knownBlocks : peer.knownBlocks[i] = h}
        i == CHOOSE j \in at : \A k \in at : j >= k
    IN IF at = {} THEN <<>> ELSE SubSeq(peer.knownBlocks, i, Len(peer.knownBlocks))

\* _updateFilterLoadDone
UpdateFilterLoadDone ==
    /\ AcceptPong("load")
    /\ LET again == KnownFrom(lastBlock)
       IN IF Syncing
          THEN /\ peer' = [peer EXCEPT !.needsUpdate = FALSE, !.pongs = Append(Pongs, "rerequest"),
                                       !.knownBlocks = IF again # <<>> THEN again ELSE @]
               /\ toPeer' = toPeer \o (IF again # <<>> THEN <<Msg("getdata", again)>> ELSE <<>>)
                                   \o <<Msg("ping", 0)>>
          ELSE /\ peer' = [peer EXCEPT !.needsUpdate = FALSE, !.pongs = Pongs]
               /\ UNCHANGED toPeer
    /\ UNCHANGED <<wallet, orphans, lastOrphan, bloomFilter>>

\* _updateFilterRerequestDone
UpdateFilterRerequestDone ==
    /\ AcceptPong("rerequest")
    /\ peer' = [peer EXCEPT !.pongs = Pongs]
    /\ toPeer' = IF peer.needsUpdate THEN toPeer ELSE Append(toPeer, Msg("getblocks", lastBlock))
    /\ UNCHANGED <<wallet, orphans, lastOrphan, bloomFilter>>

-----------------------------------------------------------------------------
Handle ==
    \/ AcceptInv \/ AcceptMerkleblock \/ AcceptTx \/ AcceptMempoolTx
    \/ UpdateFilterPingDone \/ UpdateFilterLoadDone \/ UpdateFilterRerequestDone

Next ==
    \/ Serve \/ Mine \/ (\E t \in Announced : Announce(t))
    \/ Connect \/ Failed \/ TimedOut
    \/ Handle

Spec == Init /\ [][Next]_vars

\* The node answers, the peer's thread handles what it receives, and the manager
\* reconnects.  The node may announce nothing, and need not fail.
FairSpec == Spec /\ WF_vars(Serve) /\ WF_vars(Handle) /\ WF_vars(Connect) /\ WF_vars(TimedOut)

-----------------------------------------------------------------------------
(* Properties *)

\* The wallet has t, at the height of its block.
Recorded(t, h) == t \in wallet.tx /\ wallet.height[t] = h

\* The wallet has every one of its transactions in the blocks up to lastBlock,
\* although addresses are used faster than the filter knows them and blocks
\* arrive while it is being replaced.  A block that was announced during the sync
\* is the exception, for a transaction that only spends.
NoMissedTx ==
    \A h \in 1 .. lastBlock : \A t \in ToSet(chain[h]) :
        Recorded(t, h) \/ (h \in late /\ Pay[t] = 0)

\* A filter that was dropped is being replaced, or every block would be ignored.
FilterComesBack == peer.on /\ bloomFilter = NoFilter => "update" \in ToSet(peer.pongs)

\* The filter the peer has, or will have read: the last one in msgs, or f.
Latest(msgs, f) ==
    LET loads == {i \in DOMAIN msgs : msgs[i].type = "filterload"}
    IN IF loads = {} THEN f ELSE msgs[CHOOSE i \in loads : \A j \in loads : i >= j].arg
Sent == Latest(toPeer, peerFilter)

\* "the transaction likely consumed one or more wallet addresses, so check that
\* at least the next <gap limit> unused addresses are still matched by the bloom
\* filter": the one the download peer has, unless an update has begun.
NextAddressesWatched == peer.on /\ ~peer.needsUpdate => Sent.addrs >= Used(wallet) + Gap

\* A sync that has begun ends, however often the filter is replaced.
SyncEnds == Syncing ~> ~Syncing

\* A block that came without its parent does not stay alone: the ones before it
\* are asked for, or all are asked for again on a new filter.
OrphansFindParents == (orphans # {}) ~> (orphans = {})
=============================================================================
