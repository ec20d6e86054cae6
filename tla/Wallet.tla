------------------------------- MODULE Wallet -------------------------------
(***************************************************************************)
(* The wallet of breadwallet-core (BRWallet.c): the transactions it knows, *)
(* the ones it lists, their heights, its address chains and what           *)
(* _BRWalletUpdateBalance computes from them.                              *)
(*                                                                         *)
(* struct BRWalletStruct is the record `wallet`; every function of the C   *)
(* file that changes it is an operator from one record to the next, and    *)
(* each runs under wallet->lock or under the peer manager's lock, so a     *)
(* call is one step.  `body` holds the contents of each transaction, and   *)
(* `rows` the transactions of the app's database, in the order txAdded     *)
(* wrote them.  Amounts, sizes and fees are the real numbers; addresses    *)
(* are <<chain, index>> pairs.                                             *)
(***************************************************************************)
EXTENDS Integers, Sequences, FiniteSets, SequencesExt

CONSTANTS
    NetTx,        \* transactions that reach the wallet from the network
    OwnTx,        \* names for the transactions the wallet creates
    NetBody,      \* [NetTx -> contents]
    GapLimit,     \* [Chains -> Nat]: SEQUENCE_GAP_LIMIT_EXTERNAL and _INTERNAL
    Fees,         \* the fee rates the peers or the fee server may ask for
    Amounts,      \* the amounts the user may send
    TxMaxSize     \* TX_MAX_SIZE: no transaction is larger

Chains == {"external", "internal"}
Tx == NetTx \cup OwnTx
Foreign == <<"foreign", 0>>          \* any address that is not the wallet's
Unconfirmed == 2147483647            \* TX_UNCONFIRMED is INT32_MAX

MinFeePerKb == (1000 * 1000 + 190) \div 191
DefaultFeePerKb == (5000 * 1000 + 99) \div 100
TxMinOutputAmount == (1000 * 3 * (34 + 148)) \div 1000

\* A transaction not created yet.
NoBody == [in |-> <<>>, out |-> <<>>, seq |-> "final", lock |-> 0]

VARIABLES wallet, body, rows

walletVars == <<wallet, body, rows>>

ASSUME WalletAssumption ==
    /\ NetTx \cap OwnTx = {}
    /\ GapLimit \in [Chains -> Nat \ {0}]
    /\ Fees \subseteq Nat /\ Amounts \subseteq Nat \ {0} /\ TxMaxSize \in Nat
    /\ \A t \in NetTx :
          /\ NetBody[t].in # <<>> /\ \A o \in ToSet(NetBody[t].in) : o[1] # t
          /\ NetBody[t].out \in Seq([addr : {Foreign} \cup (Chains \X Nat), amount : Nat])
          /\ NetBody[t].lock \in Nat

-----------------------------------------------------------------------------
(* Transactions and addresses *)

SumSeq(s) == FoldLeft(LAMBDA a, b : a + b, 0, s)
OutputOf(o) == body[o[1]].out[o[2]]
AmountOf(o) == OutputOf(o).amount
InputTxs(t) == {o[1] : o \in ToSet(body[t].in)}
Inputs(t) == ToSet(body[t].in)
OutputAddrs(t) == {o.addr : o \in ToSet(body[t].out)}

\* wallet->allAddrs: the addresses generated so far.
AddrsUpTo(count) == UNION {{<<c, i>> : i \in 0 .. count[c] - 1} : c \in Chains}

\* An outpoint <<t, n>> whose transaction is known and whose output is ours.
PaysWallet(w, o) ==
    /\ o[1] \in w.all
    /\ o[2] \in DOMAIN body[o[1]].out
    /\ OutputOf(o).addr \in AddrsUpTo(w.count)

ContainsTx(w, t) ==
    \/ OutputAddrs(t) \cap AddrsUpTo(w.count) # {}
    \/ \E o \in Inputs(t) : PaysWallet(w, o)

\* Addresses are generated until `gap` unused ones follow the last used one:
\* the least such count that is not below the present one.
UnusedAddrs(w, c, gap) ==
    LET used == {a[2] : a \in {b \in w.ledger.used : b[1] = c}}
        enough(n) == \A i \in used : i < n => i + gap < n
        counts == {n \in {w.count[c], gap} \cup {i + 1 + gap : i \in used} :
                      n >= w.count[c] /\ n >= gap /\ enough(n)}
    IN [w EXCEPT !.count[c] = Min(counts)]

\* The first address after the last used one.
FirstUnused(w, c) ==
    Max({0} \cup {i + 1 : i \in {j \in 0 .. w.count[c] - 1 : <<c, j>> \in w.ledger.used}})

NewAddrs(w) ==
    UnusedAddrs(UnusedAddrs(w, "external", GapLimit["external"]), "internal", GapLimit["internal"])

-----------------------------------------------------------------------------
(* The order of wallet->transactions *)

\* -1 stands for SIZE_MAX: no output of t pays an address of the chain.
TxChainIndex(w, t, c) ==
    Max({-1} \cup {i \in 0 .. w.count[c] - 1 : <<c, i>> \in OutputAddrs(t)})

TxIsAscending(w, t1, t2) ==
    LET asc[t \in Tx] ==
            \/ w.height[t] > w.height[t2]
            \/ /\ w.height[t] = w.height[t2]
               /\ \/ t2 \in InputTxs(t)
                  \/ t \notin InputTxs(t2) /\ \E p \in InputTxs(t) \cap w.all : asc[p]
    IN asc[t1]

\* _BRWalletTxCompare(t1, t2) > 0
TxFollows(w, t1, t2) ==
    LET int1 == TxChainIndex(w, t1, "internal")
        c == IF int1 = -1 THEN "external" ELSE "internal"
        i == TxChainIndex(w, t1, c)
        j == TxChainIndex(w, t2, c)
    IN \/ TxIsAscending(w, t1, t2)
       \/ /\ ~TxIsAscending(w, t2, t1)
          /\ i # -1 /\ j # -1 /\ i > j

\* The insertion sort stops at the first transaction, from the end, that does
\* not follow t.
InsertTx(w, t) ==
    LET stays == {k \in DOMAIN w.list : ~TxFollows(w, w.list[k], t)}
    IN [w EXCEPT !.list = InsertAt(@, Max({0} \cup stays) + 1, t)]

-----------------------------------------------------------------------------
(* _BRWalletUpdateBalance *)

\* `known` is not in the code: the address counts the ledger was computed with.
EmptyLedger ==
    [utxos |-> <<>>, balance |-> 0, spent |-> {}, invalid |-> {}, pending |-> {},
     used |-> {}, hist |-> <<>>, sent |-> 0, received |-> 0, known |-> [c \in Chains |-> 0]]

\* Mutant: one block too early.
IsPostdatedEarly(t, tip) == body[t].seq = "locked" /\ body[t].lock - 2 > tip

\* Replaceable, too small an output, or locked until a later block.
IsPostdated(t, tip) ==
    \/ \E o \in ToSet(body[t].out) : o.amount < TxMinOutputAmount
    \/ body[t].in # <<>> /\ body[t].seq = "rbf"
    \/ body[t].in # <<>> /\ body[t].seq = "locked" /\ body[t].lock - 1 > tip

\* The elements of s that are in the set d, in their order.
Keep(s, d) == FoldLeft(LAMBDA kept, o : IF o \in d THEN Append(kept, o) ELSE kept, <<>>, s)

\* What the outputs of a sequence are worth together.
Worth(s) == SumSeq([k \in DOMAIN s |-> AmountOf(s[k])])

\* The wallet outputs of t, in output order.
OwnOutputs(w, t) ==
    LET outs == [n \in 1 .. Len(body[t].out) |-> <<t, n>>]
    IN Keep(outs, {o \in ToSet(outs) : OutputOf(o).addr \in AddrsUpTo(w.count)})

\* Mutant: outputs that an earlier transaction of the list spends are added.
CountTxInOrder(w, l, t) ==
    LET utxos == Keep(l.utxos, ToSet(l.utxos) \ Inputs(t)) \o OwnOutputs(w, t)
        balance == Worth(utxos)
    IN [l EXCEPT !.spent = @ \cup Inputs(t), !.used = @ \cup OutputAddrs(t),
                 !.utxos = utxos, !.balance = balance, !.hist = Append(@, balance)]

\* Outputs are added, then everything that any transaction so far spends is
\* removed; the change of the balance is what was received or sent.
CountTx(w, l, t) ==
    LET spent == l.spent \cup Inputs(t)
        added == l.utxos \o OwnOutputs(w, t)
        utxos == Keep(added, ToSet(added) \ spent)
        gone == Keep(added, spent)
        balance == l.balance + Worth(OwnOutputs(w, t)) - Worth(gone)
    IN [l EXCEPT !.spent = spent,
                 !.used = @ \cup OutputAddrs(t),
                 !.utxos = utxos,
                 !.balance = balance,
                 !.received = IF l.balance < balance THEN @ + (balance - l.balance) ELSE @,
                 !.sent = IF balance < l.balance THEN @ + (l.balance - balance) ELSE @,
                 !.hist = Append(@, balance)]

\* Mutant: a double spend is counted.
LedgerStepTrusting(w, l, t) == CountTx(w, l, t)

LedgerStep(w, l, t) ==
    LET open == w.height[t] = Unconfirmed
        isInvalid == open /\ (Inputs(t) \cap l.spent # {} \/ InputTxs(t) \cap l.invalid # {})
        isPending == open /\ (IsPostdated(t, w.tip) \/ InputTxs(t) \cap l.pending # {})
    IN IF isInvalid
       THEN [l EXCEPT !.invalid = @ \cup {t}, !.hist = Append(@, l.balance)]
       ELSE IF isPending
       THEN [l EXCEPT !.spent = @ \cup Inputs(t), !.pending = @ \cup {t}, !.hist = Append(@, l.balance)]
       ELSE CountTx(w, l, t)

UpdateBalance(w) ==
    [w EXCEPT !.ledger = FoldLeft(LAMBDA l, t : LedgerStep(w, l, t),
                                  [EmptyLedger EXCEPT !.known = w.count], w.list)]

-----------------------------------------------------------------------------
(* The wallet's operations *)

EmptyWallet ==
    [list |-> <<>>, all |-> {}, height |-> [t \in Tx |-> Unconfirmed],
     stamped |-> [t \in Tx |-> FALSE], tip |-> 0, count |-> [c \in Chains |-> 0],
     ledger |-> EmptyLedger, rate |-> DefaultFeePerKb]

\* BRWalletNew: the saved transactions are inserted one by one, with the
\* heights they were saved with, then the addresses are generated.
WalletNew(saved, height, stamped) ==
    LET start == [EmptyWallet EXCEPT !.height = height, !.stamped = stamped]
        loaded == FoldLeft(LAMBDA w, t : InsertTx([w EXCEPT !.all = @ \cup {t}], t), start, saved)
        used == UNION {OutputAddrs(t) : t \in ToSet(saved)}
    IN UpdateBalance(NewAddrs([loaded EXCEPT !.ledger.used = used]))

\* It returns NULL, and the app has no wallet, unless the first of them is one
\* of this wallet's.
Opens(w, saved) == saved # <<>> => ContainsTx(w, saved[1])

\* BRWalletRegisterTransaction, for a transaction that arrives unconfirmed.
Register(w, t) ==
    LET known == [w EXCEPT !.all = @ \cup {t}]
    IN IF t \in w.all THEN w
       ELSE IF ContainsTx(w, t) THEN NewAddrs(UpdateBalance(InsertTx(known, t)))
       ELSE known

WasAdded(w, t) == t \notin w.all /\ ContainsTx(w, t)

\* BRWalletTxUnconfirmedBefore: the trailing transactions not below height.
TxUnconfirmedBefore(w, height) ==
    LET from == Max({0} \cup {k \in DOMAIN w.list : w.height[w.list[k]] < height})
    IN SubSeq(w.list, from + 1, Len(w.list))

\* What BRWalletRemoveTransaction looks for from the end of the list: what
\* spends an output of t and is not older than t.
Dependents(w, t) ==
    {d \in ToSet(TxUnconfirmedBefore(w, w.height[t])) : d # t /\ t \in InputTxs(d)}

\* BRWalletRemoveTransaction removes t and, before it, its dependents and theirs;
\* its callers remove unconfirmed transactions, so that all of them are found in
\* the same suffix of the list.
RemovedWith(w, t) ==
    LET closed == {s \in SUBSET ToSet(w.list) : t \in s /\ \A x \in s : Dependents(w, x) \subseteq s}
    IN {d \in ToSet(w.list) : \A s \in closed : d \in s}

RemoveTx(w, t) ==
    LET gone == RemovedWith(w, t)
    IN UpdateBalance([w EXCEPT !.list = Keep(@, ToSet(@) \ gone), !.all = @ \ gone,
                               !.height = [x \in Tx |-> IF x \in gone THEN Unconfirmed ELSE @[x]],
                               !.stamped = [x \in Tx |-> x \notin gone /\ @[x]]])

\* BRWalletUpdateTransactions: the list is not sorted again, and the balance
\* is computed again only when a pending or an invalid transaction changed.
UpdateTxs(w, txs, height, stamped) ==
    LET changed == {t \in txs \cap w.all : w.height[t] # height \/ w.stamped[t] # stamped}
        ours == {t \in changed : ContainsTx(w, t)}
        freed == IF height # Unconfirmed THEN changed \ ours ELSE {}
        new == [w EXCEPT !.tip = IF height > @ THEN height ELSE @,
                         !.all = @ \ freed,
                         !.height = [t \in Tx |-> IF t \in freed THEN Unconfirmed
                                                  ELSE IF t \in changed THEN height ELSE @[t]],
                         !.stamped = [t \in Tx |-> IF t \in freed THEN FALSE
                                                   ELSE IF t \in changed THEN stamped ELSE @[t]]]
    IN IF ours \cap (w.ledger.pending \cup w.ledger.invalid) # {} THEN UpdateBalance(new) ELSE new

\* BRWalletSetTxUnconfirmedAfter: the suffix of the list that is above height.
SetTxUnconfirmedAfter(w, height) ==
    LET from == Max({0} \cup {k \in DOMAIN w.list : w.height[w.list[k]] <= height})
        suffix == {w.list[k] : k \in from + 1 .. Len(w.list)}
        new == [w EXCEPT !.tip = height,
                         !.height = [t \in Tx |-> IF t \in suffix THEN Unconfirmed ELSE @[t]]]
    IN IF suffix # {} THEN UpdateBalance(new) ELSE new

-----------------------------------------------------------------------------
(* What the wallet says of a transaction *)

TransactionIsValid(w, t) ==
    LET valid[x \in Tx] ==
            \/ w.height[x] # Unconfirmed
            \/ /\ IF x \in w.all THEN x \notin w.ledger.invalid ELSE Inputs(x) \cap w.ledger.spent = {}
               /\ \A p \in InputTxs(x) \cap w.all : valid[p]
    IN valid[t]

TransactionIsPending(w, t) ==
    LET pending[x \in Tx] ==
            /\ w.height[x] = Unconfirmed
            /\ IsPostdated(x, w.tip) \/ \E p \in InputTxs(x) \cap w.all : pending[p]
    IN pending[t]

-----------------------------------------------------------------------------
(* Sending *)

TxFee(rate, size) ==
    LET standard == ((size + 999) \div 1000) * 1000
        fee == ((((size * rate) \div 1000) + 99) \div 100) * 100
    IN Max({standard, fee})

VarIntSize(n) == IF n < 253 THEN 1 ELSE 3

\* A transaction with `ins` unsigned inputs and `outs` pay-to-pubkey-hash outputs.
TxSize(ins, outs) == 8 + VarIntSize(ins) + 148 * ins + VarIntSize(outs) + 34 * outs

MinOutputAmount(w) ==
    Max({(TxMinOutputAmount * w.rate + MinFeePerKb - 1) \div MinFeePerKb, TxMinOutputAmount})

\* Mutant: the fee of a transaction without change.
MaxOutputAmountNoChange(w) ==
    LET total == Worth(w.ledger.utxos)
        fee == TxFee(w.rate, TxSize(Len(w.ledger.utxos), 1))
    IN IF total > fee THEN total - fee ELSE 0

MaxOutputAmount(w) ==
    LET total == Worth(w.ledger.utxos)
        fee == TxFee(w.rate, TxSize(Len(w.ledger.utxos), 2))
    IN IF total > fee THEN total - fee ELSE 0

\* What the first k unspent outputs are worth.
Funds(w, k) == SumSeq([i \in 1 .. k |-> AmountOf(w.ledger.utxos[i])])

\* Mutant: the change output is not paid for.
FeeForNoChange(w, amount, k) == TxFee(w.rate, TxSize(k, 1))

\* The fee when k outputs are spent to one output and change, raised to leave a
\* round balance in the wallet.
FeeFor(w, amount, k) ==
    LET fee == TxFee(w.rate, TxSize(k, 2))
    IN IF k > 0 /\ w.ledger.balance > amount + fee
       THEN fee + ((w.ledger.balance - (amount + fee)) % 100)
       ELSE fee

\* How many of the unspent outputs, in their order, a transaction has room for.
Room(w) == Max({0} \cup {k \in 1 .. Len(w.ledger.utxos) : TxSize(k, 2) <= TxMaxSize})

\* The numbers of unspent outputs at which BRWalletCreateTxForOutputs stops:
\* they pay for the amount and the fee, exactly or with enough left for change.
Enough(w, amount) ==
    {k \in 1 .. Room(w) :
        LET left == Funds(w, k) - (amount + FeeFor(w, amount, k))
        IN left = 0 \/ left >= MinOutputAmount(w)}

CoinCount(w, amount) == Min(Enough(w, amount) \cup {Room(w)})

\* It goes on to an unspent output there is no room for, and drops what it has.
TooLarge(w, amount) == Room(w) < Len(w.ledger.utxos) /\ Enough(w, amount) = {}

\* It then calls itself, if all the unspent outputs would pay for the amount,
\* with what those that fit can pay.  When they are not worth their fee it
\* drops the only output, and refuses.
Reduced(w, amount) == Funds(w, Room(w)) - FeeFor(w, amount, Room(w))

Reduces(w, amount) ==
    LET all == 10 + 148 * Len(w.ledger.utxos) + 2 * 34
    IN /\ TooLarge(w, amount)
       /\ w.ledger.balance >= amount + TxFee(w.rate, all)
       /\ Reduced(w, amount) > MinOutputAmount(w)

Retry(w, amount) == IF Reduces(w, amount) THEN Reduced(w, amount) ELSE amount

\* The amount of the last of these calls, of which the model makes two.  From
\* the second on the amounts differ by less than 100, the rounding in FeeFor:
\* unless what is left in the wallet is a multiple of 100 the calls come round
\* to the same amounts and never end.  Then nothing is created.
Settled(w, amount) == Retry(w, Retry(w, amount))

\* A transaction of this very amount is created.
CanCreate(w, amount) ==
    LET k == CoinCount(w, amount)
    IN ~TooLarge(w, amount) /\ Funds(w, k) >= amount + FeeFor(w, amount, k)

ChangeOf(w, amount) ==
    LET k == CoinCount(w, amount)
        left == Funds(w, k) - (amount + FeeFor(w, amount, k))
    IN IF left >= MinOutputAmount(w) THEN left ELSE 0

\* The created transaction; the outputs are shuffled when there is change, to
\* the first unused address there is after another one was asked for.
CreatedBody(w, amount, swap) ==
    LET pay == [addr |-> Foreign, amount |-> amount]
        unused == FirstUnused(UnusedAddrs(w, "internal", 1), "internal")
        change == [addr |-> <<"internal", unused>>, amount |-> ChangeOf(w, amount)]
        outs == IF ChangeOf(w, amount) = 0 THEN <<pay>>
                ELSE IF swap THEN <<change, pay>> ELSE <<pay, change>>
    IN [in |-> SubSeq(w.ledger.utxos, 1, CoinCount(w, amount)), out |-> outs,
        seq |-> "final", lock |-> 0]

-----------------------------------------------------------------------------
(* Properties of the wallet *)

Counted(w) == ToSet(w.list) \ (w.ledger.invalid \cup w.ledger.pending)

\* The unspent outputs and the balance of w against their definition.
BalanceRight(w) ==
    LET l == w.ledger
        last == Max({0} \cup {k \in DOMAIN w.list : w.list[k] \in Counted(w)})
        spenders == {w.list[k] : k \in 1 .. last} \ l.invalid
        outs == {o \in UNION {{<<t, n>> : n \in DOMAIN body[t].out} : t \in Counted(w)} :
                    OutputOf(o).addr \in AddrsUpTo(l.known)}
    IN /\ ToSet(l.utxos) = {o \in outs : \A t \in spenders : o \notin Inputs(t)}
       /\ \A i, j \in DOMAIN l.utxos : l.utxos[i] = l.utxos[j] => i = j
       /\ l.balance = Worth(l.utxos)
       /\ l.balance = l.received - l.sent
       /\ Len(l.hist) = Len(w.list) /\ (l.hist # <<>> => Last(l.hist) = l.balance)

SpendOnce(w) ==
    \A s, t \in ToSet(w.list) \ w.ledger.invalid :
        (s # t /\ Inputs(s) \cap Inputs(t) # {}) =>
            w.height[s] # Unconfirmed \/ w.height[t] # Unconfirmed

MaxSendable(w) ==
    TxSize(Len(w.ledger.utxos), 2) <= TxMaxSize =>
        \A amount \in Amounts \cup {MaxOutputAmount(w)} :
            (amount > 0 /\ amount <= MaxOutputAmount(w)) => CanCreate(w, amount)

\* The balance and the unspent outputs against their definition: an output of
\* a counted transaction to an address of the wallet is unspent exactly when
\* no transaction up to the last counted one spends it, unless that one is
\* invalid, in whatever order the list has them; the balance kept by additions
\* and subtractions is the sum of the unspent outputs, and what was received
\* minus what was sent; and the history ends with it.
BalanceIsUnspentSum == BalanceRight(wallet)

\* Of two unconfirmed transactions that spend the same output at most one is
\* counted, whichever came first and whatever was confirmed, unconfirmed by a
\* reorg or removed in between.
UnconfirmedSpendOnce == SpendOnce(wallet)

\* As long as a transaction has room for all the unspent outputs, every amount
\* up to the maximum the wallet reports can be sent, in full.  (The maximum
\* takes no account of the room: beyond it the amount may be reduced or refused.)
MaxIsSendable == MaxSendable(wallet)

\* A transaction the wallet creates spends outputs that are unspent, each once;
\* what it does not send is change to an unused address of the wallet and a
\* fee no lower than the rate asks for and no higher than that, the rounding
\* and an amount too small to be change.
IsSound(w, b) ==
    LET paid == Worth(b.in)
        fee == paid - SumSeq([k \in DOMAIN b.out |-> b.out[k].amount])
        asked == TxFee(w.rate, TxSize(Len(b.in), Len(b.out)))
        limit == TxFee(w.rate, TxSize(Len(b.in), 2)) + 100 + MinOutputAmount(w)
    IN /\ ToSet(b.in) \subseteq ToSet(w.ledger.utxos)
       /\ Cardinality(ToSet(b.in)) = Len(b.in)
       /\ asked <= fee /\ fee < limit
       /\ \A o \in ToSet(b.out) : o.amount >= TxMinOutputAmount
       /\ \A o \in ToSet(b.out) : o.addr # Foreign => o.addr \notin w.ledger.used

CreatedIsSound ==
    [][\A t \in OwnTx : (body[t] = NoBody /\ body'[t] # NoBody) =>
           IsSound(wallet, body'[t]) /\ body'[t].out # <<>>
               /\ \A o \in ToSet(body'[t].out) : o.addr \in {Foreign} \cup AddrsUpTo(wallet'.count)]_walletVars
=============================================================================
