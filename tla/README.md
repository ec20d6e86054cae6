# Alt-messenger: a TLA+ model of its stores, its chats and its wallet

Alt-messenger is an iOS app that joins a one-to-one messenger over Firebase, a
small shop, and a Bitcoin wallet derived from breadwallet. This directory holds
TLA+ modules for the parts of it that keep state across failures or share it
between concurrent actors, TLC runs on small instances, and TLAPS proofs that
hold for every instance.

Paths below are relative to `src/`. `KV/` stands for
`Alttex_messager/Modules/BRSocketHelpers/` and `WH/` for
``Alttex_messager/Controllers/WalletsControllers/WalletVC`s/Helper VC`s/``;
the C files are under `Modules/breadwallet-core/`.

## 1. Inventory

| Part | Source | State | Operations | What is hard |
|---|---|---|---|---|
| Replicated key-value store | `KV/BRReplicatedKVStore.swift`, `KV/BRAPIClient+KV.swift` | SQLite table of versions, `syncRunning`, the counter `failures`; on the server a version history | `set`, `del`, `get`, `rmdb`, `syncAllKeys`, `syncKey`, `_syncKey` | tasks on a concurrent queue, lost and late requests, edits during a round trip, restarts, other devices |
| Messenger | `Alttex_messager/Models/MessangerModel/MessageModel.swift`, `Controllers/MessagesControllers/ChatVC.swift` | pointers `users/u/conversations/v/location`, messages under `conversations/<location>`, observers and items of a screen | `send`, `uploadMessage`, `downloadAllMessages`, `markMessagesRead` | three writes without a transaction, read-then-write races, observers that pile up, ignored errors |
| Conversation list | `MessangerModel/ConversationModel.swift`, `ConversationVC.swift` | rows with a captured location | `showConversations`, `downloadLastMessage` | stale location |
| PIN and keychain | `WH/WalletManager+Auth.swift` | keychain items; `failedPins`, `didInitWallet`, `masterPubKey` in memory | `authenticate`, `changePin`, `forceSetPin`, `setSeedPhrase`, `setRandomSeedPhrase`, `wipeWallet`, upgrade in `init` | kills and errors between keychain writes, memory and keychain out of step |
| Wallet | `BRWallet.c` | transactions, unspent outputs, address chains, balance history | `BRWalletRegisterTransaction`, `...RemoveTransaction`, `...UpdateTransactions`, `...SetTxUnconfirmedAfter`, `...UnusedAddrs`, `...CreateTransaction` | conflicting and reordered transactions, re-orgs, rounding |
| Block chain | `BRPeerManager.c` | blocks, orphans, last block; saved blocks in the app's database | `_peerRelayedBlock`, `_BRPeerManagerVerifyBlock`, `BRPeerManagerRescan`, `BRPeerManagerNew` | any order of delivery, forks, freed blocks, restart from what was saved |
| Connections and publishing | `BRPeerManager.c`, `BRPeer.c` | peers, download peer, publish list, timers | `BRPeerManagerConnect`, `...Disconnect`, `...PublishTx`, `_peerConnected`, `_peerDisconnected`, `_peerRequestedTx`, ... | one thread per peer, timeouts that race answers, steps that release the lock half-way |
| Download and filter | `BRPeerManager.c`, `BRPeer.c` | bloom filter, known hashes, pings under way | `_BRPeerManagerUpdateFilter` and its three ping callbacks, `_peerRelayedTx`, `_BRPeerAcceptInvMessage`, ... | the filter changes while blocks matched with the old one are on their way |
| App core | `WH/WalletManager.swift`, `WalletCoordinator.swift`, `Sender.swift`, `ApplicationController.swift` | wallet database, timers, reachability | save callbacks, background/foreground, send | callbacks after a wipe, lost saves |
| API client and web view | `KV/BRAPIClient.swift`, `BRHTTPServer.swift`, `BRWebSocket.swift`, `Plugins/` | token, cookies, bundles | authenticated requests with retries | token refresh races |
| User interface, shop, Redux store, cryptography, vendored code | — | — | — | not modelled, see section 7 |

Interactions. `ApplicationController` calls `syncAllKeys` at launch, in the
foreground, in the background fetch and when the network comes back.
`wipeWallet` calls `rmdb` on a key-value store of its own making. The wallet
screens call `authenticate` before they sign or show the phrase. `ChatVC` calls
`MessageChat` and is called back by Firebase. The peer manager calls the wallet
from the threads of its peers, under its lock; the wallet and the manager call
back into `WalletManager`, which writes its database on the serial
`walletQueue`, where `connect`, `disconnect`, `rescan` and `publishTx` run too.

What makes the modelled parts correct:

* store: what is recorded about the server is true; a sync that reports success
  left both sides in agreement; no edit is buried by a sync; every sync ends
  (with one exception, section 4); in the end both sides agree;
* messenger: nobody reads along; the two pointers of a pair agree, and a
  conversation keeps its location; messages that were stored arrive, once; every
  send ends; read marks come from readers;
* keychain: no key without its phrase; wrong pins wipe neither too early nor
  before the locks were sat out; the owner gets in again;
* wallet: balance, unspent outputs and totals agree with the transactions in
  whatever order these came; what is offered can be sent, as far as it fits into
  a transaction; what is sent is paid;
* block chain: the longest branch is followed, no block is forgotten or freed
  too early, heights in the wallet are those of the chain;
* publishing: one answer for each call, in the end; no error for what was or
  will be sent, and no success before a node asked for it;
* download: no transaction of the wallet is missed, and the download ends.

The hazards behind these properties are listed, each at its line, in
`PROJECT.json`.

## 2. Modules

| Module | Models |
|---|---|
| `ReplicatedKVStore` | the store, its replication, the server it talks to |
| `Messenger` | sending, conversations, the chat screen, over Firebase |
| `PinAuth` | the keychain and the calls that change it |
| `Wallet` | the functions of `BRWallet.c`, as operators on a record |
| `BlockChain` | extends `Wallet`: the block chain of the peer manager, the wallet it drives and the app's database |
| `Broadcast` | what publishing a transaction promises (abstract) |
| `Publish` | publishing and the connections it depends on; implements `Broadcast` |
| `ChainSync` | the download of the chain with its bloom filter |
| `MC...` | model values and small sets for TLC |
| `ReplicatedKVStoreProofs` | theorems about the store, its tasks and a sync that reports success |
| `MessengerProofs`, `MessengerScreenProofs` | theorems about conversations, and about what screens show and mark |
| `PinAuthProofs`, `PublishProofs` | theorems about the keychain and about publishing |
| `WalletProofs` | theorems about the functions of `Wallet`, for any wallet |
| `BlockChainProofs` | theorems about the chain, and about the wallet through every step of it |
| `ChainSyncProofs` | theorems about the filter of the download peer |

Definitions whose comment says that something is dropped, forgotten or
unchecked (for example `MayWriteAnyway` just before `MayWrite`) are mutants: a
plausible mistake in the definition that follows them. No specification uses
them; putting one in the place of the original makes the property it is listed
with fail.

### ReplicatedKVStore

The table `kvstore` keeps every version, so `rows[k]` is a sequence of rows
(content, `thetime`, `remote_version`) and the local version is its length.
Each SQLite transaction is one step, because `dbQueue` serialises transactions
and nothing else. A `_syncKey` call is a `task[k]` whose `pc` says which
transaction or answer comes next:

* `ReadRecorded` – first transaction and the shortcut for an unchanged key
  (lines 573-583), once a permit of the semaphore is free;
* `Decide` – second transaction (`get`) and the comparison of times (585-612),
  which leads to `put`, `del`, `get`, `drop` or `mark`;
* `ServePut`, `ServeDel`, `ServeGet`, `ServeHead` – the server (external);
* `StoreFetched`, `DropLocally`, `RecordRemote`, `Refused` – the completion
  blocks; `_set` or `_del` and the following `setRemoteVersion` are two
  transactions and therefore two steps;
* `RequestFails` – the client sees an error; the request becomes an *orphan*
  that the server may still receive (`OrphanArrives`) or not (`OrphanIsLost`).

The transactions that read (`ReadRecorded`, `Decide`) may throw: the database is
busy or its file gone, or the row cannot be opened (`TransactionThrows`). The two
callers differ: `syncAllKeys` catches the error and counts a failure (517-521),
`syncKey` drops it with `try?` (553), so that the completion is never called and
`syncRunning` stays set until the app restarts (`Throw`, `SyncKeyStuck`). In the
completion blocks of requests both count it as a failure of the key.

`syncAllKeys`, `ServeKeys`, `KeysArrive`, `KeysFail`, `FinishSync` are the
outer protocol; the check of `syncRunning` and its setting (464-470, 540-543) are
two unsynchronised steps in the code and one here: the app calls `syncAllKeys`
on the main thread only, and `syncKey` not at all unless `syncImmediately` is set;
two calls at one moment could both pass the check; `set`, `del`, `rmdb`, `Restart` and `OtherDeviceWrites` may
happen between any two of these steps. `Fail` increments `failures` as an
unsynchronised `+= 1` on a concurrent queue does: increments may be lost, but
the counter never goes back to 0.

Assumed of the environment: the server accepts a `put` or `del` only for its
newest version (`If-None-Match`), with version 1 also creating a key; `keys()`
reports milliseconds and `HEAD` whole seconds; SQLite refuses to write to a
database whose file was removed; the cipher accepts only what this user wrote
(`Opened`: bytes that fail authentication open as the empty string, 12 bytes or
fewer throw `malformedData`).

### Messenger

A message stands for its push id; the location a first message creates is named
after the message (`childByAutoId` makes fresh ids). `up[m]` follows a message
from `composeMessage` to its completion block: `Compose`, `PictureStored` or
`PictureFails`, `ReadPointer`, then `AppendDone` or `CreateDone`. `CreateDone`
writes the two pointers without a look at the error, as the code does; the server
may refuse a message (`RefuseMessage`) and, which nobody notices, a pointer
(`RefusePointer`).
`markMessagesRead` is two steps because it is two reads (`MarkReadPointer`,
`MarkReadMessages`). `Hear` is the value event that adds an observer to the
screen, `ShowMessage` the event that adds an item.

Assumed of Firebase: the writes of one client are applied in order (`net`); a
client sees its own writes at once; an observed value is cached and later reads
of it are answered from the cache; an event is raised when the value changes.
`Killed` drops what is in memory and any suffix of the writes under way.

A locally set `isRead` is visible only in the conversation list and is not part
of the chat screen's state. A message that is refused disappears from its
sender's cache; the screen that already showed it keeps the item (the app
observes `childAdded` only), which is what `shown` does. `refused` is a history
variable: the pointers a write of which was refused.

`CloseChat` lets a screen go or keeps it. In the code `ChatVC.swift:69` captures
the screen strongly, so that its observers go on; what a closed screen goes on to
collect nobody sees, and a screen that is opened again is a new one.

### PinAuth

The keychain is a record of items, each keychain write is a step, and `call`
is the call in progress with the write that comes next. `Killed` and
`KeychainError` may come between any two writes. A phrase stands for the seed
and the master public key derived from it. `tries`, `tried`, `lockedAt` and
`cutShort` are history variables that only the properties read; `born` also
tells which phrases exist, so that only those can be recovered.

Assumed: a keychain write is atomic and durable; calls do not overlap, because
the app makes them from the screen that is up; the clock does not run backwards
(the code marks its use of the device's clock with a TODO).

### Wallet and BlockChain

`wallet` is `struct BRWalletStruct`: the list in its order, `allTx`, heights,
whether a time is stamped, `blockHeight` (`tip`), the number of addresses of
each chain, the fee rate and, in `ledger`, what `_BRWalletUpdateBalance`
computes. Each function of `BRWallet.c` that changes the wallet is an operator
from one record to the next; sizes, fees and limits are the real numbers, and
the insertion sort, the walk from the end of the list and the recursion over
dependents are the code's, because the properties depend on their order.

`BRWalletCreateTxForOutputs` drops a transaction that grows beyond `TX_MAX_SIZE`
and calls itself with a smaller amount (597-621): `Room` is the number of inputs
that fit, `TooLarge` says that it comes to one more, `Retry` is the amount of the
next call. The model pays one output, as the send screen does (a payment request may
have several), so that "remove last output" is a refusal. `Settled` makes two of these calls; from the second on the amounts differ
only by the rounding of the fee, and where that does not vanish the code calls
itself for ever, so that nothing is created. `Opens` is the check at the end of
`BRWalletNew` (285-288). `IsPostdated` leaves out locks by time (202) and the check
of the size of a signed transaction (192).

`BlockChain` composes it with the manager. The tree of blocks that exist is a
constant, `blocks` are the ones held, `Walk` follows `prevBlock` through them.
`_peerRelayedBlock` is one action per branch (`OrphanBlock`, `InvalidBlock`,
`ExtendChain`, `ExistingBlock`, `BlockAhead`, `ForkBlock`, `Reorganize`), each
with the verification, the freeing of old blocks, the save and the look for the
next orphan that belong to it; the orphan found waits in `next`, because the
lock is released before it is handled. `RelayTx`, `RequestTx`, `MarkVerified`
and `DropUnrelayed` are the callbacks about transactions, `CreateTransaction`
the user's (`Create` of the amount that is `Settled`), `LoadBloomFilter` and
`SetFeePerKb` the manager's, `Rescan` and
`Restart` the app's; `rows` and `saved` are the database.

`lostTrack` is a history variable: the manager moved `lastBlock` without telling
the wallet (a rescan, a restart further down, a fork whose join with the main
chain is no longer held). Properties that compare the wallet with the chain are
about the time before that.

Assumed: a peer delivers a block's transactions before the block counts
(`BRPeer.c` holds the block back until they came); forks are shorter than a
difficulty interval; which blocks have a wrong difficulty or contradict a
checkpoint is a constant; `peerHeight` stands for the height the relaying peer
reported when it connected. Orphans are kept, here and in `ChainSync`; the code
ignores one that is older than a week (`BRPeerManager.c:1293`), which is as if it
had not been relayed.

### Publish and Broadcast

`Broadcast` is the promise to the caller of `BRPeerManagerPublishTx`: each call is
answered once; an error means that no node was sent the transaction and none will
be, so that the user may pay again; success means that a node asked for it, or said
it has it (`Accept`). That is all it means: the transaction is sent after that
(`Send`), or not at all.

`Publish` keeps the publish list with its callbacks, the wallet as far as it
matters (`registered`, `invalid`, `confirmed`), a status and a timer for each
peer, and what was announced to it. A callback of a peer thread runs under the
lock and is one step. Where the code releases the lock there are two:
`PublishTx` and `PublishCheck` (the question whether the network is reachable),
`Rescan` and `RescanConnect`, `Disconnect` and `DisconnectReturns`,
`Disconnected` and `ThreadConnect`, and the call of the callback itself
(`Answer`). `_peerRequestedTx` takes the callback and registers the transaction
(`RequestedTx`), calls back after it has released the lock (`BRPeerManager.c:1558`),
and only then does the thread of the peer write to the socket (`SendTx`,
`BRPeer.c:552`), which another thread may have closed by now. `Busy` keeps that thread
from handling anything else before. `_peerConnected` is `ConnectedRefused`, `ConnectedKept` and
`ConnectedChosen`; a thread ends by `Ended` (its socket was closed), `TimedOut`
(the scheduled disconnect) or `Failed`. `Fate` maps this state to `Broadcast`.

Left out: which peers relayed what, the address book, DNS threads, errors in
the creation of sockets, and heights (a peer has more blocks than we, or not).
A transaction that nobody has is dropped by `DropUnrelayed`; a conflicting one
arrives by `Conflict`. A node that says it has a transaction nobody was sent is a
fault (`HasTx`); relaying and confirming need the transaction itself. Left
out is a transaction of `TX_MAX_SIZE` or more, which is answered with `notfound` after
the callback (`BRPeer.c:542`): its caller is told the same as when the socket was closed.

`Connect` is one step, though `BRPeerManagerConnect` releases the lock to call
`syncStarted` (1709-1711) and while it looks up the addresses of peers (789-793):
splitting it makes the run ten times as large (3.3 million states), too many for
its liveness property. `DisconnectReturns` waits for the peers and not for the DNS
threads (`dnsThreadCount`, 1792), which end by themselves.

### ChainSync

One branch, one download peer, messages in order in both directions. The node
(external) serves requests with the filter it has at that moment, and adds
matching outputs to it (`BLOOM_UPDATE_ALL`). The actions of the client are the
handlers of `inv`, `merkleblock`, `tx` and `pong`; the pongs are answered in the
order of the pings, and the head of `peer.pongs` says which of
`_updateFilterPingDone`, `_updateFilterLoadDone` and `_updateFilterRerequestDone`
runs. `needsUpdate` stands for the two flags that change together
(`PEER_FLAG_NEEDSUPDATE` and `needsFilterUpdate`). Addresses are numbered in the
order in which the wallet hands them out.

Left out: matches by accident, except that the false positive rate may be found
too high (`degraded`); the download of headers before the first key's time; the
checks of non-standard `inv` messages; `notfound`; the limit of a `getdata`. An
announced transaction's `inv`, `getdata` and `tx` are one step, and a
merkleblock is followed by its transactions.

## 3. Runs

| Run | Instance | Checks |
|---|---|---|
| `kv_safety` | 2 keys, 2 values, 1 permit, another device that writes and deletes, `syncImmediately` on and off, server clock 1 ahead, 3 time steps, 3 events | `RecordedVersionIsTrue`, `SuccessMeansInSync`, `TasksOnlyWhileSyncing`, `TasksKeepEdits` |
| `kv_live` | 1 key, damaged bytes, `syncImmediately` on and off, 3 events, fair | `SyncEnds`, `EventuallyInSync` |
| `kv_last_write` | 1 key, 2 values, 4 events | violation of `NewerRemoteIsNotOverwritten` |
| `messenger` | 2 users, 2 messages, texts and photos, 2 turns, 1 read mark, 1 fault, fair | `TypeOK`, `PointersAgree`, `ReadOnlyByRecipient`, `ShownOnce`, `SettledStays`, `SentIsShown`, `SendsEnd` |
| `pin_life` | 2 pins, an old and a new phrase, lock after 1, wipe after 3, 1 fault, fair | `KeyHasPhrase`, `CreationTimeIsTheWallets`, `OwnerGetsIn` |
| `pin_wipe` | 4 pins, lock after 2, wipe after 4, 6 ticks, 1 fault | `NoEarlyWipe`, `LocksSatOut`, `CountsUniquePins` |
| `wallet` | 3 received transactions, 1 created, 4 blocks on 2 branches, 2 fee rates, 3 amounts, room for 2 inputs, 1 removal | `BalanceIsUnspentSum`, `UnconfirmedSpendOnce`, `MaxIsSendable`, `LockedIsPending`, `CreatedIsSound` |
| `chain` | 7 blocks on 2 branches, one invalid, interval 2, 1 transaction, 1 rescan, 1 restart | `TypeOK`, `HeightsMatchChain`, `FollowsLongest`, `NoForgottenOrphan`, `IntervalHeld`, `ForkHasJoin`, `NeverShorter` |
| `chain_reorg` | 6 blocks on 2 branches, 2 transactions | violation of `ReorgUnconfirms` |
| `publish` | 1 transaction, 2 peers, 2 failures allowed, one trouble of any kind, fair | `OneAnswer`, `DownloadPeerIsHeld`, `AnswersAreTrue` (refinement of `Broadcast`), `EveryCallAnswered` |
| `publish_disconnect` | the same, the trouble being the app's disconnect | violation of `DisconnectEnds` |
| `sync` | 3 chains of 3 blocks with 4 transactions, gap 1, 1 fault, 1 rebuilt filter, fair | `NoMissedTx`, `FilterComesBack`, `NextAddressesWatched`, `SyncEnds`, `OrphansFindParents` |

A run is repeated with `tlc -config <cfg> <MC module>`.

### Bounds, and why they suffice

* `MaxEvents` counts edits, writes of other devices, failures, restarts and
  wipes. Three of them allow, in any order: our edit, the other device's edit
  and a failure or restart between any two steps of the sync that has to bring
  them together. Server steps and the steps of a sync are not bounded.
* `MaxTime = 2` gives "earlier", "equal" and "later" for the comparison of
  times, `Second = 2` a `HEAD` answer that is cut down, and `Skew = 1` (with
  `MaxTime = 3`) a server clock that is ahead. `kv_live` keeps `Skew = 0`: the
  model's clock stops at `MaxTime`, so that bytes which cannot be decrypted and
  carry a later time would be fetched again for ever, where a real clock
  overtakes them. One permit for two keys makes one task wait for the other;
  ten keys for ten permits would add nothing.
* In Messenger two messages are the smallest race for a location. The two users
  are one pair: that no conversation leads to a third person (`OnePairPerLocation`)
  is not checked but proved, for any number of people, and so are `SettledStays`,
  `ReadOnlyByRecipient` and `ShownOnce`. `PointersAgree` and `SentIsShown` except what
  the code gets wrong: a race of two first messages (`Split`) and a first message
  of which a write was lost (`HalfMade`). `MaxTurns` bounds screens opened and closed,
  `MaxMarks` the `markMessagesRead` calls, `MaxFaults` refusals, lost pictures
  and kills. Deadlock is not checked there, because turns and messages run out.
* The limits 3 and 8 and the factor 6 of the pin are constants; the instances
  use smaller ones with the same order, so that the lock and the wipe are both
  reached. `LastTry` makes everybody but the owner stop, without which the
  owner could be kept out by others for ever. Deadlock is not checked, because
  the clock stops.
* `wallet` has one transaction of each kind the ledger tells apart: one that is
  spent, its spender, which is locked and pays an address of the wallet, one
  that pays beyond the gap, and one of the wallet's own that competes with the
  spender; each may be listed before what it spends. Two blocks on one branch
  against one on the other make the shortest re-organisation. `TxMaxSize` is 374
  bytes there, the size of a transaction with two inputs and two outputs, so that a wallet
  with three unspent outputs has more than fit; of the three amounts one needs one
  output, one two, and one more than there is room for.
* `chain` uses the interval 2, so that five blocks contain two transitions, a
  fork across one and a freed block. It has a single transaction, because with
  two the re-organisation of section 4 breaks `HeightsMatchChain`. One rescan
  and one restart may happen at any point. Deadlock is not checked: rescans,
  restarts and transactions run out.
* `publish` has one transaction, because the callbacks of different transactions
  meet only in the list and in the timers; that this is enough for safety is
  what the proofs show, for any number. `MaxFailures = 2` makes the second
  failure the last one, and one trouble (fault, lost network, disconnect,
  rescan, new block, double spend) may happen in any state.
* `sync` has a payment on an address the first filter lacks, in the same block
  as, or a block after, the one that outgrows it, and a transaction that only
  spends. `Announced` are transactions in the order of the addresses; a payment
  that skips all the spare addresses (a hundred in the code) is not tried: between
  `_updateFilterPingDone` and `_updateFilterLoadDone` it would drop the filter
  while an update is marked as under way, and none would begin.

### Fairness, and why the code justifies it

* Store: the blocks on a dispatch queue run (`Local`, `KeysArrive`,
  `FinishSync`); URLSession ends every request with an answer or an error, and
  errors are bounded events, so in the end the server answers (`Serve`,
  `ServeKeys`); a transaction that throws is one of these events; the app calls `syncAllKeys` again and again
  (`ApplicationController.swift`, at every start, foreground and reconnect).
  Edits, faults, restarts and late requests are not fair.
* Messenger: Firebase retries writes until it is connected, delivers events to
  observers and runs callbacks (`Apply`, `Observe`, `Client`). What users do is
  not fair, and nor is `markMessagesRead`, which is bounded.
* PinAuth: a call that was made goes on, time passes, the owner opens the app
  and enters the right pin again and again.
* Publish: threads go on, so that a scheduled disconnect happens, what was asked for
  is sent and a closed socket's thread ends; the app connects again (at every foreground and when the
  network is back, `ApplicationController.swift:104-137`) and finds peers; a
  network that was lost returns. Faults are bounded. A peer that was offered a
  transaction need not ask for it, and need not relay it. `EveryCallAnswered`
  is stated for behaviours in which no disconnect waits for ever.
* ChainSync: the node answers, the thread handles what it receives, the manager
  reconnects. The timeout comes only when nothing is under way: every block and
  transaction puts it off. Mining, announcements and failures are not fair.

## 4. What the violations show

* **`kv_last_write`.** `_syncKey` promises "if their last-modified date is newer
  than ours, overwrite ours" (`KV/BRReplicatedKVStore.swift:570`). After a
  successful put `setRemoteVersion` appends a row with the current time (408).
  When another device writes the key after our put and before that moment, its
  version is older than our bookkeeping row, and the next sync overwrites it
  with our older value.
* **`chain_reorg`.** `BRWalletSetTxUnconfirmedAfter` "marks all transactions
  confirmed after blockHeight as unconfirmed" (`BRWallet.c:966`). It stops at the
  first transaction from the end of the list that is not above the height, and
  `BRWalletUpdateTransactions` changes heights without sorting again. Two
  transactions that were registered in one order and confirmed in the other are
  enough: after a re-organisation the earlier one keeps the height of a block
  that is no longer on the chain.
* **`publish_disconnect`.** `BRPeerManagerDisconnect` sets the failure count to
  its limit to "prevent futher automatic reconnect attempts"
  (`BRPeerManager.c:1784`) and waits for all peers to be gone.
  `BRPeerManagerConnect` takes a count at the limit for a manual retry and resets
  it (1704). A peer's thread that had decided to reconnect before the disconnect
  dials again, and the app's queue waits for a connection that nobody closes. A
  peer that waits for the network keeps the queue waiting in the same way.

Also seen, without a run of its own: after a restart, or an attempt that was cut
short, the same wrong pin counts again, though `WH/WalletManager+Auth.swift:143`
speaks of unique attempts (`CountsUniquePins` bounds this by the number of
faults); a creation that is cut short leaves its creation time to the next
wallet (`CreationTimeIsTheWallets` excludes it); marking a transaction verified
passes `TX_UNCONFIRMED` for the height of the chain (`BRWallet.c:943`), so that
locks by height count as passed until the next re-organisation; a `syncKey` whose
reading transaction throws keeps `syncRunning` set until the app restarts
(`SyncEnds` excepts it); a refused write of a pointer is taken back by its writer,
and a message may then appear twice (`ShownOnce` excepts it); two first messages
that cross can leave the pointers of a pair different for good (`PointersAgree`
excepts it); success is called back before a transaction is sent, which then may
not happen, though it stays in the list that every new peer is offered
(`OneAnswer`), and an `inv` for it counts as success whoever sends it; the maximum
of `BRWallet.c:1126` takes no account of `TX_MAX_SIZE`: above that the amount that is
sent is not the one asked for, mostly less but, through the fee of the reduced
amount, also more (outputs of 100000, 20000 and 6000 with room for two: asked for
99900, it pays 101300), or, when the rounding never settles, as with an output of
6050 in place of 6000, the function calls itself for ever; `BRWalletNew` gives no
wallet when the first saved transaction is not recognised; inputs of a
pending transaction stay in the balance until the next counted transaction; the
comments of `set` and `del` (238, 282) call
`syncImmediately` true by default, line 105 sets it to false; `BRKVStorePlugin`
answers a
deleted key with 410 where its comment says 404; the schema comment
(171) speaks of the server's time, the code stores the device's.

## 5. What is proved

All theorems hold for every value of the constants that satisfies the named
`ASSUME` of the component's module; TLC evaluates the assumptions in every run.
Most say only what type a constant has. The others: a push id is none of the
words a `Messenger` record uses for its states; powers of the factor 6 of the pin
locks are numbers (of `^` the provers know nothing); a received transaction has
inputs, none of them its own output, and outputs with an amount and an address;
blocks are lower than `TX_UNCONFIRMED`.

**Store** (`ReplicatedKVStoreProofs`). `RecordedVersionIsTrue` is not inductive: the
record is made a round trip after the value was read. `RecordInv` adds
`TaskIsTrue`, what each kind of task knows at each step: the row it read still
says what it sent, the version it was told exists on the server and says what
the task holds. The argument is that both histories only grow (`rows` and
`hist` are appended to), so that what a task knows stays true, and that the
version check of `setRemoteVersion` makes the row it copies the row the task
read. Results: `TypeCorrect`, `RecordsAreTrue`, `EditsAreKept`, and with
`SyncInv` (flag, phase and tasks go together) `OneSyncAtATime`.

`SuccessMeansInSync` needs to know of each task,
at each of its steps, that what it has seen is still current for a key nobody
else touched: `CurrentInv` says so by `pc`, that the listing is current until it
is handed out, and that a task which failed has left the counter above 0. Result:
`SuccessIsAgreement`.

**Messenger** (`MessengerProofs`). `OnePairPerLocation` says that pointers, caches and
stored messages stay within the conversation of two people; it needs a third one to
be wrong, and is proved for any number. `PairInv` extends it by the
same statement about sends (`SendInv`) and about writes under way (`WriteInv`);
a message, once sent, keeps its sender and addressee (`Keeps`), so that what a
location belongs to never changes. Results: `ConversationsArePrivate`, and
`ConversationsStay` for the action property `SettledStays`: where both pointers
agree and nothing older is under way, every read of the pointer finds it, so
that nothing is created, and pointer writes that arrive are about other pairs.

The screens (`MessengerScreenProofs`). `PlaceInv` ties a stored message to the
location of its send and a screen and its marks to its two people, which gives
`OnlyReceiversMarkRead`. `ShownOnce` is the hard one, because observers pile up:
two of them show a message twice only if a screen's pointer comes back to a
location it had before. `FeedInv` says why it cannot. A pointer write under way
is the only one of its kind for its location; it names a location whose first
message is stored, and one that, except for the writer's own cache, neither the
pointer nor the observers of that screen have seen; writes of one client arrive
in order, so that the last one known is the cached one. A pointer whose write was
refused is excepted throughout: its writer goes back to what it had. `ItemInv` then ties an
item to the observer of its message's location. Results:
`MessengerTypeCorrect`, `OnlyReceiversMarkRead`, `MessagesShownOnce`.

**Keychain** (`PinAuthProofs`). `PinInv` adds `CallInv`: a key is written only
while its phrase is in the keychain, and a wipe that has come to the phrase has
removed the key and the seed; and the count in the keychain never exceeds the
attempts since the last right pin. Results: `PinTypeCorrect`,
`KeysHavePhrases`, `WipesAreEarned`. Three more invariants follow the writes of a
call one at a time. `TimeInv`: while nothing is cut short there is a creation
time only with a wallet or inside the call that makes one (`CreationTimesFit`).
`CountInv`: the count is at most the pins tried once for each fault and those
this process has counted (`CountsArePins`). `LockInv`: at each step of an attempt
the time of the last failure, or the call's own time, accounts for all the locks
so far (`LocksAreSatOut`); the sum of the locks is a recursive function, shown to
satisfy its equation first.

**Block chain** (`BlockChainProofs`). `ChainInv` joins the types of what the
manager holds, `HeldIsLower` (no block held is higher than the last one),
`NoForgottenOrphan` and the type of the budget. The two middle parts need each
other: a block that is added is at most one higher than the chain, or else the
chain moves to it, and an orphan that would be higher is taken up in the very
step in which its previous block is added. Results: `ChainInvariant`,
`ChainIsLongest`, `NoOrphanLeft` and, for the action property, `ChainGrows`.
They hold for any tree of blocks, any interval and any number of rescans and
restarts.

`IntervalHeld` is not inductive, because a fork that is held may become the main
chain: `HeldInv` says that every branch that is held and has come to the present
interval is held back to where the interval begins. The proof that freeing blocks
at a transition keeps this (`KeepsInterval`) rests on `BranchHeights` and
`BranchIsLine` (a block has one ancestor at each height below it) and on
`IntervalFacts` about division. Result: `PresentIntervalHeld`.

`ForkHasJoin` says that a fork that outgrows the main chain meets it at a block
to mark transactions from. `RootInv` is its strengthening: a held block whose
previous block is not held lies a whole interval below the chain, or is where a
restart stopped loading. Walking back along a fork therefore comes to the main
chain before it comes to a block that was freed, provided that forks are not
longer than an interval (`ForkIsHeld`, `JoinMeets`). That is the hypothesis
`ShortForks` of the theorem, for a longer fork can leave the main chain where
blocks have been freed; `MCBlockChain` states the same of its trees in an
`ASSUME`. Result: `ForksMeet`, for any tree with short forks.

**Wallet** (`WalletProofs`), for any wallet and any list of transactions.
`_BRWalletUpdateBalance` is a fold over the list; `Books` is its invariant after
the first `n` transactions: the unspent outputs are those of counted transactions
that no transaction so far spends, except invalid ones and those pending ones
that came after the last counted one; each is there once; the balance is their
sum and the difference of the totals; and of two that spend the same output one
is confirmed or invalid (`Priority`). Results: `BalanceComputed`,
`DoubleSpendRejected`. `MaximumCanBeSent` is arithmetic over the selection of the
outputs, with the real fees, sizes and rounding, for wallets whose unspent outputs all
fit into a transaction: then the selection is not cut off (`RoomFacts`), and the
outputs pay for amount and fee. Beyond that it does not hold (section 4).
`CreatedSpendsRight` holds with and without room: whatever amount the calls have
`Settled` on (`SettledFacts`) is created like any other. It adds
that the outputs selected are distinct, that the remainder is change or below
the limit, and that `_BRWalletUnusedAddrs` leaves an unused address.

Their hypotheses are named: `IsWallet` (the list has known transactions, each
once), `BodiesOK` (outputs are sequences of amounts), `IsFunded` (the balance is
the sum of the unspent outputs), `AddrsOK` (counts are numbers, used addresses
are finite in number). `WalletInv` in `BlockChainProofs` says that all of them,
`BalanceRight` and `SpendOnce` hold of the wallet of a reachable state. The
point is the steps that leave `_BRWalletUpdateBalance` out: confirming
transactions, when none is pending or invalid, generating addresses and setting
the fee rate. `UpdatedIsRight` shows that what they change the ledger does not
depend on: a height can only end a double spend between transactions that
count. Results: `BalanceAlwaysRight`, `NoDoubleSpend`, `MaximumAlwaysSendable`,
`CreatedAlwaysSound`. `LockedAlwaysPending` adds `TipInv`: the height the wallet
compares locks with is not above the chain (`JoinIsBlock`: a reorganisation
resets it to a height not above the new branch). `LockedIsPending` speaks of the
time before a rescan, because a rescan leaves that height ahead of the chain.

These five theorems have the form `Spec /\ []ListedIsKnown => []...`, and so has
`ListsAgree`: the wallet and the database list the same transactions, each once
(`SameLists`; the lemma `ListsAlways` gives the other types too). `ListedIsKnown`
(what is listed is known) is a hypothesis because it is not true for all constants: after a restart,
and before a filter has generated the spare addresses, a listed transaction may
pay only an address that has not been generated again, and
`BRWalletUpdateTransactions` frees a confirmed transaction it finds no address
for. A removal may have the same effect, because it looks for dependents only as
far back as an older transaction, and leaves listed what spends the removed one
from before that. In the app a filter is loaded before blocks are asked for; the model,
which does not order the two, shows it only with a gap in the addresses that its
instances do not have. The hypothesis is part of `TypeOK`, which the run `chain`
checks; on the instance of `wallet`, whose properties these theorems state, TLC
finds it true as well (125 242 states).

Before the first restart and the first removal nothing of the kind can happen,
and `FirstSessionRight` has no hypothesis and concludes `TypeOK` with all of it:
addresses only become more, and
`KnownInv` says that what is listed is known and the wallet's, so that no block
frees it.

`HeightsMatchChain` is proved for that time too, until the first rescan
(`Undisturbed`). `HeightInv` says of every listed transaction that it has the
height of the block of the main chain that holds it (`RightHeight`), and needs
three companions: a transaction is heard of before the blocks that hold it
(`HeardInv`), what the wallet created is its own, so that no block frees it before
it is registered (`OwnInv`), and what is not known has no height. The step that
matters is the reorganisation: what is confirmed above the join becomes unconfirmed
(`ResetHeights`), and the walk back from the new block gives each block of the new
branch its turn (`WalkHasBranch`, `ConfirmHeights`). Two hypotheses remain.
`MinedOnce` is about the tree: a branch holds a transaction once, and the checkpoint
is older than the wallet; `MCBlockChain` states it of its trees in an `ASSUME`.
`InOrder` says that the list is in the order of heights. It is what
`BRWalletSetTxUnconfirmedAfter` takes for granted when it looks from the end of the
list for the last transaction that is not above the join, and what the run
`chain_reorg` shows not to hold always. So in that time a list that is out of order is
the only thing that makes heights wrong. Result: `HeightsFollow`.

The proofs found one corner of the model wrong: change goes to the first unused
address after one more was generated (`BRWallet.c:322-380`, `646`), which
`CreatedBody` says now; it is the address at the end of the chain when the last
one is used.

**Publishing** (`PublishProofs`). `OneAnswer` is inductive together with
`TypeOK`: a transaction with a waiting callback is unknown to the wallet and the
network and no thread is about to send it, so that an answer decided later cannot
contradict one given before; and a success that was not sent is still in the list.
From it follows
`Refinement`: with the mapping `Fate` every step of `Publish` is a step of
`Broadcast` or changes nothing of it; a step that cancels several callbacks is
one `Fail`. Results: `TypeCorrect`, `AnswerOnce`, `DownloadPeerHeld`,
`Refinement`, for any transactions with any dependencies, any peers and limits.

**Download** (`ChainSyncProofs`). A filter that the wallet has outgrown is dropped,
and until another is loaded every block is ignored. `FilterInv` follows the three
round trips of its replacement. `Flow` says, for each queue of callbacks that can
be there, how many pings and pongs are under way, and what may be behind them:
behind the first ping no block is asked for, because `needsUpdate` is set, so that
when its pong arrives none is under way in either direction, and none is until the
second pong. That is why no transaction of a block can outgrow the filter that is
being loaded. `Fits` bounds the wallet's addresses by the filter in use, and
`SentIs` says that this is the one the peer was sent last. Results:
`FilterReturns` (`FilterComesBack`) and `NextWatched` (`NextAddressesWatched`), for
any chains, payments, batches and faults.

Both have the hypothesis `[][~OutgrownAgain]_vars`. A transaction that is announced
ahead of its block may arrive between the two pongs; if it alone outgrows the new
filter, `_peerRelayedTx` drops that one too, `_BRPeerManagerUpdateFilter` does
nothing, because an update is marked as under way (`BRPeerManager.c`), and
`_updateFilterLoadDone` ends the update without a filter. It takes a payment that
skips all the spare addresses, a hundred in the code; TLC shows it at once in an
instance without spare addresses. `FilterRight` replaces the condition on the
steps by one on the constants, which the instance of `sync` satisfies: what is
announced pays one of the addresses that every filter holds.

**How recursion is reasoned about.** The provers cannot use the library's
induction theorems, which take an operator. Where a proof needs induction it
takes the smallest element of the set of counterexamples instead
(`SmallestNumber`, from `WFMin`, and `CountUp`, `LargestNumber`, `TreeInduction`). A recursive function or a
fold is a `CHOOSE`, which says nothing until a function with that equation is
shown to exist: `StepsExist` for folds over a wallet, `FlattenType` for the blocks that are put
together in an answer, `WalkExists` for the walk
back along a fork (the places where it can end are the same one step on),
`PendingExists` for pending transactions (a least set), `BranchEquation` for
the ancestors of a block.

**Only model-checked.**

* Liveness (`SyncEnds`, `EventuallyInSync`, `SentIsShown`, `SendsEnd`,
  `OwnerGetsIn`, `EveryCallAnswered`, and `SyncEnds` and `OrphansFindParents` of
  `ChainSync`): out of the prover's reach.
* `HeightsMatchChain` after a rescan, a restart or a removal: the blocks that are
  downloaded again meet heights the wallet has kept, and a transaction that comes
  back may be listed apart from the ones of its height. The run `chain`
  checks it with one transaction, the case in which the list is always in order.
* `NoMissedTx` of `ChainSync`: it depends on the instance too (a payment that skips
  the spare addresses, section 3), and relates what the wallet has to every
  message under way and to what each will make of the peer's filter.

## 6. Plan

1. Store, messenger and keychain, with their first theorems (done).
2. `Wallet` and `BlockChain` (done); `Publish` with its refinement of
   `Broadcast` (done); `ChainSync` (done).
3. Proofs: the screens, the success of a sync, the keychain, the interval that is
   held, the joins of forks, the lists, the ledger and the heights of the wallet, and
   the filter (done); next, `HeightsMatchChain` through rescans and restarts, and
   `NoMissedTx`.
4. `ChainSync` with two peers, where the filter that is kept may be that of
   another peer than the one that relays; the conversation list as an extension
   of `Messenger`.
5. `Sender` and `WalletCoordinator`: background tasks and wiping, composed with
   `PinAuth`; `BRAPIClient`'s token requests.

## 7. Not modelled, and why

* Peers: the address book, DNS threads, the counting of misbehaviour, relay
  counts, socket errors, the encoding of messages, difficulty and merkle proofs;
  the life of objects in memory (values here). Payments to several outputs
  (payment requests), the size check of signed transactions and locks by wall-clock time.
* The conversation list: it reads what `Messenger` writes and writes nothing;
  its one hazard is listed in `PROJECT.json`.
* Touch ID, the spend limit, the API key and `UserDefaults`: they take no part
  in the properties of `PinAuth`.
* Encryption, key derivation and encodings: pure functions over large words;
  where a property depends on one (`Opened`) it is modelled by its cases.
* Screens, the Redux store and the shop: state without concurrency or failure
  of its own.
* Pods, secp256k1, unbound, nettle, sqlite3 and bzip2: third-party code,
  modelled only by what the app asks of it. They are by far the larger part of the
  repository's lines.
