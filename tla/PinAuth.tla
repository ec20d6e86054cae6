------------------------------- MODULE PinAuth -------------------------------
(***************************************************************************)
(* The wallet's keychain and its pin (WalletManager+Auth.swift): creating, *)
(* recovering, upgrading and wiping a wallet, and authenticating with a    *)
(* pin that locks the wallet for longer and longer and wipes it in the end.*)
(*                                                                         *)
(* Every keychain write is a step of its own.  The process may be killed   *)
(* between two of them, and each of them may throw, which ends the call    *)
(* that made it.  Calls do not overlap: the app makes them one at a time,  *)
(* from the screen that is up.                                             *)
(*                                                                         *)
(* A phrase stands for the seed and for the master public key that are     *)
(* derived from it.  A call reads the clock once, when it starts           *)
(* (secureTime).  A creationTime of 0 stands for a missing item, for which *)
(* init takes BIP39CreationTime, before which no phrase exists.            *)
(***************************************************************************)
EXTENDS Naturals, Sequences, FiniteSets

CONSTANTS
  Pins,
  Phrases,
  OldPhrases,  \* phrases users wrote down before this story starts
  Nil,         \* no such keychain item
  LockAfter,   \* failures after which the wallet is locked (3)
  WipeAfter,   \* failures after which it is wiped (8)
  Base,        \* each lock is Base times longer than the one before (6)
  Minute,      \* the first lock
  MaxTime,     \* bound on the clock
  LastTry,     \* bound on the time at which anybody but the owner acts
  MaxFaults    \* bound on kills and keychain errors

ASSUME PinAssumption ==
  /\ Nil \notin Pins \cup Phrases
  /\ OldPhrases \subseteq Phrases
  /\ LockAfter \in Nat /\ WipeAfter \in Nat /\ LockAfter < WipeAfter
  /\ Base \in Nat \ {0} /\ Minute \in Nat \ {0}
  /\ MaxTime \in Nat /\ LastTry \in Nat /\ MaxFaults \in Nat
  /\ \A n \in 0..WipeAfter : Base ^ n \in Nat  \* of ^ the provers know nothing

VARIABLES
  keychain,    \* the items of the keychain: it outlives the process
  running,     \* the process runs and has a WalletManager
  failedPins,  \* the static list failedPins: it does not
  didInit,     \* didInitWallet
  memKey,      \* the instance's masterPubKey
  call,        \* the call in progress
  now,         \* the clock
  faults,      \* kills and keychain errors so far
  born,        \* history: when a phrase was made (old phrases: 0)
  tries,       \* history: pins counted since a pin was last right
  tried,       \* history: which pins those were
  lockedAt,    \* history: when the wallet was first locked since then
  cutShort     \* history: an attempt or a wipe since then was cut short

vars == <<keychain, running, failedPins, didInit, memKey, call, now, faults, born, tries,
          tried, lockedAt, cutShort>>

Keychain == [pin : Pins \cup {Nil}, pinFailCount : Nat, pinFailTime : Nat,
             masterPubKey : Phrases \cup {Nil}, seed : Phrases \cup {Nil},
             mnemonic : Phrases \cup {Nil}, creationTime : Nat]

\* The keychain write that comes next in the call in progress.
Steps == {"idle", "count", "check", "stamp", "clearTime", "clearCount", "putPin",
          "creation", "mnemonic", "key", "dropSeed", "wipe"}
Ops == {"none", "login", "changePin", "forceSetPin", "recover", "create", "upgrade",
        "wipeWallet"}
Call == [op : Ops, pc : Steps, pin : Pins \cup {Nil}, newPin : Pins \cup {Nil},
         phrase : Phrases \cup {Nil}, secureTime : Nat, at : Nat]

\* The type of every variable.
TypeOK ==
  /\ keychain \in Keychain
  /\ running \in BOOLEAN /\ didInit \in BOOLEAN /\ cutShort \in BOOLEAN
  /\ failedPins \in SUBSET Pins
  /\ memKey \in Phrases \cup {Nil}
  /\ call \in Call
  /\ now \in Nat /\ faults \in 0..MaxFaults
  /\ born \in [Phrases -> Nat]
  /\ tries \in Nat /\ tried \in SUBSET Pins /\ lockedAt \in Nat

\* No items; a missing count or time reads as 0.
EmptyKeychain == [pin |-> Nil, pinFailCount |-> 0, pinFailTime |-> 0, masterPubKey |-> Nil,
                  seed |-> Nil, mnemonic |-> Nil, creationTime |-> 0]

\* What a version of the app with the old keychain scheme left.
OldKeychain(p, phrase) ==
  [EmptyKeychain EXCEPT !.pin = p, !.seed = phrase, !.mnemonic = phrase]

NoCall == [op |-> "none", pc |-> "idle", pin |-> Nil, newPin |-> Nil, phrase |-> Nil,
           secureTime |-> 0, at |-> 1]

Init ==
  /\ keychain \in {EmptyKeychain} \cup {OldKeychain(p, f) : p \in Pins, f \in OldPhrases}
  /\ running = FALSE
  /\ failedPins = {}
  /\ didInit = FALSE
  /\ memKey = Nil
  /\ call = NoCall
  /\ now = 1
  /\ faults = 0
  /\ born = [f \in Phrases |-> 0]
  /\ tries = 0
  /\ tried = {}
  /\ lockedAt = 0
  /\ cutShort = FALSE

Memory == <<running, failedPins, didInit, memKey>>
History == <<born, tries, tried, lockedAt, cutShort>>

Put(item, value) == keychain' = [keychain EXCEPT ![item] = value]
Goto(pc) == call' = [call EXCEPT !.pc = pc]
Return == call' = NoCall
Idle == running /\ call = NoCall
Begin(op, pc, p, new, f) ==
  call' = [op |-> op, pc |-> pc, pin |-> p, newPin |-> new, phrase |-> f,
           secureTime |-> now, at |-> 1]
Fault == faults < MaxFaults /\ faults' = faults + 1

noWallet == ~didInit /\ keychain.masterPubKey = Nil /\ keychain.seed = Nil

----------------------------------------------------------------------------
(* authenticate(pin:) and what calls it. *)

Lock(failCount) == Minute * Base ^ (failCount - LockAfter)

\* Without the lock.
LockedNever == FALSE

\* The lock never ends.
LockedForGood == keychain.pinFailCount >= LockAfter

\* walletDisabledUntil is still to come.
Locked ==
  /\ keychain.pinFailCount >= LockAfter
  /\ now < keychain.pinFailTime + Lock(keychain.pinFailCount)

\* authenticate, also for signTransaction and seedPhrase (login), or as the first
\* part of changePin.  While the wallet is locked it returns false at once.
Attempt(op, p, new) ==
  /\ Idle
  /\ ~Locked
  /\ Begin(op, "count", p, new, Nil)
  /\ UNCHANGED <<keychain, Memory, now, faults, History>>

\* The same pin counts every time.
CountEach ==
  /\ call.pc = "count"
  /\ Put("pinFailCount", keychain.pinFailCount + 1)
  /\ tries' = tries + 1
  /\ tried' = tried \cup {call.pin}
  /\ lockedAt' = IF keychain.pinFailCount + 1 = LockAfter THEN call.secureTime ELSE lockedAt
  /\ Goto("check")
  /\ UNCHANGED <<Memory, now, faults, born, cutShort>>

\* Attempts are counted before they are checked, each pin once per process.
Count ==
  /\ call.pc = "count"
  /\ IF call.pin \in failedPins
     THEN UNCHANGED <<keychain, tries, tried, lockedAt>>
     ELSE /\ Put("pinFailCount", keychain.pinFailCount + 1)
          /\ tries' = tries + 1
          /\ tried' = tried \cup {call.pin}
          /\ lockedAt' = IF keychain.pinFailCount + 1 = LockAfter THEN call.secureTime
                                                                ELSE lockedAt
  /\ Goto("check")
  /\ UNCHANGED <<Memory, now, faults, born, cutShort>>

\* wipeWallet clears what is in memory before it turns to the files and the keychain.
ClearMemory == didInit' = FALSE /\ memKey' = Nil

\* authenticationSuccess starts with the list.
Check ==
  /\ call.pc = "check"
  /\ \/ /\ call.pin = keychain.pin
        /\ failedPins' = {}
        /\ Goto("clearTime")
        /\ UNCHANGED <<didInit, memKey>>
     \/ /\ call.pin # keychain.pin /\ call.pin \in failedPins
        /\ Return
        /\ UNCHANGED <<failedPins, didInit, memKey>>
     \/ /\ call.pin # keychain.pin /\ call.pin \notin failedPins
        /\ failedPins' = failedPins \cup {call.pin}
        /\ IF keychain.pinFailCount >= WipeAfter
           THEN Goto("wipe") /\ ClearMemory
           ELSE Goto("stamp") /\ UNCHANGED <<didInit, memKey>>
  /\ UNCHANGED <<keychain, running, now, faults, History>>

Stamp ==
  /\ call.pc = "stamp"
  /\ IF call.secureTime > keychain.pinFailTime
     THEN Put("pinFailTime", call.secureTime) ELSE UNCHANGED keychain
  /\ Return
  /\ UNCHANGED <<Memory, now, faults, History>>

ClearTime ==
  /\ call.pc = "clearTime"
  /\ Put("pinFailTime", 0)
  /\ Goto("clearCount")
  /\ UNCHANGED <<Memory, now, faults, History>>

\* The count is left as it is.
ClearCountForgotten ==
  /\ call.pc = "clearCount"
  /\ IF call.op = "changePin" THEN Goto("putPin") ELSE Return
  /\ tries' = 0 /\ tried' = {} /\ lockedAt' = 0 /\ cutShort' = FALSE
  /\ UNCHANGED <<keychain, Memory, now, faults, born>>

\* The end of authenticationSuccess; changePin goes on.
ClearCount ==
  /\ call.pc = "clearCount"
  /\ Put("pinFailCount", 0)
  /\ IF call.op = "changePin" THEN Goto("putPin") ELSE Return
  /\ tries' = 0 /\ tried' = {} /\ lockedAt' = 0 /\ cutShort' = FALSE
  /\ UNCHANGED <<Memory, now, faults, born>>

\* changePin ends with the new pin, forceSetPin goes on with authenticationSuccess.
PutPin ==
  /\ call.pc = "putPin"
  /\ Put("pin", call.newPin)
  /\ IF call.op = "changePin"
     THEN Return /\ UNCHANGED failedPins
     ELSE Goto("clearTime") /\ failedPins' = {}
  /\ UNCHANGED <<running, didInit, memKey, now, faults, History>>

\* forceSetPin with the phrase of the wallet, or without one when there is no pin; a
\* pin that is set must be entered (Attempt).
ForceSetPin(new, f) ==
  /\ Idle
  /\ IF f = Nil THEN keychain.pin = Nil ELSE keychain.masterPubKey = f
  /\ Begin("forceSetPin", "putPin", Nil, new, f)
  /\ UNCHANGED <<keychain, Memory, now, faults, History>>

----------------------------------------------------------------------------
(* Making and removing a wallet. *)

\* setSeedPhrase with a phrase the user has.
Recover(f) ==
  /\ Idle /\ noWallet
  /\ f \in OldPhrases \/ born[f] > 0
  /\ Begin("recover", "mnemonic", Nil, Nil, f)
  /\ UNCHANGED <<keychain, Memory, now, faults, History>>

\* setRandomSeedPhrase: the creation time is written before there is a phrase.
Create(f) ==
  /\ Idle /\ noWallet
  /\ f \notin OldPhrases /\ born[f] = 0
  /\ Begin("create", "creation", Nil, Nil, f)
  /\ UNCHANGED <<keychain, Memory, now, faults, History>>

PutCreationTime ==
  /\ call.pc = "creation"
  /\ Put("creationTime", call.secureTime)
  /\ Goto("mnemonic")
  /\ UNCHANGED <<Memory, now, faults, History>>

\* The phrase, and then the key in memory.
PutMnemonic ==
  /\ call.pc = "mnemonic"
  /\ Put("mnemonic", call.phrase)
  /\ Goto("key")
  /\ memKey' = IF call.op = "upgrade" THEN memKey ELSE call.phrase
  /\ born' = IF call.op = "create" THEN [born EXCEPT ![call.phrase] = now] ELSE born
  /\ UNCHANGED <<running, failedPins, didInit, now, faults, tries, tried, lockedAt,
                 cutShort>>

PutMasterPubKey ==
  /\ call.pc = "key"
  /\ Put("masterPubKey", call.phrase)
  /\ IF call.op = "upgrade" THEN Goto("dropSeed") ELSE Return
  /\ UNCHANGED <<Memory, now, faults, History>>

\* wipeWallet("forceWipe"), which the user asks for.
WipeWallet ==
  /\ Idle
  /\ Begin("wipeWallet", "wipe", Nil, Nil, Nil)
  /\ ClearMemory
  /\ UNCHANGED <<keychain, running, failedPins, now, faults, History>>

\* The order that removes the phrase first.
WipeOrderPhraseFirst == <<"mnemonic", "creationTime", "pinFailTime", "pinFailCount", "pin",
                          "masterPubKey", "seed">>

\* The creation time is not removed.
WipeOrderKeepsTime == <<"pinFailTime", "pinFailCount", "pin", "masterPubKey", "seed",
                        "mnemonic">>

\* The order in which wipeWallet removes the items.
WipeOrder == <<"creationTime", "pinFailTime", "pinFailCount", "pin", "masterPubKey",
               "seed", "mnemonic">>

\* One item is removed.
WipeStep ==
  /\ call.pc = "wipe"
  /\ Put(WipeOrder[call.at], EmptyKeychain[WipeOrder[call.at]])
  /\ IF call.at = Len(WipeOrder) THEN Return ELSE call' = [call EXCEPT !.at = @ + 1]
  /\ IF WipeOrder[call.at] = "pinFailCount"
     THEN tries' = 0 /\ tried' = {} /\ lockedAt' = 0 /\ cutShort' = FALSE
     ELSE UNCHANGED <<tries, tried, lockedAt, cutShort>>
  /\ UNCHANGED <<Memory, now, faults, born>>

----------------------------------------------------------------------------
(* The process. *)

\* init: a keychain of the old scheme is upgraded first.
Launch ==
  /\ ~running /\ call = NoCall
  /\ IF keychain.seed # Nil
     THEN /\ Begin("upgrade", "mnemonic", Nil, Nil, keychain.mnemonic)
          /\ UNCHANGED Memory
     ELSE /\ running' = TRUE
          /\ memKey' = keychain.masterPubKey
          /\ didInit' = (keychain.masterPubKey # Nil)
          /\ UNCHANGED <<call, failedPins>>
  /\ UNCHANGED <<keychain, now, faults, History>>

\* The last write of the upgrade; init goes on with the key it finds.
DropSeed ==
  /\ call.pc = "dropSeed"
  /\ Put("seed", Nil)
  /\ Return
  /\ running' = TRUE
  /\ memKey' = keychain.masterPubKey
  /\ didInit' = (keychain.masterPubKey # Nil)
  /\ UNCHANGED <<failedPins, now, faults, History>>

\* The property wallet is read: it opens the wallet of the key in memory.
UseWallet ==
  /\ Idle /\ memKey # Nil /\ ~didInit
  /\ didInit' = TRUE
  /\ UNCHANGED <<keychain, running, failedPins, memKey, call, now, faults, History>>

\* Between counting an attempt and stamping its time, or before authenticationSuccess
\* or a wipe is through: the count and the time in the keychain may not fit together.
Midway == call.pc \in {"check", "stamp", "clearTime", "clearCount", "wipe"}

\* The keychain refuses the next access, or rmdb throws: the call is given up.
KeychainError ==
  /\ Fault
  /\ call # NoCall
  /\ Return
  /\ cutShort' = (cutShort \/ Midway)
  /\ UNCHANGED <<keychain, Memory, now, born, tries, tried, lockedAt>>

Killed ==
  /\ Fault
  /\ running \/ call # NoCall
  /\ running' = FALSE /\ failedPins' = {}
  /\ ClearMemory
  /\ Return
  /\ cutShort' = (cutShort \/ Midway)
  /\ UNCHANGED <<keychain, now, born, tries, tried, lockedAt>>

Tick ==
  /\ now < MaxTime
  /\ now' = now + 1
  /\ UNCHANGED <<keychain, Memory, call, faults, History>>

----------------------------------------------------------------------------

Step == Count \/ Check \/ Stamp \/ ClearTime \/ ClearCount \/ PutPin \/ PutCreationTime
          \/ PutMnemonic \/ PutMasterPubKey \/ WipeStep \/ DropSeed

\* The owner enters the pin.
Login == keychain.pin # Nil /\ Attempt("login", keychain.pin, Nil)

Others ==
  /\ now <= LastTry
  /\ \/ \E p \in Pins : Attempt("login", p, Nil)
     \/ \E p, new \in Pins : Attempt("changePin", p, new)
     \/ \E new \in Pins, f \in Phrases \cup {Nil} : ForceSetPin(new, f)
     \/ \E f \in Phrases : Recover(f) \/ Create(f)
     \/ WipeWallet \/ UseWallet \/ KeychainError \/ Killed

Next == Step \/ Login \/ Others \/ Launch \/ Tick

Spec == Init /\ [][Next]_vars

\* Time passes, a call that was made goes on, and the owner opens the app and enters
\* the pin again and again.
FairSpec == Spec /\ WF_vars(Tick) /\ WF_vars(Step) /\ WF_vars(Launch) /\ WF_vars(Login)

----------------------------------------------------------------------------
(* Properties. *)

\* A wallet the app shows can be spent from and written down: while the keychain holds
\* a master public key (or the seed of the old scheme) it holds the phrase of that very
\* key, wherever a kill or a keychain error cut creation, recovery, upgrade or wiping
\* short.  Otherwise the app would show addresses whose phrase is lost.
KeyHasPhrase ==
  /\ keychain.masterPubKey # Nil => keychain.mnemonic = keychain.masterPubKey
  /\ keychain.seed # Nil => keychain.mnemonic = keychain.seed

WipingForPins == call.pc = "wipe" /\ call.op # "wipeWallet"

\* Wrong pins never wipe the wallet before WipeAfter attempts have been counted since
\* a pin was last right, although every attempt, also a right one, is counted before it
\* is checked and the count outlives the process.
NoEarlyWipe == (WipingForPins /\ call.at = 1) => tries >= WipeAfter

LockTotal[n \in Nat] ==
  IF n <= LockAfter THEN 0 ELSE LockTotal[n - 1] + Lock(n - 1)

\* "wipe wallet after 8 failed pin attempts and 24+ hours of lockout": before wrong
\* pins wipe the wallet, all the locks have been sat out one after the other, unless an
\* attempt was cut short between the count and the time stamp, or an earlier wipe was.
LocksSatOut ==
  (WipingForPins /\ call.at = 1 /\ ~cutShort) => now >= lockedAt + LockTotal[WipeAfter]

\* The owner of a wallet always gets in again: whatever others tried and wherever the
\* process was killed, the lock passes and the right pin is accepted, unless the wallet
\* or its pin was removed.
OwnerGetsIn ==
  (keychain.masterPubKey # Nil /\ keychain.pin # Nil)
    ~> (keychain.pinFailCount = 0 \/ keychain.masterPubKey = Nil \/ keychain.pin = Nil)

\* "number of unique failed pin attempts remaining before wallet is wiped": what is
\* counted is at most the number of different pins that were tried.  failedPins does not
\* outlive the process and the count does, so that every pin may count once more for each
\* time the process was killed or the keychain failed.
CountsUniquePins == keychain.pinFailCount <= Cardinality(tried) * (faults + 1)

\* "we store the wallet creation time on the keychain": the time stored with a wallet is
\* not later than the wallet's phrase is, as blocks before it are never looked at.  A
\* creation that fails half way leaves its time to the wallet that is recovered next.
CreationTimeIsTheWallets ==
  (keychain.masterPubKey # Nil /\ faults = 0)
    => keychain.creationTime <= born[keychain.masterPubKey]
=============================================================================
