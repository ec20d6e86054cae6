---------------------------- MODULE PinAuthProofs ----------------------------
(***************************************************************************)
(* For all pins, phrases and limits: the keychain never holds a key        *)
(* without its phrase, nor with a creation time that is too late; what is  *)
(* counted is pins; and wrong pins never wipe a wallet before there were   *)
(* enough of them and all the locks have been sat out.                     *)
(***************************************************************************)
EXTENDS PinAuth, FiniteSetTheorems, WellFoundedInduction, TLAPS

USE PinAssumption

\* Of the call in progress: a phrase is written only while there is no wallet, or it is
\* the one that is there (upgrade); a key is written only after its phrase; a wipe that
\* has come to the phrase has removed the key and the seed.
CallInv ==
  /\ call.pc \in {"creation", "mnemonic", "key"} => call.phrase \in Phrases
  /\ call.pc \in {"creation", "mnemonic"} =>
       \/ keychain.masterPubKey = Nil /\ keychain.seed = Nil
       \/ call.phrase = keychain.mnemonic
  /\ call.pc = "key" => call.phrase = keychain.mnemonic
  /\ call.pc = "count" => call.pin \in Pins
  /\ call.pc = "check" => call.pin \in Pins
  /\ call.pc = "putPin" => call.newPin \in Pins
  /\ call.op = "changePin" => call.newPin \in Pins
  /\ call.pc = "wipe" =>
       /\ call.at \in 1..7
       /\ call.at > 5 => keychain.masterPubKey = Nil
       /\ call.at > 6 => keychain.seed = Nil
  /\ call.pc # "wipe" => call.at = 1

\* The inductive invariant: the count in the keychain is never ahead of the attempts.
PinInv ==
  /\ TypeOK
  /\ KeyHasPhrase
  /\ CallInv
  /\ keychain.pinFailCount <= tries
  /\ NoEarlyWipe

\* TypeOK in two parts: the flags, and the rest.
TypeFlags == running \in BOOLEAN /\ didInit \in BOOLEAN /\ cutShort \in BOOLEAN
TypeData ==
  /\ keychain \in Keychain
  /\ failedPins \in SUBSET Pins
  /\ memKey \in Phrases \cup {Nil}
  /\ call \in Call
  /\ now \in Nat /\ faults \in 0..MaxFaults
  /\ born \in [Phrases -> Nat]
  /\ tries \in Nat /\ tried \in SUBSET Pins /\ lockedAt \in Nat

LEMMA TypeParts == TypeOK <=> TypeFlags /\ TypeData
  BY Zenon DEF TypeOK, TypeFlags, TypeData

LEMMA TypePartsNext == (TypeFlags /\ TypeData)' => TypeOK'
  BY Zenon DEF TypeOK, TypeFlags, TypeData

LEMMA PinInit == Init => PinInv
<1> SUFFICES ASSUME Init PROVE PinInv
  OBVIOUS
<1>0. /\ keychain \in Keychain
      /\ keychain.masterPubKey = Nil /\ keychain.pinFailCount = 0
      /\ keychain.seed # Nil => keychain.mnemonic = keychain.seed
  <2>1. CASE keychain = EmptyKeychain
    BY <2>1 DEF EmptyKeychain, Keychain
  <2>2. ASSUME NEW p \in Pins, NEW f \in OldPhrases, keychain = OldKeychain(p, f)
        PROVE  /\ keychain \in Keychain
               /\ keychain.masterPubKey = Nil /\ keychain.pinFailCount = 0
               /\ keychain.seed # Nil => keychain.mnemonic = keychain.seed
    <3>1. keychain = [pin |-> p, pinFailCount |-> 0, pinFailTime |-> 0,
                      masterPubKey |-> Nil, seed |-> f, mnemonic |-> f, creationTime |-> 0]
      BY <2>2 DEF OldKeychain, EmptyKeychain
    <3> QED
      BY <3>1 DEF Keychain
  <2> QED
    BY <2>1, <2>2 DEF Init
<1>1. TypeOK
  <2>1. TypeFlags
    BY Zenon DEF Init, TypeFlags
  <2>2. TypeData
    BY <1>0 DEF Init, TypeData, NoCall, Call, Steps, Ops
  <2> QED
    BY <2>1, <2>2, TypeParts
<1>2. KeyHasPhrase /\ keychain.pinFailCount <= tries
  BY <1>0 DEF Init, KeyHasPhrase
<1>3. CallInv /\ NoEarlyWipe
  BY DEF Init, CallInv, NoEarlyWipe, WipingForPins, NoCall
<1> QED
  BY <1>1, <1>2, <1>3 DEF PinInv

----------------------------------------------------------------------------
(* One lemma per group of actions. *)

LEMMA CountStep == PinInv /\ Count => PinInv'
<1> SUFFICES ASSUME PinInv, Count PROVE PinInv'
  OBVIOUS
<1> USE DEF PinInv, Count, Put, Goto, Memory, CallInv
<1>1. TypeOK'
  <2>1. TypeFlags'
    BY TypeParts, Zenon DEF TypeFlags
  <2>2. TypeData'
    BY TypeParts DEF TypeData, Keychain, Call, Steps
  <2> QED
    BY <2>1, <2>2, TypePartsNext
<1>2. (KeyHasPhrase /\ keychain.pinFailCount <= tries)'
  BY DEF TypeOK, Keychain, Call, KeyHasPhrase
<1>3. (CallInv /\ NoEarlyWipe)'
  BY DEF TypeOK, Keychain, Call, NoEarlyWipe, WipingForPins
<1> QED
  BY <1>1, <1>2, <1>3

LEMMA CheckStep == PinInv /\ Check => PinInv'
<1> SUFFICES ASSUME PinInv, Check PROVE PinInv'
  OBVIOUS
<1> USE DEF PinInv, Check, Goto, Return, ClearMemory, History, CallInv
<1>1. TypeOK'
  <2>1. TypeFlags'
    BY TypeParts, Zenon DEF TypeFlags
  <2>2. TypeData'
    BY TypeParts DEF TypeData, Keychain, Call, Steps, NoCall, Ops
  <2> QED
    BY <2>1, <2>2, TypePartsNext
<1>2. (KeyHasPhrase /\ keychain.pinFailCount <= tries)'
  BY DEF KeyHasPhrase
<1>3. CallInv'
  BY DEF TypeOK, Keychain, Call, NoCall
<1>4. NoEarlyWipe'
  BY DEF TypeOK, Keychain, Call, NoCall, NoEarlyWipe, WipingForPins
<1> QED
  BY <1>1, <1>2, <1>3, <1>4

LEMMA PinWriteStep == PinInv /\ (Stamp \/ ClearTime \/ ClearCount \/ PutPin) => PinInv'
<1> SUFFICES ASSUME PinInv, Stamp \/ ClearTime \/ ClearCount \/ PutPin PROVE PinInv'
  OBVIOUS
<1> USE DEF PinInv, Put, Goto, Return, Memory, History, CallInv
<1>1. TypeOK'
  <2> USE DEF Keychain, Call, Steps, NoCall, Ops
  <2>1. TypeFlags'
    <3>1. CASE Stamp
      BY <3>1, TypeParts, Zenon DEF TypeFlags, Stamp
    <3>2. CASE ClearTime
      BY <3>2, TypeParts, Zenon DEF TypeFlags, ClearTime
    <3>3. CASE ClearCount
      BY <3>3, TypeParts, Zenon DEF TypeFlags, ClearCount
    <3>4. CASE PutPin
      BY <3>4, TypeParts, Zenon DEF TypeFlags, PutPin
    <3> QED
      BY <3>1, <3>2, <3>3, <3>4
  <2>2. TypeData'
    <3>1. CASE Stamp
      BY <3>1, TypeParts DEF TypeData, Stamp
    <3>2. CASE ClearTime
      BY <3>2, TypeParts DEF TypeData, ClearTime
    <3>3. CASE ClearCount
      BY <3>3, TypeParts DEF TypeData, ClearCount
    <3>4. CASE PutPin
      BY <3>4, TypeParts DEF TypeData, PutPin
    <3> QED
      BY <3>1, <3>2, <3>3, <3>4
  <2> QED
    BY <2>1, <2>2, TypePartsNext
<1>2. (KeyHasPhrase /\ keychain.pinFailCount <= tries)'
  BY DEF TypeOK, Keychain, KeyHasPhrase, Stamp, ClearTime, ClearCount, PutPin
<1>3. (CallInv /\ NoEarlyWipe)'
  BY DEF TypeOK, Keychain, Call, NoCall, Stamp, ClearTime, ClearCount, PutPin,
         NoEarlyWipe, WipingForPins
<1> QED
  BY <1>1, <1>2, <1>3

LEMMA WalletWriteStep ==
  PinInv /\ (PutCreationTime \/ PutMnemonic \/ PutMasterPubKey \/ DropSeed) => PinInv'
<1> SUFFICES ASSUME PinInv,
                    PutCreationTime \/ PutMnemonic \/ PutMasterPubKey \/ DropSeed
             PROVE  PinInv'
  OBVIOUS
<1> USE DEF PinInv, Put, Goto, Return, Memory, History, CallInv
<1>1. TypeOK'
  <2> USE DEF Keychain, Call, Steps, NoCall, Ops
  <2>1. TypeFlags'
    <3>1. CASE PutCreationTime
      BY <3>1, TypeParts, Zenon DEF TypeFlags, PutCreationTime
    <3>2. CASE PutMnemonic
      BY <3>2, TypeParts, Zenon DEF TypeFlags, PutMnemonic
    <3>3. CASE PutMasterPubKey
      BY <3>3, TypeParts, Zenon DEF TypeFlags, PutMasterPubKey
    <3>4. CASE DropSeed
      BY <3>4, TypeParts, Zenon DEF TypeFlags, DropSeed
    <3> QED
      BY <3>1, <3>2, <3>3, <3>4
  <2>2. TypeData'
    <3>1. CASE PutCreationTime
      BY <3>1, TypeParts DEF TypeData, PutCreationTime
    <3>2. CASE PutMnemonic
      BY <3>2, TypeParts DEF TypeData, PutMnemonic
    <3>3. CASE PutMasterPubKey
      BY <3>3, TypeParts DEF TypeData, PutMasterPubKey
    <3>4. CASE DropSeed
      BY <3>4, TypeParts DEF TypeData, DropSeed
    <3> QED
      BY <3>1, <3>2, <3>3, <3>4
  <2> QED
    BY <2>1, <2>2, TypePartsNext
<1>2. (KeyHasPhrase /\ keychain.pinFailCount <= tries)'
  BY DEF TypeOK, Keychain, KeyHasPhrase, PutCreationTime, PutMnemonic, PutMasterPubKey,
         DropSeed
<1>3. (CallInv /\ NoEarlyWipe)'
  BY DEF TypeOK, Keychain, Call, NoCall, PutCreationTime, PutMnemonic, PutMasterPubKey,
         DropSeed, NoEarlyWipe, WipingForPins
<1> QED
  BY <1>1, <1>2, <1>3

\* Each step of a wipe removes one item, the key and the seed before the phrase.
Removes ==
  /\ call.pc = "wipe" /\ call.at \in 1..7 /\ keychain' \in Keychain
  /\ keychain'.masterPubKey = IF call.at = 5 THEN Nil ELSE keychain.masterPubKey
  /\ keychain'.seed = IF call.at = 6 THEN Nil ELSE keychain.seed
  /\ keychain'.mnemonic = IF call.at = 7 THEN Nil ELSE keychain.mnemonic
  /\ keychain'.pinFailCount = IF call.at = 3 THEN 0 ELSE keychain.pinFailCount
  /\ keychain'.creationTime = IF call.at = 1 THEN 0 ELSE keychain.creationTime
  /\ call' = IF call.at = 7 THEN NoCall ELSE [call EXCEPT !.at = @ + 1]
  /\ UNCHANGED <<running, failedPins, didInit, memKey, now, faults, born>>
  /\ IF call.at = 3
     THEN tries' = 0 /\ tried' = {} /\ lockedAt' = 0 /\ cutShort' = FALSE
     ELSE UNCHANGED <<tries, tried, lockedAt, cutShort>>

LEMMA WipeRemoves == PinInv /\ WipeStep => Removes
<1> SUFFICES ASSUME PinInv, WipeStep PROVE Removes
  OBVIOUS
<1>0. /\ call.pc = "wipe" /\ call.at \in 1..7 /\ Len(WipeOrder) = 7
      /\ keychain \in Keychain
  BY DEF WipeStep, WipeOrder, PinInv, CallInv, TypeOK
<1>1. /\ keychain' \in Keychain
      /\ keychain'.masterPubKey = IF call.at = 5 THEN Nil ELSE keychain.masterPubKey
      /\ keychain'.seed = IF call.at = 6 THEN Nil ELSE keychain.seed
      /\ keychain'.mnemonic = IF call.at = 7 THEN Nil ELSE keychain.mnemonic
      /\ keychain'.pinFailCount = IF call.at = 3 THEN 0 ELSE keychain.pinFailCount
      /\ keychain'.creationTime = IF call.at = 1 THEN 0 ELSE keychain.creationTime
  <2>1. CASE call.at = 1
    <3>1. WipeOrder[call.at] = "creationTime" /\ EmptyKeychain["creationTime"] = 0
      BY <2>1 DEF WipeOrder, EmptyKeychain
    <3>2. keychain' = [keychain EXCEPT !["creationTime"] = EmptyKeychain["creationTime"]]
      BY <3>1, Zenon DEF WipeStep, Put
    <3> QED
      BY <1>0, <2>1, <3>1, <3>2 DEF Keychain
  <2>2. CASE call.at = 2
    <3>1. WipeOrder[call.at] = "pinFailTime" /\ EmptyKeychain["pinFailTime"] = 0
      BY <2>2 DEF WipeOrder, EmptyKeychain
    <3>2. keychain' = [keychain EXCEPT !["pinFailTime"] = EmptyKeychain["pinFailTime"]]
      BY <3>1, Zenon DEF WipeStep, Put
    <3> QED
      BY <1>0, <2>2, <3>1, <3>2 DEF Keychain
  <2>3. CASE call.at = 3
    <3>1. WipeOrder[call.at] = "pinFailCount" /\ EmptyKeychain["pinFailCount"] = 0
      BY <2>3 DEF WipeOrder, EmptyKeychain
    <3>2. keychain' = [keychain EXCEPT !["pinFailCount"] = EmptyKeychain["pinFailCount"]]
      BY <3>1, Zenon DEF WipeStep, Put
    <3> QED
      BY <1>0, <2>3, <3>1, <3>2 DEF Keychain
  <2>4. CASE call.at = 4
    <3>1. WipeOrder[call.at] = "pin" /\ EmptyKeychain["pin"] = Nil
      BY <2>4 DEF WipeOrder, EmptyKeychain
    <3>2. keychain' = [keychain EXCEPT !["pin"] = EmptyKeychain["pin"]]
      BY <3>1, Zenon DEF WipeStep, Put
    <3> QED
      BY <1>0, <2>4, <3>1, <3>2 DEF Keychain
  <2>5. CASE call.at = 5
    <3>1. WipeOrder[call.at] = "masterPubKey" /\ EmptyKeychain["masterPubKey"] = Nil
      BY <2>5 DEF WipeOrder, EmptyKeychain
    <3>2. keychain' = [keychain EXCEPT !["masterPubKey"] = EmptyKeychain["masterPubKey"]]
      BY <3>1, Zenon DEF WipeStep, Put
    <3> QED
      BY <1>0, <2>5, <3>1, <3>2 DEF Keychain
  <2>6. CASE call.at = 6
    <3>1. WipeOrder[call.at] = "seed" /\ EmptyKeychain["seed"] = Nil
      BY <2>6 DEF WipeOrder, EmptyKeychain
    <3>2. keychain' = [keychain EXCEPT !["seed"] = EmptyKeychain["seed"]]
      BY <3>1, Zenon DEF WipeStep, Put
    <3> QED
      BY <1>0, <2>6, <3>1, <3>2 DEF Keychain
  <2>7. CASE call.at = 7
    <3>1. WipeOrder[call.at] = "mnemonic" /\ EmptyKeychain["mnemonic"] = Nil
      BY <2>7 DEF WipeOrder, EmptyKeychain
    <3>2. keychain' = [keychain EXCEPT !["mnemonic"] = EmptyKeychain["mnemonic"]]
      BY <3>1, Zenon DEF WipeStep, Put
    <3> QED
      BY <1>0, <2>7, <3>1, <3>2 DEF Keychain
  <2> QED
    BY <1>0, <2>1, <2>2, <2>3, <2>4, <2>5, <2>6, <2>7
<1>2. /\ call' = IF call.at = 7 THEN NoCall ELSE [call EXCEPT !.at = @ + 1]
      /\ UNCHANGED <<running, failedPins, didInit, memKey, now, faults, born>>
      /\ IF call.at = 3
         THEN tries' = 0 /\ tried' = {} /\ lockedAt' = 0 /\ cutShort' = FALSE
         ELSE UNCHANGED <<tries, tried, lockedAt, cutShort>>
  <2>1. WipeOrder[call.at] = "pinFailCount" <=> call.at = 3
    BY <1>0 DEF WipeOrder
  <2> QED
    BY <1>0, <2>1 DEF WipeStep, Return, Memory
<1> QED
  BY <1>0, <1>1, <1>2 DEF Removes

LEMMA WipeStepStep == PinInv /\ WipeStep => PinInv'
<1> SUFFICES ASSUME PinInv, WipeStep PROVE PinInv'
  OBVIOUS
<1>1. TypeOK'
  <2>1. TypeFlags'
    BY WipeRemoves, TypeParts, Zenon DEF Removes, PinInv, TypeFlags
  <2>2. TypeData'
    BY WipeRemoves, TypeParts DEF Removes, PinInv, TypeData, Call, NoCall, Steps, Ops
  <2> QED
    BY <2>1, <2>2, TypePartsNext
<1>2. (KeyHasPhrase /\ keychain.pinFailCount <= tries)'
  BY WipeRemoves DEF Removes, PinInv, KeyHasPhrase, CallInv, TypeOK
<1>3. (CallInv /\ NoEarlyWipe)'
  BY WipeRemoves DEF Removes, PinInv, TypeOK, Call, NoCall, CallInv, NoEarlyWipe, WipingForPins
<1> QED
  BY <1>1, <1>2, <1>3 DEF PinInv

\* Calls start with the keychain as it is.
LEMMA BeginStep ==
  ASSUME PinInv,
         \/ Login
         \/ \E p \in Pins : Attempt("login", p, Nil)
         \/ \E p, new \in Pins : Attempt("changePin", p, new)
         \/ \E new \in Pins, f \in Phrases \cup {Nil} : ForceSetPin(new, f)
         \/ \E f \in Phrases : Recover(f) \/ Create(f)
  PROVE  PinInv'
<1> USE DEF PinInv, Begin, Memory, History, CallInv, Idle
<1>1. /\ UNCHANGED <<keychain, running, failedPins, didInit, memKey, now, faults, born,
                     tries, tried, lockedAt, cutShort>>
      /\ call' \in Call
      /\ call'.at = 1
      /\ \/ call'.pc = "count" /\ call'.op = "login" /\ call'.pin \in Pins
         \/ call'.pc = "count" /\ call'.op = "changePin" /\ call'.pin \in Pins
              /\ call'.newPin \in Pins
         \/ call'.pc = "putPin" /\ call'.op = "forceSetPin" /\ call'.newPin \in Pins
         \/ /\ call'.pc \in {"creation", "mnemonic"} /\ call'.op \in {"create", "recover"}
            /\ call'.phrase \in Phrases
            /\ keychain.masterPubKey = Nil /\ keychain.seed = Nil
  <2>1. ASSUME NEW op \in {"login", "changePin"}, NEW p \in Pins,
               NEW new \in Pins \cup {Nil}, Attempt(op, p, new)
        PROVE  /\ UNCHANGED <<keychain, running, failedPins, didInit, memKey, now, faults,
                              born, tries, tried, lockedAt, cutShort>>
               /\ call' \in Call /\ call'.at = 1 /\ call'.pc = "count" /\ call'.op = op
               /\ call'.pin = p /\ call'.newPin = new
    BY <2>1 DEF Attempt, TypeOK, Call, Steps, Ops
  <2>2. CASE Login
    BY <2>1, <2>2 DEF Login, TypeOK, Keychain
  <2>3. CASE \E p \in Pins : Attempt("login", p, Nil)
    BY <2>1, <2>3
  <2>4. CASE \E p, new \in Pins : Attempt("changePin", p, new)
    BY <2>1, <2>4
  <2>5. CASE \E new \in Pins, f \in Phrases \cup {Nil} : ForceSetPin(new, f)
    BY <2>5 DEF ForceSetPin, TypeOK, Call, Steps, Ops
  <2>6. CASE \E f \in Phrases : Recover(f) \/ Create(f)
    BY <2>6 DEF Recover, Create, noWallet, TypeOK, Call, Steps, Ops
  <2> QED
    BY <2>2, <2>3, <2>4, <2>5, <2>6
<1>2. TypeOK' /\ KeyHasPhrase' /\ (keychain.pinFailCount <= tries)'
  BY <1>1 DEF TypeOK, KeyHasPhrase
<1>3. (CallInv /\ NoEarlyWipe)'
  BY <1>1 DEF NoEarlyWipe, WipingForPins
<1> QED
  BY <1>2, <1>3

\* The process starts, ends or loses a call; time passes.
LEMMA ProcessStep ==
  PinInv /\ (WipeWallet \/ UseWallet \/ KeychainError \/ Killed \/ Launch \/ Tick) => PinInv'
<1> SUFFICES ASSUME PinInv,
                    WipeWallet \/ UseWallet \/ KeychainError \/ Killed \/ Launch \/ Tick
             PROVE  PinInv'
  OBVIOUS
<1> USE DEF PinInv, Begin, Return, Memory, History, CallInv, ClearMemory
<1>1. TypeOK'
  <2> USE DEF Keychain, Call, Steps, NoCall, Ops
  <2>1. TypeFlags'
    <3>1. CASE WipeWallet
      BY <3>1, TypeParts, Zenon DEF TypeFlags, WipeWallet
    <3>2. CASE UseWallet
      BY <3>2, TypeParts, Zenon DEF TypeFlags, UseWallet
    <3>3. CASE KeychainError
      BY <3>3, TypeParts, Zenon DEF TypeFlags, KeychainError
    <3>4. CASE Killed
      BY <3>4, TypeParts, Zenon DEF TypeFlags, Killed
    <3>5. CASE Launch
      BY <3>5, TypeParts, Zenon DEF TypeFlags, Launch
    <3>6. CASE Tick
      BY <3>6, TypeParts, Zenon DEF TypeFlags, Tick
    <3> QED
      BY <3>1, <3>2, <3>3, <3>4, <3>5, <3>6
  <2>2. TypeData'
    <3>1. CASE WipeWallet
      BY <3>1, TypeParts DEF TypeData, WipeWallet
    <3>2. CASE UseWallet
      BY <3>2, TypeParts DEF TypeData, UseWallet
    <3>3. CASE KeychainError
      BY <3>3, TypeParts DEF TypeData, KeychainError, Fault
    <3>4. CASE Killed
      BY <3>4, TypeParts DEF TypeData, Killed, Fault
    <3>5. CASE Launch
      BY <3>5, TypeParts DEF TypeData, Launch
    <3>6. CASE Tick
      BY <3>6, TypeParts DEF TypeData, Tick
    <3> QED
      BY <3>1, <3>2, <3>3, <3>4, <3>5, <3>6
  <2> QED
    BY <2>1, <2>2, TypePartsNext
<1>2. (KeyHasPhrase /\ keychain.pinFailCount <= tries)'
  BY DEF KeyHasPhrase, WipeWallet, UseWallet, KeychainError, Killed, Launch, Tick
<1>3. (CallInv /\ NoEarlyWipe)'
  BY DEF TypeOK, Keychain, Call, NoCall, KeyHasPhrase, WipeWallet, UseWallet,
         KeychainError, Killed, Launch, Tick, NoEarlyWipe, WipingForPins
<1> QED
  BY <1>1, <1>2, <1>3

----------------------------------------------------------------------------

LEMMA PinNext == PinInv /\ [Next]_vars => PinInv'
<1> SUFFICES ASSUME PinInv, [Next]_vars PROVE PinInv'
  OBVIOUS
<1>1. CASE Step
  BY <1>1, CountStep, CheckStep, PinWriteStep, WalletWriteStep, WipeStepStep DEF Step
<1>2. CASE Login
  BY <1>2, BeginStep
<1>3. CASE Others
  BY <1>3, BeginStep, ProcessStep DEF Others
<1>4. CASE Launch \/ Tick
  BY <1>4, ProcessStep
<1>5. CASE UNCHANGED vars
  BY <1>5 DEF vars, PinInv, TypeOK, KeyHasPhrase, CallInv, NoEarlyWipe, WipingForPins
<1> QED
  BY <1>1, <1>2, <1>3, <1>4, <1>5 DEF Next

\* PinInv holds in every reachable state of the keychain and the calls on it.
THEOREM PinInvariant == Spec => []PinInv
  BY PinInit, PinNext, PTL DEF Spec

\* Every variable keeps its type.
THEOREM PinTypeCorrect == Spec => []TypeOK
  BY PinInvariant, PTL DEF PinInv

\* setSeedPhrase writes the phrase before the key and wipeWallet removes it after the
\* key, so that no kill and no keychain error leaves a key without its phrase.
THEOREM KeysHavePhrases == Spec => []KeyHasPhrase
  BY PinInvariant, PTL DEF PinInv

\* Whatever is tried, killed and restarted, wrong pins do not wipe the wallet before
\* WipeAfter attempts have been counted since authenticationSuccess.
THEOREM WipesAreEarned == Spec => []NoEarlyWipe
  BY PinInvariant, PTL DEF PinInv

----------------------------------------------------------------------------
(* The creation time. *)

\* While nothing was cut short: without a wallet and outside setRandomSeedPhrase there
\* is no creation time; setRandomSeedPhrase stores one before its phrase is made, and
\* only while there is no wallet; wipeWallet removes it before the key.
TimeInv ==
  /\ call.secureTime <= now
  /\ faults = 0 =>
       /\ keychain.masterPubKey # Nil =>
            keychain.creationTime <= born[keychain.masterPubKey]
       /\ keychain.masterPubKey = Nil /\ call.op # "create" => keychain.creationTime = 0
       /\ call.op = "create" =>
            /\ keychain.masterPubKey = Nil
            /\ call.pc \in {"creation", "mnemonic", "key"}
            /\ call.pc = "mnemonic" => keychain.creationTime <= call.secureTime
            /\ call.pc = "key" => keychain.creationTime <= born[call.phrase]
       /\ call.pc = "creation" => call.op = "create"
       /\ call.pc = "wipe" /\ call.at > 1 => keychain.creationTime = 0

LEMMA TimeInit == Init => TimeInv
<1> SUFFICES ASSUME Init PROVE TimeInv
  OBVIOUS
<1>1. keychain.masterPubKey = Nil /\ keychain.creationTime = 0
  <2>1. CASE keychain = EmptyKeychain
    BY <2>1 DEF EmptyKeychain
  <2>2. ASSUME NEW p \in Pins, NEW f \in OldPhrases, keychain = OldKeychain(p, f)
        PROVE  keychain.masterPubKey = Nil /\ keychain.creationTime = 0
    BY <2>2 DEF OldKeychain, EmptyKeychain
  <2> QED
    BY <2>1, <2>2 DEF Init
<1> QED
  BY <1>1 DEF Init, TimeInv, NoCall

\* The writes of authenticate and of the pin leave the time and the key alone.
LEMMA TimePinWrites ==
  ASSUME PinInv, TimeInv, Count \/ Check \/ Stamp \/ ClearTime \/ ClearCount \/ PutPin
  PROVE  TimeInv'
<1>1. /\ keychain'.creationTime = keychain.creationTime
      /\ keychain'.masterPubKey = keychain.masterPubKey
      /\ UNCHANGED <<now, faults, born>>
  BY DEF Count, Check, Stamp, ClearTime, ClearCount, PutPin, Put, Memory, History, PinInv,
         TypeOK, Keychain
<1>2. /\ call.pc \in {"count", "check", "stamp", "clearTime", "clearCount", "putPin"}
      /\ \/ call' = NoCall
         \/ \E pc \in Steps \ {"creation"} : call' = [call EXCEPT !.pc = pc]
  BY DEF Count, Check, Stamp, ClearTime, ClearCount, PutPin, Goto, Return, Steps
<1>3. call \in Call /\ now \in Nat /\ call.at = 1
  BY <1>2 DEF PinInv, CallInv, TypeOK
<1> QED
  BY <1>1, <1>2, <1>3 DEF TimeInv, Call, NoCall

LEMMA TimeWalletWrites ==
  ASSUME PinInv, TimeInv, PutCreationTime \/ PutMnemonic \/ PutMasterPubKey \/ DropSeed
  PROVE  TimeInv'
<1>0. /\ keychain \in Keychain /\ call \in Call /\ now \in Nat /\ born \in [Phrases -> Nat]
      /\ faults \in Nat
  BY DEF PinInv, TypeOK
<1> USE DEF Put, Goto, Return, Memory, History, Keychain, Call, NoCall
<1>1. CASE PutCreationTime
  BY <1>0, <1>1 DEF PutCreationTime, TimeInv
<1>2. CASE PutMnemonic
  BY <1>0, <1>2 DEF PutMnemonic, TimeInv, PinInv, CallInv
<1>3. CASE PutMasterPubKey
  BY <1>0, <1>3 DEF PutMasterPubKey, TimeInv, PinInv, CallInv, KeyHasPhrase
<1>4. CASE DropSeed
  BY <1>0, <1>4 DEF DropSeed, TimeInv
<1> QED
  BY <1>1, <1>2, <1>3, <1>4

LEMMA TimeWipes == PinInv /\ TimeInv /\ WipeStep => TimeInv'
  BY WipeRemoves DEF Removes, TimeInv, PinInv, TypeOK, Call, NoCall, Keychain

LEMMA TimeBegins ==
  ASSUME PinInv, TimeInv,
         \/ Login
         \/ \E p \in Pins : Attempt("login", p, Nil)
         \/ \E p, new \in Pins : Attempt("changePin", p, new)
         \/ \E new \in Pins, f \in Phrases \cup {Nil} : ForceSetPin(new, f)
         \/ \E f \in Phrases : Recover(f) \/ Create(f)
         \/ WipeWallet
  PROVE  TimeInv'
<1>0. now \in Nat /\ keychain \in Keychain
  BY DEF PinInv, TypeOK
<1> USE DEF Begin, Memory, History, Idle, NoCall
<1>1. ASSUME NEW op \in {"login", "changePin"}, NEW p, NEW new, Attempt(op, p, new)
      PROVE  TimeInv'
  BY <1>0, <1>1 DEF Attempt, TimeInv
<1>2. ASSUME NEW new, NEW f, ForceSetPin(new, f) PROVE TimeInv'
  BY <1>0, <1>2 DEF ForceSetPin, TimeInv
<1>3. ASSUME NEW f, Recover(f) \/ Create(f) PROVE TimeInv'
  BY <1>0, <1>3 DEF Recover, Create, noWallet, TimeInv, Keychain
<1>4. CASE WipeWallet
  BY <1>0, <1>4 DEF WipeWallet, TimeInv
<1> QED
  BY <1>1, <1>2, <1>3, <1>4 DEF Login

LEMMA TimeProcess ==
  ASSUME PinInv, TimeInv, UseWallet \/ KeychainError \/ Killed \/ Launch \/ Tick
  PROVE  TimeInv'
<1>0. now \in Nat /\ keychain \in Keychain /\ faults \in Nat /\ call \in Call
  BY DEF PinInv, TypeOK
<1> USE DEF Memory, History, NoCall, Return
<1>1. CASE UseWallet
  BY <1>0, <1>1 DEF UseWallet, TimeInv
<1>2. CASE KeychainError
  BY <1>0, <1>2 DEF KeychainError, Fault, TimeInv
<1>3. CASE Killed
  BY <1>0, <1>3 DEF Killed, Fault, TimeInv
<1>4. CASE Launch
  BY <1>0, <1>4 DEF Launch, Begin, TimeInv
<1>5. CASE Tick
  BY <1>0, <1>5 DEF Tick, TimeInv, Call
<1> QED
  BY <1>1, <1>2, <1>3, <1>4, <1>5

LEMMA TimeNext == PinInv /\ TimeInv /\ [Next]_vars => TimeInv'
<1> SUFFICES ASSUME PinInv, TimeInv, [Next]_vars PROVE TimeInv'
  OBVIOUS
<1>1. CASE Step
  BY <1>1, TimePinWrites, TimeWalletWrites, TimeWipes DEF Step
<1>2. CASE Login
  BY <1>2, TimeBegins
<1>3. CASE Others
  BY <1>3, TimeBegins, TimeProcess DEF Others
<1>4. CASE Launch \/ Tick
  BY <1>4, TimeProcess
<1>5. CASE UNCHANGED vars
  BY <1>5 DEF vars, TimeInv
<1> QED
  BY <1>1, <1>2, <1>3, <1>4, <1>5 DEF Next

\* As long as no kill and no keychain error cuts a call short, the creation time in the
\* keychain is never later than the phrase of the wallet it is stored with, through any
\* sequence of creating, recovering, upgrading and wiping: no block with a payment to
\* the wallet lies before the point where syncing starts.
THEOREM CreationTimesFit == Spec => []CreationTimeIsTheWallets
<1>1. TimeInv => CreationTimeIsTheWallets
  BY DEF TimeInv, CreationTimeIsTheWallets
<1>2. Spec => []TimeInv
  BY TimeInit, TimeNext, PinInvariant, PTL DEF Spec
<1> QED
  BY <1>1, <1>2, PTL

----------------------------------------------------------------------------
(* What the count counts. *)

\* The pin that has been counted and is not yet in the list failedPins.
Pending == IF call.pc = "check" THEN {call.pin} ELSE {}
Counted == tried \cap (failedPins \cup Pending)

\* A pin that this process has counted is in failedPins or about to be, so that the
\* process in which nothing has failed yet counts each pin once; what earlier ones
\* counted is paid for by the fault that ended them.  authenticationSuccess empties the
\* list two writes before it clears the count.
CountInv ==
  /\ IsFiniteSet(tried)
  /\ IF call.pc \in {"clearTime", "clearCount"}
     THEN keychain.pinFailCount <= Cardinality(tried) * (faults + 1)
     ELSE keychain.pinFailCount <= Cardinality(tried) * faults + Cardinality(Counted)

\* The pins counted are among the pins tried.
LEMMA CountedAreTried ==
  ASSUME IsFiniteSet(tried)
  PROVE  /\ Cardinality(tried) \in Nat /\ IsFiniteSet(Counted)
         /\ Cardinality(Counted) \in Nat /\ Cardinality(Counted) <= Cardinality(tried)
<1>1. Counted \in SUBSET tried
  BY DEF Counted
<1>2. IsFiniteSet(Counted) /\ Cardinality(Counted) <= Cardinality(tried)
  BY <1>1, FS_Subset
<1> QED
  BY <1>2, FS_CardinalityType

\* CountInv implies the bound, wherever the call is.
LEMMA CountBound ==
  ASSUME TypeOK, CountInv
  PROVE  keychain.pinFailCount <= Cardinality(tried) * (faults + 1)
<1> DEFINE t == Cardinality(tried)
           u == Cardinality(Counted)
<1>1. t \in Nat /\ u \in Nat /\ u <= t
  BY CountedAreTried DEF CountInv
<1>2. faults \in Nat /\ keychain.pinFailCount \in Nat
  BY DEF TypeOK, Keychain
<1>3. \/ keychain.pinFailCount <= t * (faults + 1)
      \/ keychain.pinFailCount <= t * faults + u
  BY DEF CountInv
<1> HIDE DEF t, u
<1>4. t * faults \in Nat /\ t * (faults + 1) = t * faults + t
  BY <1>1, <1>2
<1> QED
  BY <1>1, <1>2, <1>3, <1>4 DEF t

\* A state with no more counted than the faults account for.
LEMMA CountAfterFault ==
  ASSUME TypeOK', IsFiniteSet(tried'),
         keychain'.pinFailCount <= Cardinality(tried') * faults'
  PROVE  CountInv'
<1>1. Counted' \in SUBSET tried'
  BY DEF Counted
<1>2. /\ Cardinality(tried') \in Nat /\ Cardinality(Counted') \in Nat
  BY <1>1, FS_Subset, FS_CardinalityType
<1> DEFINE t == Cardinality(tried')
           u == Cardinality(Counted')
           n == keychain'.pinFailCount
           f == faults'
<1>3. t \in Nat /\ u \in Nat /\ f \in Nat /\ n \in Nat /\ n <= t * f
  BY <1>2 DEF TypeOK, Keychain
<1>4. n <= t * f + u /\ n <= t * (f + 1)
  <2> HIDE DEF t, u, n, f
  <2>1. t * f \in Nat /\ t * (f + 1) = t * f + t
    BY <1>3
  <2> QED
    BY <1>3, <2>1
<1> QED
  BY <1>4 DEF CountInv

LEMMA CountInit == Init => CountInv
<1> SUFFICES ASSUME Init PROVE CountInv
  OBVIOUS
<1>1. keychain.pinFailCount = 0 /\ tried = {} /\ faults = 0 /\ call.pc = "idle"
  <2>1. CASE keychain = EmptyKeychain
    BY <2>1 DEF EmptyKeychain, Init, NoCall
  <2>2. ASSUME NEW p \in Pins, NEW f \in OldPhrases, keychain = OldKeychain(p, f)
        PROVE  keychain.pinFailCount = 0
    BY <2>2 DEF OldKeychain, EmptyKeychain
  <2> QED
    BY <2>1, <2>2 DEF Init, NoCall
<1>2. Counted = {}
  BY <1>1 DEF Counted
<1> QED
  BY <1>1, <1>2, FS_EmptySet DEF CountInv

\* One more pin is counted: it was not among the counted ones.
LEMMA CountCounts == PinInv /\ CountInv /\ Count => CountInv'
<1> SUFFICES ASSUME PinInv, CountInv, Count PROVE CountInv'
  OBVIOUS
<1>0. /\ TypeOK /\ call \in Call /\ keychain \in Keychain /\ faults \in Nat
      /\ keychain.pinFailCount \in Nat
  BY DEF PinInv, TypeOK, Keychain
<1>1. /\ call.pc = "count" /\ call'.pc = "check" /\ call'.pin = call.pin
      /\ UNCHANGED <<failedPins, faults>>
  BY <1>0 DEF Count, Goto, Memory, Call
<1>2. IsFiniteSet(tried) /\ Counted = tried \cap failedPins
  BY <1>1 DEF CountInv, Counted, Pending
<1>3. Counted' = tried' \cap (failedPins \cup {call.pin})
  BY <1>1 DEF Counted, Pending
<1>4. CASE call.pin \in failedPins
  <2>1. Counted' = Counted /\ UNCHANGED <<keychain, tried>>
    BY <1>2, <1>3, <1>4 DEF Count
  <2> QED
    BY <1>1, <2>1 DEF CountInv
<1>5. CASE call.pin \notin failedPins
  <2>1. tried' = tried \cup {call.pin} /\ keychain'.pinFailCount = keychain.pinFailCount + 1
    BY <1>0, <1>5 DEF Count, Put, Keychain
  <2>2. Counted' = Counted \cup {call.pin} /\ call.pin \notin Counted
    BY <1>2, <1>3, <1>5, <2>1
  <2> DEFINE t == Cardinality(tried)
             u == Cardinality(Counted)
             n == keychain.pinFailCount
             tt == Cardinality(tried')
  <2>3. t \in Nat /\ u \in Nat /\ IsFiniteSet(Counted)
    BY <1>2, CountedAreTried
  <2>4. IsFiniteSet(tried') /\ (tt = t \/ tt = t + 1)
    BY <1>2, <2>1, FS_AddElement
  <2>5. Cardinality(Counted') = u + 1
    BY <2>2, <2>3, FS_AddElement
  <2>6. n <= t * faults + u
    BY <1>1 DEF CountInv
  <2>7. n + 1 <= tt * faults + (u + 1)
    <3> HIDE DEF t, u, n, tt
    <3>1. n \in Nat
      BY <1>0 DEF n
    <3>2. t * faults \in Nat /\ (t + 1) * faults = t * faults + faults
      BY <1>0, <2>3
    <3> QED
      BY <1>0, <2>3, <2>4, <2>6, <3>1, <3>2
  <2> QED
    BY <1>1, <2>1, <2>4, <2>5, <2>7 DEF CountInv
<1> QED
  BY <1>4, <1>5

\* A right pin empties the list; a wrong one that was counted goes into it.
LEMMA CountChecks == PinInv /\ CountInv /\ Check => CountInv'
<1> SUFFICES ASSUME PinInv, CountInv, Check PROVE CountInv'
  OBVIOUS
<1>0. /\ TypeOK /\ call \in Call /\ call.pc = "check"
      /\ UNCHANGED <<keychain, faults, tried>> /\ IsFiniteSet(tried)
  BY DEF PinInv, TypeOK, Check, History, CountInv
<1>1. CASE call.pin = keychain.pin
  <2>1. call'.pc = "clearTime"
    BY <1>0, <1>1 DEF Check, Goto, Call
  <2> QED
    BY <1>0, <2>1, CountBound DEF CountInv
<1>2. CASE call.pin # keychain.pin
  <2>1. failedPins' = failedPins \cup {call.pin}
    BY <1>2 DEF Check
  <2>2. call'.pc \in {"idle", "stamp", "wipe"}
    BY <1>0, <1>2 DEF Check, Goto, Return, NoCall, Call
  <2>3. Counted' = Counted
    BY <1>0, <2>1, <2>2 DEF Counted, Pending
  <2> QED
    BY <1>0, <2>2, <2>3 DEF CountInv
<1> QED
  BY <1>1, <1>2

\* The count is cleared together with the history.
LEMMA CountCleared ==
  ASSUME TypeOK', keychain'.pinFailCount = 0, tried' = {}
  PROVE  CountInv'
<1>1. faults' \in Nat
  BY DEF TypeOK
<1>2. Cardinality(tried') = 0 /\ IsFiniteSet(tried')
  BY FS_EmptySet
<1> QED
  BY <1>1, <1>2, CountAfterFault

\* Steps of a call that leave the count, the list and the pin under check alone.
LEMMA CountStays ==
  ASSUME CountInv, TypeOK, UNCHANGED <<tried, faults>>,
         keychain'.pinFailCount = keychain.pinFailCount,
         \/ /\ call'.pc \in {"clearTime", "clearCount"}
         \/ /\ call.pc \notin {"check", "clearTime", "clearCount"}
            /\ call'.pc \notin {"check", "clearTime", "clearCount"}
            /\ failedPins' = failedPins
  PROVE  CountInv'
<1>1. CASE call'.pc \in {"clearTime", "clearCount"}
  BY <1>1, CountBound DEF CountInv
<1>2. CASE /\ call.pc \notin {"check", "clearTime", "clearCount"}
           /\ call'.pc \notin {"check", "clearTime", "clearCount"}
           /\ failedPins' = failedPins
  <2>1. Counted' = Counted
    BY <1>2 DEF Counted, Pending
  <2> QED
    BY <1>2, <2>1 DEF CountInv
<1> QED
  BY <1>1, <1>2

LEMMA CountPinWrites ==
  ASSUME PinInv, TypeOK', CountInv, Stamp \/ ClearTime \/ ClearCount \/ PutPin
  PROVE  CountInv'
<1>0. TypeOK /\ keychain \in Keychain /\ call \in Call
  BY DEF PinInv, TypeOK
<1> USE DEF Put, Goto, Return, NoCall, Memory, History, Keychain, Call
<1>1. CASE Stamp
  BY <1>0, <1>1, CountStays DEF Stamp
<1>2. CASE ClearTime
  BY <1>0, <1>2, CountStays DEF ClearTime
<1>3. CASE ClearCount
  BY <1>0, <1>3, CountCleared DEF ClearCount
<1>4. CASE PutPin
  BY <1>0, <1>4, CountStays DEF PutPin
<1> QED
  BY <1>1, <1>2, <1>3, <1>4

LEMMA CountWalletWrites ==
  ASSUME PinInv, TypeOK', CountInv,
         \/ PutCreationTime \/ PutMnemonic \/ PutMasterPubKey \/ DropSeed \/ WipeStep
  PROVE  CountInv'
<1>0. TypeOK /\ keychain \in Keychain /\ call \in Call
  BY DEF PinInv, TypeOK
<1> USE DEF Put, Goto, Return, NoCall, Memory, History, Keychain, Call
<1>1. CASE PutCreationTime
  BY <1>0, <1>1, CountStays DEF PutCreationTime
<1>2. CASE PutMnemonic
  BY <1>0, <1>2, CountStays DEF PutMnemonic
<1>3. CASE PutMasterPubKey
  BY <1>0, <1>3, CountStays DEF PutMasterPubKey
<1>4. CASE DropSeed
  BY <1>0, <1>4, CountStays DEF DropSeed
<1>5. CASE WipeStep
  <2>1. Removes
    BY <1>5, WipeRemoves
  <2>2. CASE call.at = 3
    BY <2>1, <2>2, CountCleared DEF Removes
  <2>3. CASE call.at # 3
    BY <1>0, <2>1, <2>3, CountStays DEF Removes
  <2> QED
    BY <2>2, <2>3
<1> QED
  BY <1>1, <1>2, <1>3, <1>4, <1>5

LEMMA CountBegins ==
  ASSUME PinInv, CountInv,
         \/ Login
         \/ \E p \in Pins : Attempt("login", p, Nil)
         \/ \E p, new \in Pins : Attempt("changePin", p, new)
         \/ \E new \in Pins, f \in Phrases \cup {Nil} : ForceSetPin(new, f)
         \/ \E f \in Phrases : Recover(f) \/ Create(f)
         \/ WipeWallet
  PROVE  CountInv'
<1>1. /\ call.pc = "idle" /\ UNCHANGED <<keychain, failedPins, tried, faults>>
      /\ call'.pc \in {"count", "putPin", "mnemonic", "creation", "wipe"}
  BY DEF Login, Attempt, ForceSetPin, Recover, Create, WipeWallet, Begin, Idle, NoCall,
         Memory, History
<1> QED
  BY <1>1, CountStays DEF PinInv

LEMMA CountProcess ==
  ASSUME PinInv, TypeOK', CountInv,
         UseWallet \/ KeychainError \/ Killed \/ Launch \/ Tick
  PROVE  CountInv'
<1>0. TypeOK
  BY DEF PinInv
<1> USE DEF Memory, History
<1>1. CASE UseWallet \/ Tick
  <2>1. UNCHANGED <<keychain, failedPins, tried, faults, call>>
    BY <1>1 DEF UseWallet, Tick
  <2> QED
    BY <2>1 DEF CountInv, Counted, Pending
<1>2. CASE KeychainError \/ Killed
  <2>1. faults' = faults + 1 /\ UNCHANGED <<keychain, tried>>
    BY <1>2 DEF KeychainError, Killed, Fault
  <2>2. keychain.pinFailCount <= Cardinality(tried) * (faults + 1)
    BY <1>0, CountBound
  <2> QED
    BY <2>1, <2>2, CountAfterFault DEF CountInv
<1>3. CASE Launch
  <2>1. /\ call.pc = "idle" /\ call'.pc \in {"idle", "mnemonic"}
        /\ UNCHANGED <<keychain, failedPins, tried, faults>>
    BY <1>3 DEF Launch, Begin, NoCall
  <2> QED
    BY <1>0, <2>1, CountStays
<1> QED
  BY <1>1, <1>2, <1>3

LEMMA CountNext == PinInv /\ PinInv' /\ CountInv /\ [Next]_vars => CountInv'
<1> SUFFICES ASSUME PinInv, PinInv', CountInv, [Next]_vars PROVE CountInv'
  OBVIOUS
<1>0. TypeOK'
  BY DEF PinInv
<1>1. CASE Step
  BY <1>0, <1>1, CountCounts, CountChecks, CountPinWrites, CountWalletWrites DEF Step
<1>2. CASE Login
  BY <1>2, CountBegins
<1>3. CASE Others
  BY <1>0, <1>3, CountBegins, CountProcess DEF Others
<1>4. CASE Launch \/ Tick
  BY <1>0, <1>4, CountProcess
<1>5. CASE UNCHANGED vars
  BY <1>5 DEF vars, CountInv, Counted, Pending
<1> QED
  BY <1>1, <1>2, <1>3, <1>4, <1>5 DEF Next

\* For any pins and any number of kills and keychain errors: the count that locks and
\* wipes the wallet is at most the number of different pins tried since a pin was last
\* right, once for each process that was cut short and once for the one that runs.
THEOREM CountsArePins == Spec => []CountsUniquePins
<1>1. TypeOK /\ CountInv => CountsUniquePins
  BY CountBound DEF CountsUniquePins
<1>2. Spec => []CountInv
  BY CountInit, CountNext, PinInvariant, PTL DEF Spec
<1> QED
  BY <1>1, <1>2, PinTypeCorrect, PTL

----------------------------------------------------------------------------
(* How long the locks are. *)

LEMMA SmallestNumber ==
  ASSUME NEW T \in SUBSET Nat, T # {}
  PROVE  \E m \in T : \A n \in T : m <= n
<1> DEFINE R == {ss \in Nat \X Nat : ss[1] < ss[2]}
<1>1. IsWellFoundedOn(R, Nat)
  BY NatLessThanWellFounded, Zenon DEF OpToRel
<1>2. PICK m \in T : \A n \in T : ~ (<<n, m>> \in R)
  <2> HIDE DEF R
  <2> QED
    BY <1>1, WFMin, Zenon
<1>3. \A n \in T : ~(n < m)
  BY <1>2
<1> QED
  BY <1>3

\* f satisfies the equation of LockTotal up to n.
TotalsUpTo(f, n) ==
  \A m \in 0..n : f[m] = IF m <= LockAfter THEN 0 ELSE f[m - 1] + Lock(m - 1)

\* Two such functions agree: there is no smallest number where they do not.
LEMMA TotalsAgree ==
  ASSUME NEW n \in Nat, NEW f, NEW g, TotalsUpTo(f, n), TotalsUpTo(g, n)
  PROVE  f[n] = g[n]
<1> SUFFICES ASSUME f[n] # g[n] PROVE FALSE
  OBVIOUS
<1> DEFINE T == {m \in 0..n : f[m] # g[m]}
<1>1. T \in SUBSET Nat /\ T # {}
  OBVIOUS
<1>2. PICK m \in T : \A k \in T : m <= k
  BY <1>1, SmallestNumber
<1>3. m \in 0..n /\ f[m] # g[m]
  BY <1>2
<1>4. /\ f[m] = IF m <= LockAfter THEN 0 ELSE f[m - 1] + Lock(m - 1)
      /\ g[m] = IF m <= LockAfter THEN 0 ELSE g[m - 1] + Lock(m - 1)
  BY <1>3, Zenon DEF TotalsUpTo
<1>5. m > LockAfter /\ f[m - 1] # g[m - 1]
  <2>1. m > LockAfter
    BY <1>3, <1>4
  <2>2. ~(m <= LockAfter)
    BY <1>3, <2>1
  <2>3. f[m] = f[m - 1] + Lock(m - 1) /\ g[m] = g[m - 1] + Lock(m - 1)
    BY <1>4, <2>2, Zenon
  <2> QED
    BY <1>3, <2>1, <2>3
<1>6. m - 1 \in T
  BY <1>3, <1>5
<1> QED
  BY <1>2, <1>3, <1>6

\* There is such a function for every n.
LEMMA TotalsExist ==
  ASSUME NEW n \in Nat
  PROVE  \E f : TotalsUpTo(f, n)
<1> SUFFICES ASSUME ~ \E f : TotalsUpTo(f, n) PROVE FALSE
  OBVIOUS
<1> DEFINE T == {m \in Nat : ~ \E f : TotalsUpTo(f, m)}
<1>1. T \in SUBSET Nat /\ T # {}
  OBVIOUS
<1>2. PICK m \in T : \A k \in T : m <= k
  <2> HIDE DEF T
  <2> QED
    BY <1>1, SmallestNumber
<1>3. m \in Nat /\ \A f : ~TotalsUpTo(f, m)
  BY <1>2
<1>4. m # 0
  <2>1. TotalsUpTo([k \in Nat |-> 0], 0)
    BY DEF TotalsUpTo
  <2> QED
    BY <1>3, <2>1
<1>5. PICK f : TotalsUpTo(f, m - 1)
  <2>1. m - 1 \in Nat /\ ~(m <= m - 1)
    BY <1>3, <1>4
  <2>2. m - 1 \notin T
    BY <1>2, <2>1
  <2> QED
    BY <2>1, <2>2
<1> DEFINE v == IF m <= LockAfter THEN 0 ELSE f[m - 1] + Lock(m - 1)
           g == [k \in Nat |-> IF k = m THEN v ELSE f[k]]
<1>6. \A k \in 0..m : g[k] = IF k <= LockAfter THEN 0 ELSE g[k - 1] + Lock(k - 1)
  <2> TAKE k \in 0..m
  <2>1. CASE k = m
    <3>1. g[m] = v /\ g[m - 1] = f[m - 1]
      <4> HIDE DEF v
      <4> QED
        BY <1>3, <1>4
    <3> QED
      BY <2>1, <3>1, Zenon
  <2>2. CASE k # m
    <3>1. k \in 0..(m - 1) /\ k \in Nat
      BY <1>3, <2>2
    <3>2. f[k] = IF k <= LockAfter THEN 0 ELSE f[k - 1] + Lock(k - 1)
      BY <1>5, <3>1, Zenon DEF TotalsUpTo
    <3>3. g[k] = f[k]
      <4> HIDE DEF v
      <4> QED
        BY <2>2, <3>1
    <3>4. CASE k <= LockAfter
      BY <3>2, <3>3, <3>4, Zenon
    <3>5. CASE ~(k <= LockAfter)
      <4>1. k - 1 \in Nat /\ k - 1 # m
        BY <1>3, <3>1, <3>5
      <4>2. g[k - 1] = f[k - 1]
        <5> HIDE DEF v
        <5> QED
          BY <4>1
      <4>3. f[k] = f[k - 1] + Lock(k - 1)
        BY <3>2, <3>5, Zenon
      <4> HIDE DEF g
      <4> QED
        BY <3>3, <3>5, <4>2, <4>3, Zenon
    <3> QED
      BY <3>4, <3>5, Zenon
  <2> QED
    BY <2>1, <2>2, Zenon
<1>7. TotalsUpTo(g, m)
  <2> HIDE DEF g
  <2> QED
    BY <1>6, Zenon DEF TotalsUpTo
<1> QED
  BY <1>3, <1>7, Zenon

\* LockTotal is what its definition says.
LEMMA LockTotalEquation ==
  LockTotal = [n \in Nat |-> IF n <= LockAfter THEN 0 ELSE LockTotal[n - 1] + Lock(n - 1)]
<1> DEFINE h(n) == CHOOSE f : TotalsUpTo(f, n)
           G == [n \in Nat |-> h(n)[n]]
           RHS(f) == [n \in Nat |-> IF n <= LockAfter THEN 0 ELSE f[n - 1] + Lock(n - 1)]
<1>1. \A n \in Nat : TotalsUpTo(h(n), n)
  BY TotalsExist, Zenon
<1>2. \A n \in Nat : G[n] = IF n <= LockAfter THEN 0 ELSE G[n - 1] + Lock(n - 1)
  <2> TAKE n \in Nat
  <2>1. n \in 0..n
    OBVIOUS
  <2>2. G[n] = h(n)[n]
    <3> HIDE DEF h
    <3> QED
      OBVIOUS
  <2>3. h(n)[n] = IF n <= LockAfter THEN 0 ELSE h(n)[n - 1] + Lock(n - 1)
    <3> HIDE DEF h, G
    <3> QED
      BY <1>1, <2>1, Zenon DEF TotalsUpTo
  <2>4. CASE n <= LockAfter
    BY <2>2, <2>3, <2>4, Zenon
  <2>5. CASE ~(n <= LockAfter)
    <3>1. n - 1 \in Nat /\ \A m \in 0..(n - 1) : m \in 0..n
      BY <2>5
    <3>2. TotalsUpTo(h(n), n - 1)
      <4> HIDE DEF h, G
      <4> QED
        BY <1>1, <3>1, Zenon DEF TotalsUpTo
    <3>3. h(n)[n - 1] = h(n - 1)[n - 1]
      <4> HIDE DEF h, G
      <4> QED
        BY <1>1, <3>1, <3>2, TotalsAgree, Zenon
    <3>4. G[n - 1] = h(n - 1)[n - 1]
      <4> HIDE DEF h
      <4> QED
        BY <3>1
    <3> HIDE DEF h, G
    <3> QED
      BY <2>2, <2>3, <2>5, <3>3, <3>4, Zenon
  <2> QED
    BY <2>4, <2>5, Zenon
<1>3. G = RHS(G)
  <2>1. G = [n \in Nat |-> G[n]]
    <3> HIDE DEF h
    <3> QED
      OBVIOUS
  <2> HIDE DEF G
  <2> QED
    BY <1>2, <2>1, Zenon
<1> HIDE DEF G
<1>4. LockTotal = CHOOSE f : f = RHS(f)
  BY Zenon DEF LockTotal
<1>5. (CHOOSE f : f = RHS(f)) = RHS(CHOOSE f : f = RHS(f))
  <2> HIDE DEF RHS
  <2> QED
    BY <1>3, Zenon
<1> QED
  BY <1>4, <1>5, Zenon

\* Each lock after the first one adds its time.
LEMMA LocksAdd ==
  /\ \A n \in LockAfter..WipeAfter : LockTotal[n] \in Nat
  /\ \A n \in LockAfter..(WipeAfter - 1) :
       Lock(n) \in Nat /\ LockTotal[n + 1] = LockTotal[n] + Lock(n)
  /\ LockTotal[LockAfter] = 0
<1>1. \A n \in Nat :
        LockTotal[n] = IF n <= LockAfter THEN 0 ELSE LockTotal[n - 1] + Lock(n - 1)
  <2> DEFINE E(n) == IF n <= LockAfter THEN 0 ELSE LockTotal[n - 1] + Lock(n - 1)
  <2>1. LockTotal = [n \in Nat |-> E(n)]
    BY LockTotalEquation, Zenon
  <2> SUFFICES \A n \in Nat : LockTotal[n] = E(n)
    OBVIOUS
  <2> HIDE DEF E
  <2> QED
    BY <2>1
<1>2. LockTotal[LockAfter] = 0
  BY <1>1
<1>3. \A n \in LockAfter..(WipeAfter - 1) :
        Lock(n) \in Nat /\ LockTotal[n + 1] = LockTotal[n] + Lock(n)
  <2> TAKE n \in LockAfter..(WipeAfter - 1)
  <2>1. n - LockAfter \in 0..WipeAfter /\ n + 1 \in Nat /\ ~(n + 1 <= LockAfter)
        /\ (n + 1) - 1 = n
    OBVIOUS
  <2>2. Lock(n) \in Nat
    <3>1. Base ^ (n - LockAfter) \in Nat /\ Minute \in Nat
      BY <2>1
    <3> QED
      BY <3>1 DEF Lock
  <2>3. LockTotal[n + 1] = LockTotal[(n + 1) - 1] + Lock((n + 1) - 1)
    BY <1>1, <2>1, Zenon
  <2>4. LockTotal[n + 1] = LockTotal[n] + Lock(n)
    BY <2>1, <2>3, Zenon
  <2> QED
    BY <2>2, <2>4
<1>4. \A n \in LockAfter..WipeAfter : LockTotal[n] \in Nat
  <2> SUFFICES ASSUME NEW n \in LockAfter..WipeAfter, LockTotal[n] \notin Nat PROVE FALSE
    OBVIOUS
  <2> DEFINE T == {m \in LockAfter..WipeAfter : LockTotal[m] \notin Nat}
  <2>1. T \in SUBSET Nat /\ T # {}
    OBVIOUS
  <2>2. PICK m \in T : \A k \in T : m <= k
    BY <2>1, SmallestNumber
  <2>3. m \in LockAfter..WipeAfter /\ LockTotal[m] \notin Nat /\ m # LockAfter
    BY <1>2, <2>2
  <2>4. m - 1 \in LockAfter..(WipeAfter - 1) /\ (m - 1) + 1 = m
    BY <2>3
  <2>5. LockTotal[m - 1] \in Nat
    <3>1. m - 1 \notin T
      BY <2>2, <2>3
    <3> QED
      BY <2>4, <3>1
  <2>6. Lock(m - 1) \in Nat /\ LockTotal[m] = LockTotal[m - 1] + Lock(m - 1)
    BY <1>3, <2>4
  <2> QED
    BY <2>3, <2>5, <2>6
<1> QED
  BY <1>2, <1>3, <1>4

----------------------------------------------------------------------------
(* The locks are sat out. *)

\* Until the call that is counted now, and until the time of the last failure.
SatOut ==
  keychain.pinFailCount >= LockAfter
    => call.secureTime >= lockedAt + LockTotal[keychain.pinFailCount]
Settled ==
  /\ keychain.pinFailCount < WipeAfter
  /\ keychain.pinFailCount >= LockAfter
       => keychain.pinFailTime >= lockedAt + LockTotal[keychain.pinFailCount]

\* Between two calls the time of the last failure accounts for all the locks so far, and
\* a call that is let through starts a lock later than that.  From the count to the time
\* stamp it is the call's own time that accounts for them.  A right pin and a wipe take
\* the time away before the count.
LockInv ==
  /\ call.secureTime <= now
  /\ cutShort
     \/ /\ call.pc \notin {"check", "stamp", "clearTime", "clearCount", "wipe"} => Settled
        /\ call.pc = "count" /\ keychain.pinFailCount >= LockAfter
             => call.secureTime >= keychain.pinFailTime + Lock(keychain.pinFailCount)
        /\ call.pc = "check" /\ call.pin \in failedPins => Settled
        /\ call.pc = "check" /\ call.pin \notin failedPins
             => SatOut /\ keychain.pinFailCount <= WipeAfter
        /\ call.pc = "stamp" => SatOut /\ keychain.pinFailCount < WipeAfter
        /\ WipingForPins /\ call.at = 1 => SatOut /\ keychain.pinFailCount = WipeAfter
        /\ call.pc = "wipe" /\ call.at > 3 => keychain.pinFailCount = 0 /\ lockedAt = 0

\* With nothing counted nothing is to be sat out.
LEMMA SettledWhenCleared ==
  ASSUME TypeOK, keychain.pinFailCount = 0, lockedAt = 0
  PROVE  Settled
<1>1. keychain.pinFailTime \in Nat
  BY DEF TypeOK, Keychain
<1>2. LockAfter = 0 => LockTotal[0] = 0
  BY LocksAdd
<1> QED
  BY <1>1, <1>2 DEF Settled

LEMMA SettledWhenClearedNext ==
  ASSUME TypeOK', keychain'.pinFailCount = 0, lockedAt' = 0
  PROVE  Settled'
<1>1. keychain'.pinFailTime \in Nat
  BY DEF TypeOK, Keychain
<1>2. LockAfter = 0 => LockTotal[0] = 0
  BY LocksAdd
<1> QED
  BY <1>1, <1>2 DEF Settled

\* Steps between calls, or of calls that do not touch the count and its time.
LEMMA LockStays ==
  ASSUME LockInv, UNCHANGED lockedAt, call'.secureTime <= now',
         keychain'.pinFailCount = keychain.pinFailCount,
         keychain'.pinFailTime = keychain.pinFailTime,
         cutShort => cutShort',
         call.pc \notin {"check", "stamp", "clearTime", "clearCount", "wipe"},
         \/ call'.pc \notin {"count", "check", "stamp", "wipe"}
         \/ call'.pc = "wipe" /\ call'.op = "wipeWallet" /\ call'.at = 1
  PROVE  LockInv'
<1>1. CASE cutShort
  <2>1. cutShort'
    BY <1>1
  <2> QED
    BY <2>1 DEF LockInv
<1>2. CASE ~cutShort
  <2>1. Settled
    BY <1>2 DEF LockInv
  <2>2. Settled'
    BY <2>1 DEF Settled
  <2> QED
    BY <2>2 DEF LockInv, WipingForPins
<1> QED
  BY <1>1, <1>2

LEMMA LockInit == Init => LockInv
<1> SUFFICES ASSUME Init PROVE LockInv
  OBVIOUS
<1>1. TypeOK
  BY PinInit DEF PinInv
<1>2. keychain.pinFailCount = 0 /\ lockedAt = 0 /\ call = NoCall /\ now = 1
  <2>1. CASE keychain = EmptyKeychain
    BY <2>1 DEF EmptyKeychain, Init
  <2>2. ASSUME NEW p \in Pins, NEW f \in OldPhrases, keychain = OldKeychain(p, f)
        PROVE  keychain.pinFailCount = 0
    BY <2>2 DEF OldKeychain, EmptyKeychain
  <2> QED
    BY <2>1, <2>2 DEF Init
<1>3. Settled
  BY <1>1, <1>2, SettledWhenCleared
<1> QED
  BY <1>2, <1>3 DEF LockInv, NoCall, WipingForPins

\* A call that was let through came after the lock, so that it accounts for one more.
LEMMA LockCounts == PinInv /\ LockInv /\ Count => LockInv'
<1> SUFFICES ASSUME PinInv, LockInv, Count PROVE LockInv'
  OBVIOUS
<1>0. /\ keychain \in Keychain /\ call \in Call /\ now \in Nat /\ lockedAt \in Nat
      /\ keychain.pinFailCount \in Nat /\ keychain.pinFailTime \in Nat
      /\ call.secureTime \in Nat /\ call.secureTime <= now
  BY DEF PinInv, TypeOK, Keychain, Call, LockInv
<1>1. /\ call.pc = "count" /\ call'.pc = "check" /\ call'.pin = call.pin
      /\ call'.secureTime = call.secureTime
      /\ UNCHANGED <<failedPins, now, cutShort>>
  BY <1>0 DEF Count, Goto, Memory, Call
<1>2. CASE cutShort
  BY <1>0, <1>1, <1>2 DEF LockInv
<1>3. CASE ~cutShort
  <2>0. /\ Settled
        /\ keychain.pinFailCount >= LockAfter
             => call.secureTime >= keychain.pinFailTime + Lock(keychain.pinFailCount)
    BY <1>1, <1>3 DEF LockInv
  <2>1. CASE call.pin \in failedPins
    <3>1. UNCHANGED <<keychain, lockedAt>>
      BY <2>1 DEF Count
    <3> QED
      BY <1>0, <1>1, <2>0, <2>1, <3>1 DEF LockInv, Settled, WipingForPins
  <2>2. CASE call.pin \notin failedPins
    <3> DEFINE c == keychain.pinFailCount
    <3>1. /\ keychain'.pinFailCount = c + 1
          /\ lockedAt' = IF c + 1 = LockAfter THEN call.secureTime ELSE lockedAt
      BY <1>0, <2>2 DEF Count, Put, Keychain
    <3>2. c \in Nat /\ c < WipeAfter
      BY <1>0, <2>0 DEF Settled
    <3>3. c + 1 >= LockAfter => call.secureTime >= lockedAt' + LockTotal[c + 1]
      <4>1. CASE c + 1 = LockAfter
        BY <1>0, <3>1, <4>1, LocksAdd
      <4>2. CASE c >= LockAfter
        <5>1. /\ c \in LockAfter..(WipeAfter - 1) /\ c \in LockAfter..WipeAfter
              /\ lockedAt' = lockedAt
          BY <3>1, <3>2, <4>2
        <5>2. /\ LockTotal[c] \in Nat /\ Lock(c) \in Nat
              /\ LockTotal[c + 1] = LockTotal[c] + Lock(c)
          BY <5>1, LocksAdd
        <5>3. /\ call.secureTime >= keychain.pinFailTime + Lock(c)
              /\ keychain.pinFailTime >= lockedAt + LockTotal[c]
          BY <2>0, <4>2 DEF Settled
        <5> HIDE DEF c
        <5> QED
          BY <1>0, <5>1, <5>2, <5>3
      <4> QED
        BY <3>2, <4>1, <4>2
    <3>4. SatOut' /\ keychain'.pinFailCount <= WipeAfter
      BY <1>0, <1>1, <3>1, <3>2, <3>3 DEF SatOut
    <3> QED
      BY <1>0, <1>1, <2>2, <3>4 DEF LockInv, WipingForPins
  <2> QED
    BY <2>1, <2>2
<1> QED
  BY <1>2, <1>3

LEMMA LockChecks == PinInv /\ LockInv /\ Check => LockInv'
<1> SUFFICES ASSUME PinInv, LockInv, Check PROVE LockInv'
  OBVIOUS
<1>0. /\ call \in Call /\ now \in Nat /\ call.pc = "check" /\ call.secureTime <= now
      /\ keychain.pinFailCount \in Nat
      /\ UNCHANGED <<keychain, now, lockedAt, cutShort>>
  BY DEF PinInv, TypeOK, Keychain, Check, History, LockInv
<1>1. CASE call.pin = keychain.pin
  <2>1. call'.pc = "clearTime" /\ call'.secureTime = call.secureTime
    BY <1>0, <1>1 DEF Check, Goto, Call
  <2> QED
    BY <1>0, <2>1 DEF LockInv, WipingForPins
<1>2. CASE call.pin # keychain.pin /\ call.pin \in failedPins
  <2>1. call' = NoCall
    BY <1>2 DEF Check, Return
  <2>2. ~cutShort => Settled'
    BY <1>0, <1>2 DEF LockInv, Settled
  <2> QED
    BY <1>0, <2>1, <2>2 DEF LockInv, WipingForPins, NoCall
<1>3. CASE call.pin # keychain.pin /\ call.pin \notin failedPins
  <2>1. /\ call'.secureTime = call.secureTime /\ call'.at = call.at /\ call.at = 1
        /\ call'.pc = IF keychain.pinFailCount >= WipeAfter THEN "wipe" ELSE "stamp"
    BY <1>0, <1>3 DEF Check, Goto, Call, PinInv, CallInv
  <2>2. ~cutShort => SatOut' /\ keychain.pinFailCount <= WipeAfter
    BY <1>0, <1>3, <2>1 DEF LockInv, SatOut
  <2> QED
    BY <1>0, <2>1, <2>2 DEF LockInv, WipingForPins
<1> QED
  BY <1>1, <1>2, <1>3

LEMMA LockPinWrites ==
  ASSUME PinInv, TypeOK', LockInv, Stamp \/ ClearTime \/ ClearCount \/ PutPin
  PROVE  LockInv'
<1>0. /\ keychain \in Keychain /\ call \in Call /\ now \in Nat /\ lockedAt \in Nat
      /\ keychain.pinFailCount \in Nat /\ keychain.pinFailTime \in Nat
      /\ call.secureTime \in Nat /\ call.secureTime <= now
      /\ cutShort \in BOOLEAN /\ cutShort' \in BOOLEAN
  BY DEF PinInv, TypeOK, Keychain, Call, LockInv
<1> USE DEF Put, Goto, Return, NoCall, Memory, History
<1>1. CASE Stamp
  <2>1. /\ keychain'.pinFailCount = keychain.pinFailCount
        /\ keychain'.pinFailTime >= call.secureTime
        /\ keychain'.pinFailTime \in Nat
        /\ UNCHANGED <<lockedAt, cutShort, now>> /\ call'.pc = "idle"
        /\ call'.secureTime = 0
    BY <1>0, <1>1 DEF Stamp, Keychain
  <2>2. ASSUME ~cutShort PROVE Settled'
    <3>1. SatOut /\ keychain.pinFailCount < WipeAfter
      BY <1>1, <2>2 DEF LockInv, Stamp
    <3>2. CASE keychain.pinFailCount >= LockAfter
      <4>1. LockTotal[keychain.pinFailCount] \in Nat
        BY <1>0, <3>1, <3>2, LocksAdd
      <4>2. call.secureTime >= lockedAt + LockTotal[keychain.pinFailCount]
        BY <3>1, <3>2 DEF SatOut
      <4>3. keychain'.pinFailTime >= lockedAt + LockTotal[keychain.pinFailCount]
        BY <1>0, <2>1, <4>1, <4>2
      <4> QED
        BY <2>1, <3>1, <4>3 DEF Settled
    <3>3. CASE ~(keychain.pinFailCount >= LockAfter)
      BY <2>1, <3>1, <3>3 DEF Settled
    <3> QED
      BY <3>2, <3>3
  <2> QED
    BY <1>0, <2>1, <2>2 DEF LockInv, WipingForPins
<1>2. CASE ClearTime
  BY <1>0, <1>2 DEF ClearTime, LockInv, WipingForPins, Call
<1>3. CASE ClearCount
  <2>1. /\ keychain'.pinFailCount = 0 /\ lockedAt' = 0 /\ now' = now
        /\ call'.pc \in {"idle", "putPin"} /\ call'.secureTime <= now
    BY <1>0, <1>3 DEF ClearCount, Keychain, Call
  <2>2. Settled'
    BY <2>1, SettledWhenClearedNext
  <2> QED
    BY <2>1, <2>2 DEF LockInv, WipingForPins
<1>4. CASE PutPin
  <2>1. /\ keychain'.pinFailCount = keychain.pinFailCount
        /\ keychain'.pinFailTime = keychain.pinFailTime
        /\ UNCHANGED <<lockedAt, cutShort, now>> /\ call.pc = "putPin"
        /\ call'.pc \in {"idle", "clearTime"} /\ call'.secureTime <= now
    BY <1>0, <1>4 DEF PutPin, Keychain, Call
  <2> QED
    BY <1>0, <2>1, LockStays
<1> QED
  BY <1>1, <1>2, <1>3, <1>4

LEMMA LockWalletWrites ==
  ASSUME PinInv, TypeOK', LockInv,
         PutCreationTime \/ PutMnemonic \/ PutMasterPubKey \/ DropSeed
  PROVE  LockInv'
<1>0. /\ keychain \in Keychain /\ call \in Call /\ now \in Nat /\ call.secureTime <= now
      /\ cutShort \in BOOLEAN /\ cutShort' \in BOOLEAN
  BY DEF PinInv, TypeOK, LockInv
<1>1. /\ keychain'.pinFailCount = keychain.pinFailCount
      /\ keychain'.pinFailTime = keychain.pinFailTime
      /\ UNCHANGED <<lockedAt, cutShort, now>>
      /\ call.pc \in {"creation", "mnemonic", "key", "dropSeed"}
      /\ call'.pc \in {"idle", "mnemonic", "key", "dropSeed"}
      /\ call'.secureTime <= now
  <2> USE DEF Put, Goto, Return, NoCall, Memory, History, Keychain, Call
  <2>1. CASE PutCreationTime
    BY <1>0, <2>1 DEF PutCreationTime
  <2>2. CASE PutMnemonic
    BY <1>0, <2>2 DEF PutMnemonic
  <2>3. CASE PutMasterPubKey
    BY <1>0, <2>3 DEF PutMasterPubKey
  <2>4. CASE DropSeed
    BY <1>0, <2>4 DEF DropSeed
  <2> QED
    BY <2>1, <2>2, <2>3, <2>4
<1> QED
  BY <1>0, <1>1, LockStays

\* From the third item on there is no count.
LEMMA LockWipes == PinInv /\ TypeOK' /\ LockInv /\ WipeStep => LockInv'
<1> SUFFICES ASSUME PinInv, TypeOK', LockInv, WipeStep PROVE LockInv'
  OBVIOUS
<1>0. /\ call \in Call /\ now \in Nat /\ call.secureTime <= now /\ Removes
  BY WipeRemoves DEF PinInv, TypeOK, LockInv
<1>1. /\ call.pc = "wipe" /\ call.at \in 1..7 /\ now' = now
      /\ keychain'.pinFailCount = IF call.at = 3 THEN 0 ELSE keychain.pinFailCount
      /\ call.at = 3 => lockedAt' = 0 /\ cutShort' = FALSE
      /\ call.at # 3 => UNCHANGED <<lockedAt, cutShort>>
      /\ call.at = 7 => call'.pc = "idle" /\ call'.secureTime = 0
      /\ call.at # 7 => /\ call'.pc = "wipe" /\ call'.at = call.at + 1
                        /\ call'.secureTime = call.secureTime
  BY <1>0 DEF Removes, NoCall, Call
<1>2. ~cutShort' /\ call.at >= 3 => keychain'.pinFailCount = 0 /\ lockedAt' = 0
  BY <1>1 DEF LockInv
<1>3. call.at = 7 /\ ~cutShort' => Settled'
  BY <1>2, SettledWhenClearedNext
<1> QED
  BY <1>0, <1>1, <1>2, <1>3 DEF LockInv, WipingForPins

LEMMA LockBegins ==
  ASSUME PinInv, TypeOK', LockInv,
         \/ Login
         \/ \E p \in Pins : Attempt("login", p, Nil)
         \/ \E p, new \in Pins : Attempt("changePin", p, new)
         \/ \E new \in Pins, f \in Phrases \cup {Nil} : ForceSetPin(new, f)
         \/ \E f \in Phrases : Recover(f) \/ Create(f)
         \/ WipeWallet
  PROVE  LockInv'
<1>0. /\ now \in Nat /\ keychain.pinFailCount \in Nat /\ keychain.pinFailTime \in Nat
      /\ cutShort \in BOOLEAN
  BY DEF PinInv, TypeOK, Keychain
<1> USE DEF Begin, Memory, History, Idle, NoCall
<1>1. ASSUME NEW op \in {"login", "changePin"}, NEW p, NEW new, Attempt(op, p, new)
      PROVE  LockInv'
  <2>1. /\ UNCHANGED <<keychain, now, lockedAt, cutShort>>
        /\ call.pc = "idle" /\ call'.pc = "count" /\ call'.secureTime = now /\ ~Locked
    BY <1>1 DEF Attempt
  <2>2. CASE cutShort
    BY <1>0, <2>1, <2>2 DEF LockInv
  <2>3. CASE ~cutShort
    <3>1. Settled /\ Settled'
      BY <2>1, <2>3 DEF LockInv, Settled
    <3>2. keychain.pinFailCount >= LockAfter
            => now >= keychain.pinFailTime + Lock(keychain.pinFailCount)
      <4>1. ASSUME keychain.pinFailCount >= LockAfter
            PROVE  Lock(keychain.pinFailCount) \in Nat
        <5>1. keychain.pinFailCount \in LockAfter..(WipeAfter - 1)
          BY <1>0, <3>1, <4>1 DEF Settled
        <5> QED
          BY <5>1, LocksAdd
      <4> QED
        BY <1>0, <2>1, <4>1 DEF Locked
    <3> QED
      BY <1>0, <2>1, <3>1, <3>2 DEF LockInv, WipingForPins
  <2> QED
    BY <2>2, <2>3
<1>2. ASSUME NEW new, NEW f, ForceSetPin(new, f) PROVE LockInv'
  <2>1. /\ UNCHANGED <<keychain, now, lockedAt, cutShort>>
        /\ call.pc = "idle" /\ call'.pc = "putPin" /\ call'.secureTime = now
    BY <1>2 DEF ForceSetPin
  <2> QED
    BY <1>0, <2>1, LockStays
<1>3. ASSUME NEW f, Recover(f) \/ Create(f) PROVE LockInv'
  <2>1. /\ UNCHANGED <<keychain, now, lockedAt, cutShort>>
        /\ call.pc = "idle" /\ call'.pc \in {"creation", "mnemonic"}
        /\ call'.secureTime = now
    BY <1>3 DEF Recover, Create
  <2> QED
    BY <1>0, <2>1, LockStays
<1>4. CASE WipeWallet
  <2>1. /\ UNCHANGED <<keychain, now, lockedAt, cutShort>>
        /\ call.pc = "idle" /\ call'.pc = "wipe" /\ call'.op = "wipeWallet"
        /\ call'.at = 1 /\ call'.secureTime = now
    BY <1>4 DEF WipeWallet
  <2> QED
    BY <1>0, <2>1, LockStays
<1> QED
  BY <1>1, <1>2, <1>3, <1>4 DEF Login

LEMMA LockProcess ==
  ASSUME PinInv, TypeOK', LockInv, UseWallet \/ KeychainError \/ Killed \/ Launch \/ Tick
  PROVE  LockInv'
<1>0. /\ now \in Nat /\ call.secureTime \in Nat /\ call.secureTime <= now
      /\ cutShort \in BOOLEAN /\ cutShort' \in BOOLEAN
  BY DEF PinInv, TypeOK, Call, LockInv
<1> USE DEF Memory, History
<1>1. CASE UseWallet \/ Tick
  <2>1. /\ UNCHANGED <<keychain, failedPins, call, lockedAt, cutShort>>
        /\ now' = now \/ now' = now + 1
    BY <1>1 DEF UseWallet, Tick
  <2> QED
    BY <1>0, <2>1 DEF LockInv, Settled, SatOut, WipingForPins
<1>2. CASE KeychainError \/ Killed
  <2>1. /\ UNCHANGED <<keychain, now, lockedAt>> /\ call'.pc = "idle"
        /\ call'.secureTime = 0
        /\ cutShort' = (cutShort \/ Midway)
    BY <1>2 DEF KeychainError, Killed, Return, NoCall
  <2>2. CASE Midway
    <3>1. cutShort' /\ call'.secureTime <= now'
      <4>1. cutShort'
        BY <2>1, <2>2, Zenon
      <4> QED
        BY <1>0, <2>1, <4>1
    <3> QED
      BY <3>1, Zenon DEF LockInv
  <2>3. CASE ~Midway
    <3>1. call.pc \notin {"check", "stamp", "clearTime", "clearCount", "wipe"}
      BY <2>3 DEF Midway
    <3>2. cutShort => cutShort'
      BY <2>1, Zenon
    <3> QED
      BY <1>0, <2>1, <3>1, <3>2, LockStays
  <2> QED
    BY <2>2, <2>3
<1>3. CASE Launch
  <2>1. /\ call.pc = "idle" /\ call'.pc \in {"idle", "mnemonic"}
        /\ call'.secureTime <= now
        /\ UNCHANGED <<keychain, lockedAt, cutShort, now>>
    BY <1>0, <1>3 DEF Launch, Begin, NoCall
  <2> QED
    BY <1>0, <2>1, LockStays
<1> QED
  BY <1>1, <1>2, <1>3

LEMMA LockNext == PinInv /\ PinInv' /\ LockInv /\ [Next]_vars => LockInv'
<1> SUFFICES ASSUME PinInv, PinInv', LockInv, [Next]_vars PROVE LockInv'
  OBVIOUS
<1>0. TypeOK'
  BY DEF PinInv
<1>1. CASE Step
  BY <1>0, <1>1, LockCounts, LockChecks, LockPinWrites, LockWalletWrites, LockWipes
     DEF Step
<1>2. CASE Login
  BY <1>0, <1>2, LockBegins
<1>3. CASE Others
  BY <1>0, <1>3, LockBegins, LockProcess DEF Others
<1>4. CASE Launch \/ Tick
  BY <1>0, <1>4, LockProcess
<1>5. CASE UNCHANGED vars
  BY <1>5 DEF vars, LockInv, Settled, SatOut, WipingForPins
<1> QED
  BY <1>1, <1>2, <1>3, <1>4, <1>5 DEF Next

\* For any pins, limits and lengths of the locks, and across restarts: when wrong pins
\* begin to wipe the wallet, the time since it was first locked is at least the sum of
\* all the locks in between, unless a kill or a keychain error cut an attempt short
\* between the count and the time stamp.
THEOREM LocksAreSatOut == Spec => []LocksSatOut
<1>1. PinInv /\ LockInv => LocksSatOut
  <2> SUFFICES ASSUME PinInv, LockInv, WipingForPins, call.at = 1, ~cutShort
               PROVE  now >= lockedAt + LockTotal[WipeAfter]
    BY DEF LocksSatOut
  <2>1. call.secureTime <= now /\ SatOut /\ keychain.pinFailCount = WipeAfter
    BY DEF LockInv
  <2>2. call.secureTime >= lockedAt + LockTotal[WipeAfter]
    BY <2>1 DEF SatOut
  <2>3. /\ LockTotal[WipeAfter] \in Nat /\ now \in Nat /\ lockedAt \in Nat
        /\ call.secureTime \in Nat
    BY LocksAdd DEF PinInv, TypeOK, Call
  <2> QED
    BY <2>1, <2>2, <2>3
<1>2. Spec => []LockInv
  BY LockInit, LockNext, PinInvariant, PTL DEF Spec
<1> QED
  BY <1>1, <1>2, PinInvariant, PTL
=============================================================================
