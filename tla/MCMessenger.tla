---------------------------- MODULE MCMessenger ----------------------------
(* Small instances of Messenger for TLC. *)
EXTENDS Messenger

CONSTANTS alice, bob, m1, m2

TwoUsers == {alice, bob}
TwoMsgs == {m1, m2}
TextsAndPhotos == {"text", "photo"}
=============================================================================
