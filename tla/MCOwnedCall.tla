---------------------------- MODULE MCOwnedCall ----------------------------
(* Small instances of OwnedCall for TLC: the argument lists of a method.   *)
EXTENDS OwnedCall

(* Two trait handles around a Vec<u8>.                                     *)
ThreeHooked == <<"token", "bytes", "token">>

(* A String argument next to a trait handle.                               *)
TokenAndPlain == <<"token", "plain">>
=============================================================================
