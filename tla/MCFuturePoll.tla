---------------------------- MODULE MCFuturePoll ----------------------------
(* Small instances of FuturePoll for TLC.                                  *)
EXTENDS FuturePoll, TLC

(* Addresses are interchangeable; so are the executor's wakers.            *)
Addresses == Permutations(Shells) \cup Permutations(Boxes) \cup Permutations(HostWakers)
=============================================================================
