--------------------------- MODULE AwaitedFuture ---------------------------
(***************************************************************************)
(* What XabiTypedFuture promises whoever awaits a generated async method   *)
(* (docs/abi-design.md:227-231, and the failure table at 365-374): its     *)
(* future answers with at most one payload, which its awaiter takes over   *)
(* with the answer, a future that has answered has nothing more to give,   *)
(* and one can be given up whenever no payload is on the way.              *)
(*                                                                         *)
(* The module says nothing of wakers, threads or arguments.  FuturePoll is *)
(* shown to implement it for one future, OwnedCall for every async call:   *)
(* the two agree on when a future can be dropped and on who has a payload. *)
(***************************************************************************)

CONSTANT Future

VARIABLES
  stage,       \* how far a future is
  payload,     \* what it has written to the out slot of its awaiter
  answer       \* what the awaiter got

vars == <<stage, payload, answer>>

Stages == {"none", "running", "answered", "settled", "gone"}
Payloads == {"empty", "OK", "ERR_EXPORT"}
Answers == {"none", "value", "exportError", "runtimeError"}

TypeOK == /\ stage \in [Future -> Stages]
          /\ payload \in [Future -> Payloads]
          /\ answer \in [Future -> Answers]

(* A future is there from the start, or a call makes it.                   *)
Init == /\ stage \in [Future -> {"none", "running"}]
        /\ payload = [f \in Future |-> "empty"]
        /\ answer = [f \in Future |-> "none"]

Moves(f, before, after) == /\ stage[f] = before
                           /\ stage' = [stage EXCEPT ![f] = after]

Spawn(f) == Moves(f, "none", "running") /\ UNCHANGED <<payload, answer>>

(* The call fails, or is given up, before it has made a future.            *)
Decline(f) ==
  /\ Moves(f, "none", "gone")
  /\ \E a \in {"none", "runtimeError"} : answer' = [answer EXCEPT ![f] = a]
  /\ UNCHANGED payload

(* A poll that is not pending, with a result, an error or neither.         *)
Answer(f) ==
  /\ Moves(f, "running", "answered")
  /\ \E p \in Payloads : payload' = [payload EXCEPT ![f] = p]
  /\ UNCHANGED answer

(* The awaiter takes the payload over and is told what it was, or that it  *)
(* could not be read, or that there was none.                              *)
Settle(f) ==
  /\ Moves(f, "answered", "settled")
  /\ payload' = [payload EXCEPT ![f] = "empty"]
  /\ \E a \in {"runtimeError"} \cup (CASE payload[f] = "OK" -> {"value"}
                                       [] payload[f] = "ERR_EXPORT" -> {"exportError"}
                                       [] OTHER -> {}) :
       answer' = [answer EXCEPT ![f] = a]

(* A future that has settled is polled again: it has no payload any more.  *)
AnswerAgain(f) ==
  /\ Moves(f, "settled", "answered")
  /\ UNCHANGED <<payload, answer>>

(* It is dropped, by cancellation or after its answer.                     *)
Drop(f) ==
  /\ \E s \in {"running", "settled"} : Moves(f, s, "gone")
  /\ UNCHANGED <<payload, answer>>

Next == \E f \in Future : \/ Spawn(f) \/ Decline(f) \/ Answer(f) \/ Settle(f)
                          \/ AnswerAgain(f) \/ Drop(f)

Spec == Init /\ [][Next]_vars
=============================================================================
