------------------------- MODULE ArgumentOwnership -------------------------
(***************************************************************************)
(* What docs/abi-design.md ("Ownership-Transferring Trait Arguments")      *)
(* promises of an argument whose ownership crosses the ABI: at any time it *)
(* has exactly one live owner, the ownership only moves forward along the  *)
(* path of the call, and the owner that ends up with it releases it, once. *)
(*                                                                         *)
(* The module says nothing of how a call is made; OwnedCall is shown to    *)
(* implement it.                                                           *)
(***************************************************************************)

CONSTANT Token    \* the resources that are passed as arguments

VARIABLES
  owner,          \* owner[t]: who must release t, "nobody" before and after
  released        \* the tokens whose release callback has run

vars == <<owner, released>>

(* The owners of the failure table, in the order of the protocol.          *)
Holder == {"caller", "wire", "callee", "future", "keeper"}

(* Handover[h]: the owners that h may pass a token on to.  The wire guard  *)
(* is emptied by the export decoder alone; a decoded argument moves into   *)
(* the exported future, or the implementation retains it.                  *)
Handover == [caller |-> {"wire"},
             wire   |-> {"callee"},
             callee |-> {"future", "keeper"},
             future |-> {"keeper"},
             keeper |-> {}]

TypeOK == /\ owner \in [Token -> Holder \cup {"nobody"}]
          /\ released \in SUBSET Token

Init == /\ owner = [t \in Token |-> "nobody"]
        /\ released = {}

(* A token enters the protocol as an argument of the generated method.     *)
Arrive(t) == /\ owner[t] = "nobody" /\ t \notin released
             /\ owner'[t] = "caller"
             /\ t \notin released'

Hand(t) == /\ owner[t] # "nobody"
           /\ owner'[t] \in Handover[owner[t]]
           /\ t \notin released'

Release(t) == /\ owner[t] # "nobody"
              /\ owner'[t] = "nobody"
              /\ t \in released'

Stay(t) == /\ owner'[t] = owner[t]
           /\ t \in released' <=> t \in released

(* One step of a call may move several of its arguments at once.           *)
Next == /\ owner' \in [Token -> Holder \cup {"nobody"}]
        /\ released' \in SUBSET Token
        /\ \A t \in Token : Arrive(t) \/ Hand(t) \/ Release(t) \/ Stay(t)

SafeSpec == Init /\ [][Next]_vars

(* Whatever arrives is released in the end.                                *)
NothingLeaks == \A t \in Token : (owner[t] # "nobody") ~> (t \in released)

Spec == SafeSpec /\ NothingLeaks
=============================================================================
