--------------------------- MODULE SharedLibrary ---------------------------
(***************************************************************************)
(* What library.rs:124-136 promises of a loaded library that any number of *)
(* values share: it is loaded for a first user, only a user can pass it on *)
(* to another one, and it is closed together with the departure of the     *)
(* last user, never earlier, never later, and for good.                    *)
(*                                                                         *)
(* The module says nothing of handles, calls or results; ModuleLifetime is *)
(* shown to implement it.                                                  *)
(***************************************************************************)

CONSTANTS
  Library,     \* the libraries, each loaded at most once
  User         \* the values that can keep a library loaded

VARIABLES
  state,       \* state[l]: "fresh", "loaded" or "unloaded"
  users        \* users[l]: the values that keep l loaded

vars == <<state, users>>

TypeOK == /\ state \in [Library -> {"fresh", "loaded", "unloaded"}]
          /\ users \in [Library -> SUBSET User]

Init == /\ state = [l \in Library |-> "fresh"]
        /\ users = [l \in Library |-> {}]

(* A value uses one library at a time.                                     *)
Unattached(u) == \A l \in Library : u \notin users[l]

Open(l, u) ==
  /\ state[l] = "fresh"
  /\ Unattached(u)
  /\ state' = [state EXCEPT ![l] = "loaded"]
  /\ users' = [users EXCEPT ![l] = {u}]

(* A user lets u share its library.                                        *)
Share(l, u) ==
  /\ users[l] # {}
  /\ Unattached(u)
  /\ users' = [users EXCEPT ![l] = @ \cup {u}]
  /\ UNCHANGED state

Leave(l, u) ==
  /\ u \in users[l]
  /\ users' = [users EXCEPT ![l] = @ \ {u}]
  /\ state' = IF users[l] = {u} THEN [state EXCEPT ![l] = "unloaded"] ELSE state

Next == \E l \in Library, u \in User : Open(l, u) \/ Share(l, u) \/ Leave(l, u)

Spec == Init /\ [][Next]_vars
=============================================================================
