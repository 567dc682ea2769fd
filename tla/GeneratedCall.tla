--------------------------- MODULE GeneratedCall ---------------------------
(***************************************************************************)
(* The calls of ResultTransfer, for the methods that MethodShape generates:*)
(* every method that is called was accepted by #[xabi::trait_], and is     *)
(* what the macro makes of its signature (xabi-macros/src/method/mod.rs,   *)
(* MethodSpec).                                                            *)
(***************************************************************************)
EXTENDS MethodShape, ResultTransfer

CONSTANT Signatures   \* the methods that are written in #[xabi::trait_] traits

(* A signature as syn parses it.  Types has all its types and their parts. *)
ASSUME SignaturesAssumption ==
  Signatures \subseteq [async : BOOLEAN, generic : BOOLEAN, receiver : STRING,
                       args : Seq(Types), ret : Types]

AcceptedSignatures == {sig \in Signatures : Accepted(sig)}

ASSUME GeneratedAssumption == Methods = {Expand(sig) : sig \in AcceptedSignatures}

(* Every accepted method is expanded: none falls through to an arm of the  *)
(* generator that leaves the caller without an answer (export.rs,          *)
(* mod.rs:115-161).                                                        *)
AcceptedMethodsExpand == Expands(method.sig)

(* Borrowed values are for input only: nothing that comes back borrows     *)
(* from the implementation (type_shape.rs:89-94).                          *)
ResultsOwnThemselves == ReturnsOwned(method.sig)

(* Every type of the signature that a call converts is asked for its       *)
(* layout when the snapshot is made (mod.rs:163-216 against export.rs and  *)
(* handle.rs).                                                             *)
CallsAreDescribed == IsDescribed(method.sig)
=============================================================================
