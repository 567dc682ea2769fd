------------------------------ MODULE WireForm ------------------------------
(***************************************************************************)
(* What a value of an xabi type looks like on the wire, as far as somebody *)
(* owns it or a decoder may refuse it.                                     *)
(*                                                                         *)
(*   xabi/src/contract.rs          XabiType and its implementations        *)
(*   xabi/src/error.rs             XabiType for Error                      *)
(*   xabi/src/ffi.rs               XabiOption                              *)
(*   xabi-macros/src               data types, opaque values, XabiV1Owned* *)
(*                                                                         *)
(* A form is the sequence of the value's leaves in the order in which they *)
(* are decoded.  A leaf has a kind, and open: how many of the leaves after *)
(* it are inside its buffer.  A type has several forms when a value of it  *)
(* contains an Option.                                                     *)
(*                                                                         *)
(*   "plain"    owns nothing, any bits will do                             *)
(*   "check"    owns nothing, may be refused                               *)
(*   "text"     String and Vec<u8>: a descriptor that is copied and freed  *)
(*   "payload"  the buffer of a wire struct, copied and freed              *)
(*   "owner"    XabiOwnedBytesOwner and XabiV1Owned*, adopted as they are, *)
(*              and only then validated                                    *)
(*   "object"   the vtable of impl Trait + 'static, validated and adopted  *)
(***************************************************************************)
EXTENDS Naturals, Sequences

CONSTANTS
  Types,       \* the types in use, with the types of their parts
  Fields       \* the types of the fields of each #[xabi::data] type

Leaf(kind) == <<[kind |-> kind, open |-> 0]>>

(* The forms f \o g of two values that follow one another.                 *)
Then(F, G) == {f \o g : f \in F, g \in G}

(* A buffer that contains one of the forms F.                              *)
Inside(F) == {<<[kind |-> "payload", open |-> Len(f)]>> \o f : f \in F}

(* The types that are a single leaf.                                       *)
Bytes == {Leaf("text")}             \* String and Vec<u8>
Owned == {Leaf("owner")}            \* XabiOwnedBytesOwner
OwnedTrait == {Leaf("owner")}       \* xabi_from_owned_ref
Integer == {Leaf("plain")}
Bool == {Leaf("check")}
ErrorKind == {Leaf("check")}
Opaque == {Leaf("check")}

(* into_payload and from_payload: the types that override the default are  *)
(* their own payload, and an Error sends its message.                      *)
Payload(t, wire) ==
  CASE t.name \in {"String", "Vec<u8>", "XabiOwnedBytesOwner"} -> wire
    [] t.name = "Error" -> Bytes
    [] OTHER            -> Inside(wire)

(* XabiOption: the discriminant, and for Some the payload of the value.    *)
Option(payload) == {Leaf("check")} \cup Then({Leaf("check")}, payload)

(* into_wire and from_wire.  The wire struct of a data type is checked,    *)
(* then its fields are read one after the other.                           *)
WireOfFields(fs, wire) ==
  LET From[i \in 1..(Len(fs) + 1)] ==
        IF i > Len(fs) THEN {<<>>} ELSE Then(wire[fs[i]], From[i + 1])
  IN From[1]

Wire[t \in Types] ==
  CASE t.name \in {"String", "Vec<u8>"} -> Bytes
    [] t.name = "XabiOwnedBytesOwner"   -> Owned
    [] t.name = "XabiV1OwnedTrait"      -> OwnedTrait
    [] t.name = "u32"                   -> Integer
    [] t.name = "bool"                  -> Bool
    [] t.name = "Error"                 -> ErrorKind
    [] t.name = "Opaque"                -> Opaque
    [] t.name = "Option"                ->
         Option(Payload(t.args[1], Wire[t.args[1]]))
    [] OTHER -> Then({Leaf("check")}, WireOfFields(Fields[t.name], Wire))

PayloadForms(t) == Payload(t, Wire[t])

(* impl Trait + 'static: the reference struct, then the vtable behind it.  *)
ObjectForms == Inside({Leaf("check") \o Leaf("object")})

(* (T, impl Trait + 'static): one struct with the wire of both.            *)
PairForms(t) == Inside(Then(Then({Leaf("check")}, Wire[t]),
                            {Leaf("check") \o Leaf("object")}))
=============================================================================
