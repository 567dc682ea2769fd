---------------------------- MODULE MethodShape ----------------------------
(***************************************************************************)
(* Which methods #[xabi::trait_] accepts and what it generates for them:   *)
(* the slot of the vtable, the layouts that are collected with it, and     *)
(* what the thunk and the handle convert.  The name that snapshots record  *)
(* for the slot is in LayoutEvolution.                                     *)
(*                                                                         *)
(*   xabi-macros/src/type_shape.rs      types that may cross               *)
(*   xabi-macros/src/method/shape.rs    the classification of a method     *)
(*   xabi-macros/src/method/mod.rs      MethodSpec                         *)
(*   xabi-macros/src/method/export.rs   the thunk                          *)
(*   xabi-macros/src/method/handle.rs   the handle                         *)
(*                                                                         *)
(* A type is a record with a head, as the variants of syn::Type, of which  *)
(* parentheses and groups are looked through:                              *)
(*   "path"       name (of the last segment, with u8 for Vec), args (the   *)
(*                type arguments) and extras ("lifetime", "const", ...)    *)
(*   "reference"  mut and elem     "tuple"  elems                          *)
(*   "impl"       static, bounds (the traits other than markers) and plain *)
(*   "pointer", "array", "fn", and "none" for a missing return type        *)
(*                                                                         *)
(* A definition named A_Slip is A with a slip in it, see OwnedCall.        *)
(***************************************************************************)
EXTENDS WireForm

Unit == [head |-> "tuple", elems |-> <<>>]
XabiError == [head |-> "path", name |-> "Error", args |-> <<>>, extras |-> {}]

Rejected == [kind |-> "rejected"]

-----------------------------------------------------------------------------
(* type_shape.rs                                                           *)

Borrowing == {"DataField", "MethodArgument"}

(* A type with its type arguments, theirs, and so on: what is visited.     *)
Parts[t \in Types] ==
  {t} \cup (IF t.head = "path" THEN UNION {Parts[t.args[i]] : i \in DOMAIN t.args} ELSE {})

(* Paths only, whose arguments are paths; lifetimes where the value may    *)
(* borrow from the caller.                                                 *)
ValidValue(t, context) ==
  \A s \in Parts[t] :
    /\ s.head = "path"
    /\ s.extras \subseteq (IF context \in Borrowing THEN {"lifetime"} ELSE {})

-----------------------------------------------------------------------------
(* shape.rs                                                                *)

IsIdent(t, name) == t.head = "path" /\ t.name = name

ArgKind(t) ==
  IF t.head = "reference" /\ ~t.mut /\ t.elem = "[u8]" THEN "Bytes"
  ELSE IF t.head = "reference" /\ ~t.mut /\ t.elem = "str" THEN "Str"
  ELSE IF ValidValue(t, "MethodArgument") THEN "Value" ELSE "rejected"

(* impl SomeTrait + 'static, with one trait and any markers.               *)
IsObject(t) == /\ t.head = "impl"
               /\ t.static
               /\ Len(t.bounds) = 1
               /\ t.plain

ObjectName(t) == [head |-> "trait", name |-> t.bounds[1]]

IsPair(t) == /\ t.head = "tuple"
             /\ Len(t.elems) = 2
             /\ IsObject(t.elems[2])

(* What Result<payload, error> becomes.  Arguments of Result that are not  *)
(* types are skipped.                                                      *)
ResultOf(payload, error) ==
  CASE payload = Unit                -> [kind |-> "ResultUnit", error |-> error]
    [] IsIdent(payload, "String")    -> [kind |-> "ResultString", error |-> error]
    [] IsIdent(payload, "Vec<u8>")   -> [kind |-> "ResultBytes", error |-> error]
    [] IsObject(payload)             ->
         [kind |-> "ResultObject", object |-> ObjectName(payload), error |-> error]
    [] IsPair(payload) /\ ValidValue(payload.elems[1], "ResultPayload") ->
         [kind |-> "ResultObjectPair", ok |-> payload.elems[1],
          object |-> ObjectName(payload.elems[2]), error |-> error]
    [] ValidValue(payload, "ResultPayload") ->
         [kind |-> "ResultValue", ok |-> payload, error |-> error]
    [] OTHER                         -> Rejected

ResultRet_AnyError(t) ==
  IF Len(t.args) \notin 1..2 THEN Rejected
  ELSE ResultOf(t.args[1], IF Len(t.args) = 2 THEN t.args[2] ELSE XabiError)

ResultRet(t) ==
  LET error == IF Len(t.args) = 2 THEN t.args[2] ELSE XabiError
  IN IF Len(t.args) \notin 1..2 \/ ~ValidValue(error, "ResultError") THEN Rejected
     ELSE ResultOf(t.args[1], error)

ParseRet(t) ==
  CASE t.head = "none"       -> Rejected
    [] IsIdent(t, "String")  -> [kind |-> "String"]
    [] IsIdent(t, "u32")     -> [kind |-> "U32"]
    [] IsIdent(t, "bool")    -> [kind |-> "Bool"]
    [] IsIdent(t, "Result")  -> ResultRet(t)
    [] OTHER                 -> IF ValidValue(t, "MethodReturn")
                                THEN [kind |-> "Value", ok |-> t] ELSE Rejected

DirectKinds == {"String", "U32", "Bool", "Value"}

(* A method without Result has no arguments and is not async.              *)
ValidShape_AllowsAsync(sig) == ParseRet(sig.ret).kind \in DirectKinds => sig.args = <<>>

ValidShape(sig) ==
  ParseRet(sig.ret).kind \in DirectKinds => sig.args = <<>> /\ ~sig.async

MaxArgs == 16

(* MethodSpec::parse *)
Accepted(sig) ==
  /\ ~sig.generic
  /\ sig.receiver \in {"&self", "&mut self"}
  /\ Len(sig.args) <= MaxArgs
  /\ \A i \in DOMAIN sig.args : ArgKind(sig.args[i]) # "rejected"
  /\ ParseRet(sig.ret) # Rejected
  /\ ValidShape(sig)

-----------------------------------------------------------------------------
(* mod.rs                                                                  *)

Unsupported == <<"unsupported xabi method shape">>

FfiArg(t) ==
  CASE ArgKind(t) = "Bytes" -> <<"XabiBytes">>
    [] ArgKind(t) = "Str"   -> <<"XabiStr">>
    [] OTHER                -> <<"*const Wire", t>>

FfiArgs(sig) == [i \in DOMAIN sig.args |-> FfiArg(sig.args[i])]

DirectType == [String |-> "XabiOwnedBytes", U32 |-> "u32", Bool |-> "u8",
               Value |-> "XabiOwnedBytes"]

(* ffi_type: the type of the method's slot in the vtable.                  *)
FfiType(sig) ==
  LET kind == ParseRet(sig.ret).kind
  IN IF sig.async THEN <<"*mut c_void">> \o FfiArgs(sig) \o <<"*mut XabiFuture", "i32">>
     ELSE IF kind \notin DirectKinds
          THEN <<"*mut c_void">> \o FfiArgs(sig) \o <<"*mut XabiOwnedBytes", "i32">>
          ELSE IF sig.args = <<>> THEN <<"*mut c_void", DirectType[kind]>>
               ELSE Unsupported

ErrorTypes(ret) == IF ret.kind \in DirectKinds THEN {} ELSE {ret.error}

(* layout_dependencies: arguments by value, payload, object and error.     *)
LayoutDependencies_NoErrorOfObjects(sig) ==
  LET ret == ParseRet(sig.ret)
  IN {sig.args[i] : i \in {j \in DOMAIN sig.args : ArgKind(sig.args[j]) = "Value"}}
     \cup (IF ret.kind \in {"Value", "ResultValue", "ResultObjectPair"} THEN {ret.ok} ELSE {})
     \cup (IF ret.kind \in {"ResultObject", "ResultObjectPair"} THEN {ret.object}
           ELSE ErrorTypes(ret))

LayoutDependencies(sig) ==
  LET ret == ParseRet(sig.ret)
  IN {sig.args[i] : i \in {j \in DOMAIN sig.args : ArgKind(sig.args[j]) = "Value"}}
     \cup (IF ret.kind \in {"Value", "ResultValue", "ResultObjectPair"} THEN {ret.ok} ELSE {})
     \cup (IF ret.kind \in {"ResultObject", "ResultObjectPair"} THEN {ret.object} ELSE {})
     \cup ErrorTypes(ret)
-----------------------------------------------------------------------------
(* export.rs and handle.rs                                                 *)

(* Where the thunk leaves its answer.  The last two are fallback arms that *)
(* no method should reach.                                                 *)
AnswerIn(sig) ==
  LET direct == ParseRet(sig.ret).kind \in DirectKinds
  IN CASE sig.async /\ ~direct                    -> "async"
       [] ~sig.async /\ ~direct                   -> "sync"
       [] ~sig.async /\ direct /\ sig.args = <<>> -> "direct"
       [] sig.async /\ direct                     -> "empty future"
       [] OTHER                                   -> "out left empty"

(* What the thunk encodes and the handle decodes for a returned value.  An *)
(* empty payload stands for ().  A bool that is returned directly is       *)
(* compared with 0, so that no byte is refused.  The bytes of an async     *)
(* result are wrapped again by the handle, which owns and frees them.      *)
OkForms(sig) ==
  LET ret == ParseRet(sig.ret)
  IN CASE ret.kind \in {"U32", "Bool"} -> {Leaf("plain")}
       [] ret.kind \in {"String", "ResultString", "ResultBytes"} -> {Leaf("text")}
       [] ret.kind \in {"Value", "ResultValue"} -> PayloadForms(ret.ok)
       [] ret.kind = "ResultUnit"       -> {Leaf("text") \o Leaf("check")}
       [] ret.kind = "ResultObject"     -> ObjectForms
       [] ret.kind = "ResultObjectPair" -> PairForms(ret.ok)

ErrForms(sig) == UNION {PayloadForms(t) : t \in ErrorTypes(ParseRet(sig.ret))}

(* The types of the signature that the two sides convert, and the traits   *)
(* they export.  The struct that a pair travels in is generated from its   *)
(* parts and recorded nowhere.                                             *)
Converted(sig) ==
  LET ret == ParseRet(sig.ret)
      arg(i) == FfiArg(sig.args[i])
  IN {sig.args[i] : i \in {j \in DOMAIN sig.args : arg(j)[1] = "*const Wire"}}
     \cup (CASE ret.kind \in {"Value", "ResultValue"} -> {ret.ok}
             [] ret.kind = "ResultObject"             -> {ret.object}
             [] ret.kind = "ResultObjectPair"         -> {ret.ok, ret.object}
             [] OTHER                                 -> {})
     \cup ErrorTypes(ret)

(* A generated method, as its calls see it.                                *)
Expand(sig) ==
  [sig |-> sig, way |-> AnswerIn(sig), ok |-> OkForms(sig), err |-> ErrForms(sig),
   objectFirst |-> ParseRet(sig.ret).kind = "ResultObjectPair"]

-----------------------------------------------------------------------------
(* Does a value of the type say that it holds on to something of whoever   *)
(* made it?  Lifetimes that are left out are for rustc to check.           *)
Borrows(t) == \E s \in Parts[t] : \/ s.head = "reference"
                                  \/ s.head = "path" /\ "lifetime" \in s.extras

ReturnedTypes(ret) == ErrorTypes(ret) \cup
              (IF ret.kind \in {"Value", "ResultValue", "ResultObjectPair"} THEN {ret.ok} ELSE {})

(* A method that is accepted reaches no fallback arm of the generator.     *)
Expands(sig) == AnswerIn(sig) \in {"direct", "sync", "async"} /\ FfiType(sig) # Unsupported

(* Nothing that comes back borrows from the implementation.                *)
ReturnsOwned(sig) == \A t \in ReturnedTypes(ParseRet(sig.ret)) : ~Borrows(t)

(* Every type of the signature that crosses the boundary is asked for its  *)
(* layout; those with the default collector have none.                     *)
IsDescribed(sig) == Converted(sig) \subseteq LayoutDependencies(sig)
=============================================================================
