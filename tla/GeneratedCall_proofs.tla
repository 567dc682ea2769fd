------------------------ MODULE GeneratedCall_proofs ------------------------
(***************************************************************************)
(* What the macro guarantees of every method that it accepts, for any      *)
(* types, any fields and any signatures.                                   *)
(***************************************************************************)
EXTENDS GeneratedCall, TLAPS

ResultKinds == {"ResultUnit", "ResultString", "ResultBytes", "ResultValue",
                "ResultObject", "ResultObjectPair"}

(* A Result that is accepted keeps its error type, and a payload that is   *)
(* converted as a value may cross as one.                                  *)
LEMMA ResultOfKeeps ==
  ASSUME NEW payload, NEW error, ResultOf(payload, error) # Rejected
  PROVE LET ret == ResultOf(payload, error)
        IN /\ ret.kind \in ResultKinds
           /\ ret.error = error
           /\ ret.kind \in {"ResultValue", "ResultObjectPair"} =>
                ValidValue(ret.ok, "ResultPayload")
<1> DEFINE ret == ResultOf(payload, error)
           pair == IsPair(payload) /\ ValidValue(payload.elems[1], "ResultPayload")
<1>1. \/ ret = [kind |-> "ResultUnit", error |-> error]
      \/ ret = [kind |-> "ResultString", error |-> error]
      \/ ret = [kind |-> "ResultBytes", error |-> error]
      \/ ret = [kind |-> "ResultObject", object |-> ObjectName(payload), error |-> error]
      \/ /\ pair
         /\ ret = [kind |-> "ResultObjectPair", ok |-> payload.elems[1],
                   object |-> ObjectName(payload.elems[2]), error |-> error]
      \/ /\ ValidValue(payload, "ResultPayload")
         /\ ret = [kind |-> "ResultValue", ok |-> payload, error |-> error]
  BY DEF ResultOf
<1>2. QED
  BY <1>1 DEF ResultKinds

(* So does the return type of a method: every type that is converted on    *)
(* the way back has been checked, with no lifetimes allowed.               *)
LEMMA ReturnedAreValid ==
  ASSUME NEW t, ParseRet(t) # Rejected
  PROVE LET ret == ParseRet(t)
        IN /\ ret.kind \in DirectKinds \cup ResultKinds
           /\ \A u \in ReturnedTypes(ret) :
                \E context \in {"MethodReturn", "ResultPayload", "ResultError"} :
                  ValidValue(u, context)
<1> DEFINE ret == ParseRet(t)
<1>1. \/ ret = [kind |-> "String"]
      \/ ret = [kind |-> "U32"]
      \/ ret = [kind |-> "Bool"]
      \/ ret = ResultRet(t)
      \/ ValidValue(t, "MethodReturn") /\ ret = [kind |-> "Value", ok |-> t]
  BY DEF ParseRet
<1>2. CASE ret \in {[kind |-> "String"], [kind |-> "U32"], [kind |-> "Bool"]}
  BY <1>2 DEF DirectKinds, ReturnedTypes, ErrorTypes
<1>3. CASE ValidValue(t, "MethodReturn") /\ ret = [kind |-> "Value", ok |-> t]
  <2>1. ret.kind = "Value" /\ ret.ok = t
    BY <1>3
  <2>2. ReturnedTypes(ret) = {t}
    BY <2>1 DEF DirectKinds, ReturnedTypes, ErrorTypes
  <2>3. QED
    BY <1>3, <2>1, <2>2 DEF DirectKinds
<1>4. CASE ret = ResultRet(t)
  <2> DEFINE error == IF Len(t.args) = 2 THEN t.args[2] ELSE XabiError
  <2>1. ValidValue(error, "ResultError") /\ ret = ResultOf(t.args[1], error)
    BY <1>4 DEF ResultRet
  <2>2. /\ ret.kind \in ResultKinds
        /\ ret.error = error
        /\ ret.kind \in {"ResultValue", "ResultObjectPair"} =>
             ValidValue(ret.ok, "ResultPayload")
    BY <2>1, ResultOfKeeps
  <2>3. ret.kind \notin DirectKinds
    BY <2>2 DEF DirectKinds, ResultKinds
  <2>4. \A u \in ReturnedTypes(ret) :
          \/ u = error
          \/ u = ret.ok /\ ret.kind \in {"ResultValue", "ResultObjectPair"}
    BY <2>2, <2>3 DEF ReturnedTypes, ErrorTypes, ResultKinds
  <2>5. QED
    BY <2>1, <2>2, <2>4
<1>5. QED
  BY <1>1, <1>2, <1>3, <1>4

(* A value that is valid outside of arguments and fields has no reference  *)
(* and no lifetime anywhere in its type (type_shape.rs:89).                *)
LEMMA ValidValuesOwn ==
  ASSUME NEW t, NEW context, context \notin Borrowing, ValidValue(t, context)
  PROVE ~Borrows(t)
BY DEF Borrows, ValidValue

(* What an accepted signature is known to be.                              *)
LEMMA AcceptedSignature ==
  ASSUME NEW sig \in AcceptedSignatures
  PROVE /\ sig.args \in Seq(Types)
        /\ sig.async \in BOOLEAN
        /\ ParseRet(sig.ret) # Rejected
        /\ ParseRet(sig.ret).kind \in DirectKinds \cup ResultKinds
        /\ ParseRet(sig.ret).kind \in DirectKinds => sig.args = <<>> /\ ~sig.async
        /\ \A i \in DOMAIN sig.args : ArgKind(sig.args[i]) \in {"Bytes", "Str", "Value"}
<1>1. sig \in Signatures /\ Accepted(sig)
  BY DEF AcceptedSignatures
<1>2. sig.args \in Seq(Types) /\ sig.async \in BOOLEAN
  BY <1>1, SignaturesAssumption
<1>3. /\ ParseRet(sig.ret) # Rejected
      /\ ParseRet(sig.ret).kind \in DirectKinds => sig.args = <<>> /\ ~sig.async
  BY <1>1 DEF Accepted, ValidShape
<1>4. ParseRet(sig.ret).kind \in DirectKinds \cup ResultKinds
  BY <1>3, ReturnedAreValid
<1>5. \A i \in DOMAIN sig.args : ArgKind(sig.args[i]) \in {"Bytes", "Str", "Value"}
  BY <1>1 DEF Accepted, ArgKind
<1>6. QED
  BY <1>2, <1>3, <1>4, <1>5

(* No conversion back can borrow, whichever types are accepted.            *)
LEMMA ReturnsAreOwned ==
  ASSUME NEW sig \in AcceptedSignatures PROVE ReturnsOwned(sig)
<1>1. \A t \in ReturnedTypes(ParseRet(sig.ret)) :
        \E context \in {"MethodReturn", "ResultPayload", "ResultError"} :
          ValidValue(t, context)
  BY AcceptedSignature, ReturnedAreValid
<1>2. {"MethodReturn", "ResultPayload", "ResultError"} \cap Borrowing = {}
  BY DEF Borrowing
<1>3. QED
  BY <1>1, <1>2, ValidValuesOwn DEF ReturnsOwned

(* The length of two sequences that follow one another.                   *)
LEMMA LengthOfTwo ==
  ASSUME NEW S, NEW f \in Seq(S), NEW g \in Seq(S)
  PROVE f \o g \in Seq(S) /\ Len(f \o g) = Len(f) + Len(g)
OBVIOUS

(* The length of a sequence with one element before it and two behind it.  *)
LEMMA LengthAround ==
  ASSUME NEW S, NEW c \in S, NEW x \in S, NEW y \in S, NEW g \in Seq(S)
  PROVE Len(<<c>> \o g \o <<x, y>>) >= 3
<1>1. <<c>> \in Seq(S) /\ Len(<<c>>) = 1
  OBVIOUS
<1>2. <<x, y>> \in Seq(S) /\ Len(<<x, y>>) = 2
  OBVIOUS
<1>3. <<c>> \o g \in Seq(S) /\ Len(<<c>> \o g) = Len(<<c>>) + Len(g)
  BY <1>1, LengthOfTwo
<1>4. Len((<<c>> \o g) \o <<x, y>>) = Len(<<c>> \o g) + Len(<<x, y>>)
  BY <1>2, <1>3, LengthOfTwo
<1>5. Len(g) \in Nat
  OBVIOUS
<1>6. QED
  BY <1>1, <1>2, <1>3, <1>4, <1>5

(* The slots of methods with arguments are sequences of at least three.    *)
LEMMA SlotOfArguments ==
  ASSUME NEW sig \in AcceptedSignatures, NEW c, NEW x, NEW y
  PROVE Len(<<c>> \o FfiArgs(sig) \o <<x, y>>) >= 3
<1> DEFINE S == {c, x, y} \cup {FfiArg(sig.args[i]) : i \in DOMAIN sig.args}
<1>1. Len(sig.args) \in Nat /\ DOMAIN sig.args = 1..Len(sig.args)
  BY AcceptedSignature
<1>2. FfiArgs(sig) \in [1..Len(sig.args) -> S]
  BY <1>1 DEF FfiArgs
<1>3. c \in S /\ x \in S /\ y \in S
  OBVIOUS
<1> HIDE DEF S
<1>4. \A g \in [1..Len(sig.args) -> S] : g \in Seq(S)
  BY <1>1
<1>5. FfiArgs(sig) \in Seq(S)
  BY <1>2, <1>4
<1>6. QED
  BY <1>3, <1>5, LengthAround

(* The slot of an accepted method is never the placeholder, and its thunk  *)
(* answers.                                                                *)
LEMMA AcceptedExpands ==
  ASSUME NEW sig \in AcceptedSignatures PROVE Expands(sig)
<1> DEFINE kind == ParseRet(sig.ret).kind
<1>1. AnswerIn(sig) \in {"direct", "sync", "async"}
  BY AcceptedSignature DEF AnswerIn
<1>2. Len(Unsupported) = 1
  BY DEF Unsupported
<1>3. CASE kind \in DirectKinds
  <2>1. FfiType(sig) = <<"*mut c_void", DirectType[kind]>>
    BY <1>3, AcceptedSignature DEF FfiType
  <2>2. <<"*mut c_void", DirectType[kind]>> # Unsupported
    BY DEF Unsupported
  <2>3. FfiType(sig) # Unsupported
    BY <2>1, <2>2
  <2>4. QED
    BY <1>1, <2>3 DEF Expands
<1>4. CASE kind \notin DirectKinds
  <2>1. PICK x, y : FfiType(sig) = <<"*mut c_void">> \o FfiArgs(sig) \o <<x, y>>
    BY <1>4 DEF FfiType
  <2>2. Len(FfiType(sig)) >= 3
    BY <2>1, SlotOfArguments
  <2>3. QED
    BY <1>1, <1>2, <2>2 DEF Expands
<1>5. QED
  BY <1>3, <1>4

(* An argument that is converted through its wire struct is a value.       *)
LEMMA WireArguments ==
  ASSUME NEW sig \in AcceptedSignatures, NEW i \in DOMAIN sig.args,
         FfiArg(sig.args[i])[1] = "*const Wire"
  PROVE ArgKind(sig.args[i]) = "Value"
<1>1. ArgKind(sig.args[i]) \in {"Bytes", "Str", "Value"}
  BY AcceptedSignature
<1>2. /\ ArgKind(sig.args[i]) = "Bytes" => FfiArg(sig.args[i]) = <<"XabiBytes">>
      /\ ArgKind(sig.args[i]) = "Str" => FfiArg(sig.args[i]) = <<"XabiStr">>
  BY DEF FfiArg
<1>3. <<"XabiBytes">>[1] # "*const Wire" /\ <<"XabiStr">>[1] # "*const Wire"
  OBVIOUS
<1>4. QED
  BY <1>1, <1>2, <1>3

(* All that is converted is among the layouts, kind by kind.               *)
LEMMA AcceptedIsDescribed ==
  ASSUME NEW sig \in AcceptedSignatures PROVE IsDescribed(sig)
<1> DEFINE ret == ParseRet(sig.ret)
           back == CASE ret.kind \in {"Value", "ResultValue"} -> {ret.ok}
                     [] ret.kind = "ResultObject"             -> {ret.object}
                     [] ret.kind = "ResultObjectPair"         -> {ret.ok, ret.object}
                     [] OTHER                                 -> {}
<1>1. \A i \in DOMAIN sig.args :
        FfiArg(sig.args[i])[1] = "*const Wire" => sig.args[i] \in LayoutDependencies(sig)
  BY WireArguments DEF LayoutDependencies
<1>2. back \subseteq LayoutDependencies(sig)
  BY DEF LayoutDependencies
<1>3. ErrorTypes(ret) \subseteq LayoutDependencies(sig)
  BY DEF LayoutDependencies
<1>4. QED
  BY <1>1, <1>2, <1>3 DEF IsDescribed, Converted

-----------------------------------------------------------------------------
(* The method of a call does not change while it runs, and it is one that  *)
(* the macro has expanded.                                                 *)
Generated == method \in Methods

THEOREM MethodIsGenerated == Spec => []Generated
<1>1. Init => Generated
  BY DEF Init, Generated
<1>2. ASSUME Generated, [Next]_vars PROVE Generated'
  <2>1. method' = method
    BY <1>2 DEF Next, vars, MethodReturns, Returns, MethodPanics, Caught, Refuse, Encode,
                EncodePanics, Answer, Accept, Ignore, DecodeLeaf, Deliver, DecodeFails
  <2>2. QED
    BY <1>2, <2>1 DEF Generated
<1>3. QED
  BY <1>1, <1>2, PTL DEF Spec

(* So its signature has been accepted.                                     *)
LEMMA GeneratedFromAccepted ==
  ASSUME Generated PROVE method.sig \in AcceptedSignatures
BY GeneratedAssumption DEF Generated, Expand

(* No call runs a method whose thunk is one of the generator's fallback    *)
(* arms, which leave the caller's out slot or future empty (export.rs,     *)
(* method/mod.rs:115): whatever MethodSpec::parse accepts has a real slot. *)
THEOREM MethodsExpand == Spec => []AcceptedMethodsExpand
<1>1. Generated => AcceptedMethodsExpand
  BY GeneratedFromAccepted, AcceptedExpands DEF AcceptedMethodsExpand
<1>2. QED
  BY <1>1, MethodIsGenerated, PTL

(* Nothing that a call brings back, payload or error, borrows from the     *)
(* implementation, however deep its type is nested (type_shape.rs:89).     *)
THEOREM ResultsAreOwned == Spec => []ResultsOwnThemselves
<1>1. Generated => ResultsOwnThemselves
  BY GeneratedFromAccepted, ReturnsAreOwned DEF ResultsOwnThemselves
<1>2. QED
  BY <1>1, MethodIsGenerated, PTL

(* Whatever type of its signature a call converts, in either direction, is *)
(* among those asked for their layouts (method/mod.rs:163).                *)
THEOREM LayoutsAreComplete == Spec => []CallsAreDescribed
<1>1. Generated => CallsAreDescribed
  BY GeneratedFromAccepted, AcceptedIsDescribed DEF CallsAreDescribed
<1>2. QED
  BY <1>1, MethodIsGenerated, PTL
=============================================================================
