--------------------------- MODULE ResultTransfer ---------------------------
(***************************************************************************)
(* The way back of a call: the thunk encodes what the implementation       *)
(* returned, the handle decodes it leaf by leaf and may fail at any leaf.  *)
(* Who owns every buffer and every vtable of the result meanwhile, and     *)
(* what does the caller hear?                                              *)
(*                                                                         *)
(*   xabi-macros/src/method/export.rs    encoding, panic guards            *)
(*   xabi-macros/src/method/handle.rs    decoding                          *)
(*   xabi/src/future.rs                  the same for async methods        *)
(*   xabi/src/contract.rs, ffi.rs        values and owned bytes            *)
(*                                                                         *)
(* The two sides may come from different builds, or from manual            *)
(* implementations of XabiType: whatever a decoder checks may be wrong.    *)
(* Leaves are those of WireForm.  A definition named A_Slip is A with a    *)
(* slip in it, see OwnedCall.                                              *)
(***************************************************************************)
EXTENDS Naturals, Sequences

CONSTANT Methods   \* the generated methods, see MethodShape

Kinds == {"plain", "check", "text", "payload", "owner", "object"}

Leaves == [kind : Kinds, open : Nat]

(* objectFirst: a pair, whose object is exported before the value is       *)
(* encoded.                                                                *)
IsMethod(m) ==
  /\ m.ok # {} /\ m.ok \subseteq Seq(Leaves) \ {<<>>}
  /\ m.err \subseteq Seq(Leaves)
  /\ m.way = "direct" => m.err = {}
  /\ m.objectFirst \in BOOLEAN

ASSUME MethodsAssumption == \A m \in Methods : IsMethod(m)

VARIABLES
  method,      \* the method that is called
  pc,          \* "run", "encode", "answer", "decode" or "done"
  said,        \* what happened in the callee: "ok", "err", "panic", "refused"
  code,        \* the status, "none" for a direct return
  form,        \* the leaves of the result
  place,       \* where each leaf is, as far as it owns anything
  released,    \* how often it has been freed, released or dropped
  next,        \* the leaf that is decoded next
  flaw,        \* the leaf that did not decode, or 0
  heard        \* what the caller got: "value", "export" or "runtime"

vars == <<method, pc, said, code, form, place, released, next, flaw, heard>>

(* "value": in a Rust value of the callee.  "wire": named by a descriptor  *)
(* that nobody drops.  "caller": in a Rust value of the caller.  "lost":   *)
(* the descriptor is gone.                                                 *)
Places == {"none", "value", "wire", "caller", "freed", "lost"}

Codes == {"none", "OK", "ERR_EXPORT", "ERR_PANIC", "ERR_INVALID_ARGUMENT"}

TypeOK ==
  /\ IsMethod(method)
  /\ pc \in {"run", "encode", "answer", "decode", "done"}
  /\ said \in {"nothing", "ok", "err", "panic", "refused"}
  /\ code \in Codes
  /\ form \in Seq(Leaves)
  /\ place \in [DOMAIN form -> Places]
  /\ released \in [DOMAIN form -> Nat]
  /\ next \in 1..(Len(form) + 1)
  /\ flaw \in 0..Len(form)
  /\ heard \in {"nothing", "value", "export", "runtime"}

Init ==
  /\ method \in Methods
  /\ pc = "run"
  /\ said = "nothing"
  /\ code = "none"
  /\ form = <<>>
  /\ place = <<>>
  /\ released = <<>>
  /\ next = 1
  /\ flaw = 0
  /\ heard = "nothing"

-----------------------------------------------------------------------------
Owning(i) == form[i].kind \notin {"plain", "check"}

(* Copied out of its buffer, which is freed, or adopted as it is.          *)
Copied(i) == form[i].kind \in {"text", "payload"}

(* Move the leaves of S; those that go to "freed" are released once more.  *)
Move(S, where) ==
  /\ place' = [i \in DOMAIN form |-> IF i \in S THEN where ELSE place[i]]
  /\ released' = IF where = "freed"
                 THEN [i \in DOMAIN form |-> released[i] + (IF i \in S THEN 1 ELSE 0)]
                 ELSE released

-----------------------------------------------------------------------------
(* The thunk.                                                              *)

(* The implementation returns, and the value is about to be encoded.       *)
(* Buffers of wire structs do not exist before that.                       *)
Returns(outcome, f) ==
  /\ pc = "run"
  /\ said' = outcome
  /\ form' = f
  /\ place' = [i \in DOMAIN f |->
                IF f[i].kind \in {"text", "owner", "object"} THEN "value" ELSE "none"]
  /\ released' = [i \in DOMAIN f |-> 0]
  /\ pc' = "encode"
  /\ UNCHANGED <<method, code, next, flaw, heard>>

MethodReturns == \/ \E f \in method.ok : Returns("ok", f)
                 \/ \E f \in method.err : Returns("err", f)

AndOne(f, x) == [i \in 1..(Len(form) + 1) |-> IF i <= Len(form) THEN f[i] ELSE x]

(* catch_unwind_code reports ERR_PANIC.  A method that returns directly    *)
(* has no status: catch_unwind_owned returns a message in the place of the *)
(* result, and catch_unwind_or a default.                                  *)
Caught(whereTo, count) ==
  /\ said' = "panic"
  /\ pc' = "answer"
  /\ IF method.way = "direct"
     THEN \E f \in method.ok :
            /\ form' = Append(form, [kind |-> f[1].kind, open |-> 0])
            /\ place' = AndOne(whereTo, IF f[1].kind \in {"plain", "check"}
                                        THEN "none" ELSE "wire")
            /\ released' = AndOne(count, 0)
            /\ next' = Len(form) + 1
            /\ code' = "none"
     ELSE /\ place' = whereTo
          /\ released' = count
          /\ code' = "ERR_PANIC"
          /\ UNCHANGED <<form, next>>
  /\ UNCHANGED <<method, flaw, heard>>

MethodPanics == pc = "run" /\ Caught(place, released)

(* A null pointer or an argument that does not decode.                     *)
Refuse ==
  /\ pc = "run"
  /\ method.way # "direct"
  /\ said' = "refused"
  /\ code' = "ERR_INVALID_ARGUMENT"
  /\ pc' = "answer"
  /\ UNCHANGED <<method, form, place, released, next, flaw, heard>>

Pending == {i \in DOMAIN form : Owning(i) /\ place[i] # "wire"}

(* A buffer is made when all that goes into it has been encoded.           *)
Encodable(i) == \A j \in Pending : ~(j > i /\ j <= i + form[i].open)

Turn(i) == IF method.objectFirst /\ said = "ok" /\ Len(form) \in Pending
           THEN i = Len(form)
           ELSE /\ Encodable(i)
                /\ \A j \in Pending : Encodable(j) => i <= j

(* into_wire, into_payload, xabi_export.                                   *)
Encode == \E i \in Pending :
  /\ pc = "encode"
  /\ Turn(i)
  /\ Move({i}, "wire")
  /\ UNCHANGED <<method, pc, said, code, form, next, flaw, heard>>

(* The into_wire of a manual implementation panics: values are dropped,    *)
(* descriptors are forgotten, they have no Drop.                           *)
EncodePanics ==
  /\ pc = "encode"
  /\ Pending # {}
  /\ Caught([i \in DOMAIN form |-> CASE place[i] = "value" -> "freed"
                                     [] place[i] = "wire"  -> "lost"
                                     [] OTHER              -> place[i]],
            [i \in DOMAIN form |-> IF place[i] = "value" THEN 1 ELSE 0])

Answer_BeforeTheEnd ==
  /\ pc = "encode"
  /\ code' = CASE method.way = "direct" -> "none"
               [] said = "ok"           -> "OK"
               [] OTHER                 -> "ERR_EXPORT"
  /\ pc' = "answer"
  /\ UNCHANGED <<method, said, form, place, released, next, flaw, heard>>

(* The status that goes with what was said.                                *)
Answer ==
  /\ pc = "encode"
  /\ Pending = {}
  /\ code' = CASE method.way = "direct" -> "none"
               [] said = "ok"           -> "OK"
               [] OTHER                 -> "ERR_EXPORT"
  /\ pc' = "answer"
  /\ UNCHANGED <<method, said, form, place, released, next, flaw, heard>>

-----------------------------------------------------------------------------
(* The handle.                                                             *)

Accept_Panics ==
  /\ pc = "answer"
  /\ code # "ERR_INVALID_ARGUMENT"
  /\ pc' = "decode"
  /\ UNCHANGED <<method, said, code, form, place, released, next, flaw, heard>>

Accept ==
  /\ pc = "answer"
  /\ code \in {"none", "OK", "ERR_EXPORT"}
  /\ pc' = "decode"
  /\ UNCHANGED <<method, said, code, form, place, released, next, flaw, heard>>

(* status_to_result.  A sync handle leaves its out slot alone, an async    *)
(* one discards the payload: there is none in either.                      *)
Ignore ==
  /\ pc = "answer"
  /\ code \in {"ERR_PANIC", "ERR_INVALID_ARGUMENT"}
  /\ heard' = "runtime"
  /\ pc' = "done"
  /\ UNCHANGED <<method, said, code, form, place, released, next, flaw>>

(* The message of a caught panic has 28 bytes, as no wire struct has.      *)
Unreadable(i) == said = "panic" /\ form[i].kind = "payload"

DecodeLeaf_KeepsBuffer ==
  /\ pc = "decode"
  /\ next <= Len(form)
  /\ ~Unreadable(next)
  /\ Move({i \in {next} : Owning(i)},
          IF form[next].kind = "text" THEN "freed" ELSE "caller")
  /\ next' = next + 1
  /\ UNCHANGED <<method, pc, said, code, form, flaw, heard>>

(* from_payload, from_wire, xabi_from_vtable.                              *)
DecodeLeaf ==
  /\ pc = "decode"
  /\ next <= Len(form)
  /\ ~Unreadable(next)
  /\ Move({i \in {next} : Owning(i)}, IF Copied(next) THEN "freed" ELSE "caller")
  /\ next' = next + 1
  /\ UNCHANGED <<method, pc, said, code, form, flaw, heard>>

Deliver ==
  /\ pc = "decode"
  /\ next > Len(form)
  /\ heard' = IF code = "ERR_EXPORT" THEN "export" ELSE "value"
  /\ pc' = "done"
  /\ UNCHANGED <<method, said, code, form, place, released, next, flaw>>

(* What the failure of a leaf frees: what has been decoded before it, and  *)
(* owned bytes and XabiV1Owned* values, whose owner exists before they are *)
(* validated.  The vtable of impl Trait is validated before it is adopted. *)
FreedBy_ValidatesFirst(i) == place[i] = "caller"

FreedBy_ForgetsEarlier(i) == i = next /\ Owning(i) /\ form[i].kind # "object"

FreedBy(i) == \/ place[i] = "caller"
              \/ i = next /\ Owning(i) /\ form[i].kind # "object"

DecodeFails_FreesCopies ==
  /\ pc = "decode"
  /\ next <= Len(form)
  /\ form[next].kind # "plain"
  /\ flaw' = next
  /\ heard' = "runtime"
  /\ place' = [i \in DOMAIN form |-> IF FreedBy(i) THEN "freed"
                                     ELSE IF place[i] = "wire" THEN "lost" ELSE place[i]]
  /\ released' = [i \in DOMAIN form |->
                   released[i] + (IF FreedBy(i) \/ (i < next /\ Copied(i)) THEN 1 ELSE 0)]
  /\ pc' = "done"
  /\ UNCHANGED <<method, said, code, form, next>>

(* The descriptors that have not been reached are forgotten with the wire. *)
DecodeFails ==
  /\ pc = "decode"
  /\ next <= Len(form)
  /\ form[next].kind # "plain"
  /\ flaw' = next
  /\ heard' = "runtime"
  /\ place' = [i \in DOMAIN form |-> IF FreedBy(i) THEN "freed"
                                     ELSE IF place[i] = "wire" THEN "lost" ELSE place[i]]
  /\ released' = [i \in DOMAIN form |-> released[i] + (IF FreedBy(i) THEN 1 ELSE 0)]
  /\ pc' = "done"
  /\ UNCHANGED <<method, said, code, form, next>>

-----------------------------------------------------------------------------
Next == \/ MethodReturns \/ MethodPanics \/ Refuse
        \/ Encode \/ EncodePanics \/ Answer
        \/ Accept \/ Ignore \/ DecodeLeaf \/ Deliver \/ DecodeFails

Spec == Init /\ [][Next]_vars

-----------------------------------------------------------------------------
(* Nothing of a result is freed twice, on any path through the encoding    *)
(* (export.rs), the panic guards (status.rs) and the decoding (handle.rs,  *)
(* future.rs), and what counts as freed has been freed.                    *)
ReleasedOnce ==
  \A i \in DOMAIN form : released[i] = IF place[i] = "freed" THEN 1 ELSE 0

(* A value or an export error that reaches the caller is complete: what is *)
(* adopted is the caller's, and every buffer has been given back           *)
(* (XabiType::from_payload, object_pair_decode_expr).                      *)
DeliveredWhole ==
  heard \in {"value", "export"} =>
    \A i \in DOMAIN form :
      Owning(i) => \/ place[i] = IF Copied(i) THEN "freed" ELSE "caller"
                   \/ said = "panic" /\ i # Len(form)

(* After a runtime error nobody has a part of the result: what had been    *)
(* decoded is dropped, and no descriptor waits in an out slot that the     *)
(* handle does not read (handle.rs:156, future.rs:582).                    *)
FailureKeepsNothing ==
  heard = "runtime" => \A i \in DOMAIN form : place[i] \in {"none", "freed", "lost"}

(* Only what lies behind a failure can leak: a leaf that was not reached,  *)
(* a vtable that did not validate, or what was encoded before into_wire    *)
(* panicked.  In particular owned bytes that do not validate are freed     *)
(* (ffi.rs:286), and so is all that was decoded before the failure.        *)
LossIsBehindTheFailure ==
  \A i \in DOMAIN form :
    place[i] = "lost" => \/ flaw # 0 /\ i > flaw
                         \/ flaw = i /\ form[i].kind = "object"
                         \/ said = "panic" /\ i # flaw

(* The caller hears what happened: a value or export error only if the     *)
(* implementation returned it, a runtime error only if there was a reason. *)
(* The exception are direct returns (status.rs:47-64): the value after a   *)
(* panic is the guard's, if its type accepts any bytes.                    *)
OutcomeIsHeard ==
  /\ heard = "value" => \/ said = "ok"
                        \/ /\ said = "panic" /\ method.way = "direct"
                           /\ form[Len(form)].kind # "payload"
  /\ heard = "export" => said = "err"
  /\ heard = "runtime" => said \in {"panic", "refused"} \/ flaw # 0

-----------------------------------------------------------------------------
(* The inductive invariant: what is known at each stage.                   *)
Settled(i) == place[i] \in {"none", "freed", "lost"}

OnTheWire(i) == Owning(i) => place[i] = "wire"

Read(i) == Owning(i) => place[i] = IF Copied(i) THEN "freed" ELSE "caller"

Running ==
  pc = "run" => form = <<>> /\ said = "nothing" /\ next = 1

Encoding ==
  pc = "encode" =>
    /\ said \in {"ok", "err"}
    /\ said = "err" => method.way # "direct"
    /\ next = 1
    /\ \A i \in DOMAIN form : place[i] \in {"value", "none", "wire"}

(* What is there for the handle to decode, beginning at next.              *)
Message ==
  /\ method.way = "direct"
  /\ code = "none"
  /\ form # <<>>
  /\ next \in Len(form)..(Len(form) + 1)
  /\ \A i \in 1..(Len(form) - 1) : Settled(i)

Answering ==
  pc = "answer" =>
    \/ /\ said = "ok" /\ code \in {"none", "OK"} /\ next = 1
       /\ \A i \in DOMAIN form : OnTheWire(i)
    \/ /\ said = "err" /\ code = "ERR_EXPORT" /\ next = 1
       /\ \A i \in DOMAIN form : OnTheWire(i)
    \/ /\ said = "refused" /\ code = "ERR_INVALID_ARGUMENT" /\ form = <<>>
    \/ /\ said = "panic" /\ code = "ERR_PANIC"
       /\ \A i \in DOMAIN form : Settled(i)
    \/ /\ said = "panic" /\ Message /\ next = Len(form) /\ OnTheWire(Len(form))

Decoding ==
  pc = "decode" =>
    /\ \/ said = "ok" /\ code \in {"none", "OK"}
       \/ said = "err" /\ code = "ERR_EXPORT"
       \/ /\ said = "panic" /\ Message
          /\ next > Len(form) => form[Len(form)].kind # "payload"
    /\ \A i \in DOMAIN form : i >= next => OnTheWire(i)
    /\ \A i \in DOMAIN form : i < next => (said = "panic" /\ i # Len(form)) \/ Read(i)

Undecided == pc # "done" => heard = "nothing" /\ flaw = 0

OwnersOnly == \A i \in DOMAIN form : Owning(i) \/ place[i] = "none"

IInv ==
  /\ TypeOK
  /\ ReleasedOnce
  /\ OwnersOnly
  /\ Running /\ Encoding /\ Answering /\ Decoding /\ Undecided
  /\ DeliveredWhole /\ FailureKeepsNothing /\ LossIsBehindTheFailure /\ OutcomeIsHeard
=============================================================================
