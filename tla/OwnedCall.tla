----------------------------- MODULE OwnedCall -----------------------------
(***************************************************************************)
(* One call of a generated method, from the caller's Rust arguments to the *)
(* implementation behind the vtable and back: who must release each        *)
(* argument at every point, for synchronous and asynchronous methods, on   *)
(* every exit the generated code has.                                      *)
(*                                                                         *)
(*   caller side   xabi-macros/src/method/handle.rs  (generated handle)    *)
(*   wire guard    xabi/src/contract.rs              (XabiWire)            *)
(*   callee side   xabi-macros/src/method/export.rs  (generated thunk)     *)
(*   future        xabi/src/future.rs                (XabiFuture)          *)
(*                                                                         *)
(* An argument stands for the resource its wire value names: the vtable of *)
(* an XabiV1OwnedTrait*, or the producer allocation of owned bytes.        *)
(*                                                                         *)
(* A definition named A_Slip is not part of the model: it is A with a slip *)
(* in it, there to show that the properties would notice.                  *)
(***************************************************************************)
EXTENDS Naturals

CONSTANTS
  Calls,       \* the calls, each made at most once
  NumArgs,     \* how many arguments by value the method declares
  Kind         \* Kind[a]: how the type of argument a implements XabiType

Args == 1..NumArgs

(* "token": XabiV1OwnedTrait* and XabiOwnedBytesOwner claim the wire and   *)
(*          keep its resource.                                             *)
(* "bytes": Vec<u8> claims the wire, copies, and frees the resource.       *)
(* "plain": String keeps the default hooks of XabiType, which leave the    *)
(*          wire as it is and release nothing when the guard drops.        *)
Kinds == {"token", "bytes", "plain"}

ASSUME NumArgsAssumption == NumArgs \in Nat
ASSUME KindAssumption == Kind \in [Args -> Kinds]

VARIABLES
  pc,          \* where the call is
  mode,        \* "sync" or "async" method
  next,        \* the argument to lower or to decode next
  caller,      \* arguments still Rust values of the generated method
  wire,        \* the XabiWire slots: "none", "armed" or "cleared"
  callee,      \* arguments that are Rust values of the export thunk
  captured,    \* arguments moved into the exported future
  kept,        \* arguments the implementation moved into another owner
  released,    \* how often the release callback of an argument has run
  code,        \* how the call ended
  out          \* the caller's out slot: "empty", "full" or "consumed"

args == <<caller, wire, callee, captured, kept, released>>
vars == <<pc, mode, next, args, code, out>>

Stages == {"idle", "ready", "lower", "decode", "unguard", "pending",
           "takeOut", "release", "done"}

Codes == {"none", "OK", "ERR_EXPORT", "ERR_PANIC", "ERR_INVALID_ARGUMENT",
          "AbiMismatch", "unwound", "cancelled"}

TypeOK ==
  /\ pc \in [Calls -> Stages]
  /\ mode \in [Calls -> {"sync", "async"}]
  /\ next \in [Calls -> 1..(NumArgs + 1)]
  /\ caller \in [Calls -> SUBSET Args]
  /\ wire \in [Calls -> [Args -> {"none", "armed", "cleared"}]]
  /\ callee \in [Calls -> SUBSET Args]
  /\ captured \in [Calls -> SUBSET Args]
  /\ kept \in [Calls -> SUBSET Args]
  /\ released \in [Calls -> [Args -> Nat]]
  /\ code \in [Calls -> Codes]
  /\ out \in [Calls -> {"empty", "full", "consumed"}]

Init ==
  /\ pc = [c \in Calls |-> "idle"]
  /\ mode \in [Calls -> {"sync", "async"}]
  /\ next = [c \in Calls |-> 1]
  /\ caller = [c \in Calls |-> {}]
  /\ wire = [c \in Calls |-> [a \in Args |-> "none"]]
  /\ callee = [c \in Calls |-> {}]
  /\ captured = [c \in Calls |-> {}]
  /\ kept = [c \in Calls |-> {}]
  /\ released = [c \in Calls |-> [a \in Args |-> 0]]
  /\ code = [c \in Calls |-> "none"]
  /\ out = [c \in Calls |-> "empty"]

-----------------------------------------------------------------------------
(* Types that override xabi_take_from_wire and xabi_drop_wire.             *)
Hooked(a) == Kind[a] # "plain"

(* Run the release callbacks of the arguments in S.                        *)
Release(c, S) ==
  released' = [released EXCEPT ![c] =
                 [a \in Args |-> released[c][a] + (IF a \in S THEN 1 ELSE 0)]]

(* xabi_drop_wire of the guards that are dropped: it takes what the slot   *)
(* still owns, and is a no-op for a type that keeps the default hook.      *)
Unclaimed_DefaultHook(c) == {}

Unclaimed(c) == {a \in Args : wire[c][a] = "armed" /\ Hooked(a)}

DropGuards(c) == wire' = [wire EXCEPT ![c] = [a \in Args |-> "none"]]

Goto(c, stage) == pc' = [pc EXCEPT ![c] = stage]

End(c, status, stage) == /\ code' = [code EXCEPT ![c] = status]
                         /\ Goto(c, stage)

-----------------------------------------------------------------------------
(* The generated method of the handle.                                     *)

(* The user calls the method.  The body of an async method does not run    *)
(* before the first poll.                                                  *)
Start(c) ==
  /\ pc[c] = "idle"
  /\ caller' = [caller EXCEPT ![c] = Args]
  /\ Goto(c, "ready")
  /\ UNCHANGED <<mode, next, wire, callee, captured, kept, released, code, out>>

(* The arguments are dropped with the method's frame or future.            *)
DropArguments(c, status) ==
  /\ Release(c, caller[c])
  /\ caller' = [caller EXCEPT ![c] = {}]
  /\ End(c, status, "done")
  /\ UNCHANGED <<mode, next, wire, callee, captured, kept, out>>

CancelUnpolled(c) ==
  /\ pc[c] = "ready"
  /\ mode[c] = "async"
  /\ DropArguments(c, "cancelled")

(* field_available is false: the vtable is too short for this method.      *)
FieldMissing(c) ==
  /\ pc[c] = "ready"
  /\ DropArguments(c, "AbiMismatch")

FieldAvailable(c) ==
  /\ pc[c] = "ready"
  /\ Goto(c, "lower")
  /\ UNCHANGED <<mode, next, args, code, out>>

(* let wire = XabiWire::new(arg), for the arguments in order.              *)
Lower(c) ==
  /\ pc[c] = "lower"
  /\ next[c] \in Args
  /\ caller' = [caller EXCEPT ![c] = @ \ {next[c]}]
  /\ wire' = [wire EXCEPT ![c][next[c]] = "armed"]
  /\ next' = [next EXCEPT ![c] = @ + 1]
  /\ UNCHANGED <<pc, mode, callee, captured, kept, released, code, out>>

(* into_wire of an argument panics: it drops the value it was given, the   *)
(* guards made so far are dropped, and so are the remaining arguments.     *)
LowerPanics(c) ==
  /\ pc[c] = "lower"
  /\ next[c] \in Args
  /\ Release(c, caller[c] \cup Unclaimed(c))
  /\ caller' = [caller EXCEPT ![c] = {}]
  /\ DropGuards(c)
  /\ End(c, "unwound", "done")
  /\ UNCHANGED <<mode, next, callee, captured, kept, out>>

Invoke(c) ==
  /\ pc[c] = "lower"
  /\ next[c] = NumArgs + 1
  /\ next' = [next EXCEPT ![c] = 1]
  /\ Goto(c, "decode")
  /\ UNCHANGED <<mode, args, code, out>>

(* The block that holds the guards ends as soon as the thunk has returned. *)
(* A failed async call has no future to await.                             *)
DropWires(c) ==
  /\ pc[c] = "unguard"
  /\ Release(c, Unclaimed(c))
  /\ DropGuards(c)
  /\ Goto(c, IF mode[c] = "sync" THEN "takeOut"
             ELSE IF code[c] = "OK" THEN "pending" ELSE "done")
  /\ UNCHANGED <<mode, next, caller, callee, captured, kept, code, out>>

TakeOut_OnlyOnOk(c) ==
  /\ pc[c] = "takeOut"
  /\ out' = IF code[c] = "OK" THEN [out EXCEPT ![c] = "consumed"] ELSE out
  /\ Goto(c, IF mode[c] = "sync" THEN "done" ELSE "release")
  /\ UNCHANGED <<mode, next, args, code>>

(* The payload is decoded, and freed, for OK and ERR_EXPORT; on any other  *)
(* status the slot is not looked at by a synchronous method and discarded  *)
(* by an asynchronous one.                                                 *)
TakeOut(c) ==
  /\ pc[c] = "takeOut"
  /\ out' = IF code[c] \in {"OK", "ERR_EXPORT"} \/ mode[c] = "async"
              THEN [out EXCEPT ![c] = IF @ = "full" THEN "consumed" ELSE @]
              ELSE out
  /\ Goto(c, IF mode[c] = "sync" THEN "done" ELSE "release")
  /\ UNCHANGED <<mode, next, args, code>>

-----------------------------------------------------------------------------
(* The generated export thunk.                                             *)

(* A null instance or out pointer is refused before any argument is read.  *)
RefuseCall(c) ==
  /\ pc[c] = "decode"
  /\ next[c] = 1
  /\ End(c, "ERR_INVALID_ARGUMENT", "unguard")
  /\ UNCHANGED <<mode, next, args, out>>

(* xabi_take_from_wire moves the value out of the slot and empties it; the *)
(* default of XabiType reads the slot and leaves it as it is.              *)
Claim_Copies(c, a) == wire' = wire

Claim(c, a) ==
  wire' = IF Hooked(a) THEN [wire EXCEPT ![c][a] = "cleared"] ELSE wire

(* xabi_take_from_wire succeeds.                                           *)
Decode(c) ==
  LET a == next[c] IN
  /\ pc[c] = "decode"
  /\ a \in Args
  /\ Claim(c, a)
  /\ callee' = IF Kind[a] = "token"
                 THEN [callee EXCEPT ![c] = @ \cup {a}] ELSE callee
  /\ Release(c, IF Kind[a] = "token" THEN {} ELSE {a})
  /\ next' = [next EXCEPT ![c] = @ + 1]
  /\ UNCHANGED <<pc, mode, caller, captured, kept, code, out>>

DecodeFails_ForgetsEarlier(c) ==
  /\ pc[c] = "decode"
  /\ next[c] \in Args
  /\ Claim(c, next[c])
  /\ Release(c, {next[c]})
  /\ callee' = [callee EXCEPT ![c] = {}]
  /\ End(c, "ERR_INVALID_ARGUMENT", "unguard")
  /\ UNCHANGED <<mode, next, caller, captured, kept, out>>

(* It fails or unwinds after the claim: the decode guard releases the      *)
(* argument, and leaving the thunk drops the arguments decoded before it.  *)
DecodeFails(c) ==
  LET a == next[c] IN
  /\ pc[c] = "decode"
  /\ a \in Args
  /\ Claim(c, a)
  /\ Release(c, callee[c] \cup {a})
  /\ callee' = [callee EXCEPT ![c] = {}]
  /\ \E status \in {"ERR_INVALID_ARGUMENT", "ERR_PANIC"} : End(c, status, "unguard")
  /\ UNCHANGED <<mode, next, caller, captured, kept, out>>

Decoded(c) == pc[c] = "decode" /\ next[c] = NumArgs + 1

(* The implementation moves some of the arguments in S into another owner; *)
(* the others are dropped when it returns or unwinds.                      *)
KeepSome(c, S) ==
  \E keep \in SUBSET S :
    /\ kept' = [kept EXCEPT ![c] = @ \cup keep]
    /\ Release(c, S \ keep)

MethodReturns(c) ==
  /\ Decoded(c)
  /\ mode[c] = "sync"
  /\ KeepSome(c, callee[c])
  /\ callee' = [callee EXCEPT ![c] = {}]
  /\ out' = [out EXCEPT ![c] = "full"]
  /\ \E status \in {"OK", "ERR_EXPORT"} : End(c, status, "unguard")
  /\ UNCHANGED <<mode, next, caller, wire, captured>>

(* catch_unwind_code: nothing has been written to the out slot.            *)
MethodPanics(c) ==
  /\ Decoded(c)
  /\ mode[c] = "sync"
  /\ KeepSome(c, callee[c])
  /\ callee' = [callee EXCEPT ![c] = {}]
  /\ End(c, "ERR_PANIC", "unguard")
  /\ UNCHANGED <<mode, next, caller, wire, captured, out>>

(* An async method moves its arguments into the exported future.           *)
SpawnFuture(c) ==
  /\ Decoded(c)
  /\ mode[c] = "async"
  /\ captured' = [captured EXCEPT ![c] = callee[c]]
  /\ callee' = [callee EXCEPT ![c] = {}]
  /\ End(c, "OK", "unguard")
  /\ UNCHANGED <<mode, next, caller, wire, kept, released, out>>

-----------------------------------------------------------------------------
(* Polling and releasing the exported future.                              *)

(* A poll that stays pending may still drop or retain arguments.           *)
PollPending(c) ==
  /\ pc[c] = "pending"
  /\ \E gone \in SUBSET captured[c] :
       /\ KeepSome(c, gone)
       /\ captured' = [captured EXCEPT ![c] = @ \ gone]
  /\ UNCHANGED <<pc, mode, next, caller, wire, callee, code, out>>

(* state.future = None drops what the future still captures.               *)
PollReady(c) ==
  /\ pc[c] = "pending"
  /\ KeepSome(c, captured[c])
  /\ captured' = [captured EXCEPT ![c] = {}]
  /\ out' = [out EXCEPT ![c] = "full"]
  /\ \E status \in {"OK", "ERR_EXPORT"} : End(c, status, "takeOut")
  /\ UNCHANGED <<mode, next, caller, wire, callee>>

(* Unwinding out of the implementation's async body drops its arguments.   *)
PollPanics(c) ==
  /\ pc[c] = "pending"
  /\ KeepSome(c, captured[c])
  /\ captured' = [captured EXCEPT ![c] = {}]
  /\ End(c, "ERR_PANIC", "takeOut")
  /\ UNCHANGED <<mode, next, caller, wire, callee, out>>

Cancel_Detaches(c) ==
  /\ pc[c] = "pending"
  /\ End(c, "cancelled", "done")
  /\ UNCHANGED <<mode, next, args, out>>

(* The caller drops the method's future at its await.                      *)
Cancel(c) ==
  /\ pc[c] = "pending"
  /\ End(c, "cancelled", "release")
  /\ UNCHANGED <<mode, next, args, out>>

ReleaseFuture_Leaks(c) ==
  /\ pc[c] = "release"
  /\ captured' = [captured EXCEPT ![c] = {}]
  /\ Goto(c, "done")
  /\ UNCHANGED <<mode, next, caller, wire, callee, kept, released, code, out>>

(* Dropping XabiTypedFuture frees the future state and what it captures.   *)
ReleaseFuture(c) ==
  /\ pc[c] = "release"
  /\ Release(c, captured[c])
  /\ captured' = [captured EXCEPT ![c] = {}]
  /\ Goto(c, "done")
  /\ UNCHANGED <<mode, next, caller, wire, callee, kept, code, out>>

(* The wrapper or plugin state that retains an argument is dropped.        *)
DropKept(c) ==
  \E a \in kept[c] :
    /\ kept' = [kept EXCEPT ![c] = @ \ {a}]
    /\ Release(c, {a})
    /\ UNCHANGED <<pc, mode, next, caller, wire, callee, captured, code, out>>

-----------------------------------------------------------------------------
Prepare(c) == \/ FieldMissing(c) \/ FieldAvailable(c)
              \/ Lower(c) \/ LowerPanics(c) \/ Invoke(c)

Thunk(c) == \/ RefuseCall(c) \/ Decode(c) \/ DecodeFails(c)
            \/ MethodReturns(c) \/ MethodPanics(c) \/ SpawnFuture(c)

(* The ways an awaited future leaves the caller's hands.                   *)
Finish(c) == PollReady(c) \/ PollPanics(c) \/ Cancel(c)

Unwind(c) == DropWires(c) \/ TakeOut(c) \/ ReleaseFuture(c)

Next == \E c \in Calls :
          \/ Start(c) \/ CancelUnpolled(c) \/ Prepare(c) \/ Thunk(c)
          \/ PollPending(c) \/ Finish(c) \/ Unwind(c) \/ DropKept(c)

SafeSpec == Init /\ [][Next]_vars

(* Code that has started runs on; a future is polled until it is ready or  *)
(* dropped; owners are dropped in the end (no mem::forget).                *)
Fairness == \A c \in Calls :
              /\ WF_vars(Prepare(c))
              /\ WF_vars(Thunk(c))
              /\ WF_vars(Finish(c))
              /\ WF_vars(Unwind(c))
              /\ WF_vars(DropKept(c))

Spec == SafeSpec /\ Fairness

-----------------------------------------------------------------------------
(* Who owns argument a of call c.  The slot of a type without the hooks is *)
(* passive storage: nothing releases it.                                   *)
Owners(c, a) ==
  {h \in {"caller", "wire", "callee", "future", "keeper"} :
     \/ h = "caller" /\ a \in caller[c]
     \/ h = "wire" /\ a \in Unclaimed(c)
     \/ h = "callee" /\ a \in callee[c]
     \/ h = "future" /\ a \in captured[c]
     \/ h = "keeper" /\ a \in kept[c]}

(* "Each row has one live owner" (docs/abi-design.md:374): no argument has *)
(* two owners, and none is owned once its release callback has run, so no  *)
(* path of the generated code can release it a second time.                *)
OneOwner ==
  \A c \in Calls, a \in Args :
    /\ \A g, h \in Owners(c, a) : g = h
    /\ released[c][a] > 0 => Owners(c, a) = {}

(* No release callback runs twice, whatever the kind of the argument and   *)
(* the exit the call takes: the generated code never frees twice.          *)
ReleasedAtMostOnce ==
  \A c \in Calls, a \in Args : released[c][a] <= 1

(* An argument whose type has the hooks is never lost: once the call is    *)
(* made, it is owned by somebody or it has been released.                  *)
NothingLost ==
  \A c \in Calls, a \in Args :
    pc[c] # "idle" /\ Hooked(a) => Owners(c, a) # {} \/ released[c][a] = 1

(* How a call that fails before the implementation runs ends.              *)
Rejections == {"AbiMismatch", "unwound", "ERR_INVALID_ARGUMENT"}

(* A call that fails before the implementation runs (short vtable, panic   *)
(* while lowering, refused or undecodable arguments) leaves no argument    *)
(* with the callee: all of them have been released when it returns.        *)
RejectedCallRetainsNothing ==
  \A c \in Calls, a \in Args :
    /\ pc[c] = "done"
    /\ code[c] \in Rejections
    /\ Hooked(a)
    => released[c][a] = 1

(* When a call has returned, or its future is gone, the only owner an      *)
(* argument can still have is one the implementation chose, and the        *)
(* payload the callee produced for the caller has been freed.              *)
SettledAtReturn ==
  \A c \in Calls :
    pc[c] = "done" => /\ out[c] # "full"
                      /\ \A a \in Args : Owners(c, a) \subseteq {"keeper"}

(* The sentence of contract.rs:57-62: what an unclaimed wire value owns is *)
(* released by the caller's glue, so after a call every argument has been  *)
(* released or is retained, for every type that can be passed.             *)
UnclaimedWireReleased ==
  \A c \in Calls, a \in Args :
    pc[c] = "done" => Owners(c, a) # {} \/ released[c][a] = 1

(* Every argument that enters a call is released in the end, on every exit *)
(* and after any cancellation.                                             *)
EveryArgumentReleased ==
  \A c \in Calls, a \in Args :
    Hooked(a) /\ pc[c] # "idle" ~> released[c][a] = 1

-----------------------------------------------------------------------------
(* The books of one argument: how many owners it has, plus how often it    *)
(* has been released.                                                      *)
Bit(p) == IF p THEN 1 ELSE 0

Account(c, a) ==
  Bit(a \in caller[c]) + Bit(a \in Unclaimed(c)) + Bit(a \in callee[c])
    + Bit(a \in captured[c]) + Bit(a \in kept[c]) + released[c][a]

(* Where an argument can be at each stage of the call.                     *)
Placed(c, a) ==
  /\ a \in caller[c] <=> \/ pc[c] = "ready"
                         \/ pc[c] = "lower" /\ a >= next[c]
  /\ wire[c][a] = "armed" => \/ pc[c] = "lower" /\ a < next[c]
                             \/ pc[c] = "decode" /\ (Hooked(a) => a >= next[c])
                             \/ pc[c] = "unguard"
  /\ wire[c][a] = "cleared" => \/ pc[c] = "decode" /\ a < next[c]
                               \/ pc[c] = "unguard"
  /\ wire[c][a] = "none" <=> \/ pc[c] \notin {"lower", "decode", "unguard"}
                             \/ pc[c] = "lower" /\ a >= next[c]
  /\ a \in callee[c] => pc[c] = "decode" /\ a < next[c]
  /\ a \in captured[c] => /\ mode[c] = "async"
                          /\ \/ pc[c] \in {"pending", "release"}
                             \/ pc[c] = "unguard" /\ code[c] = "OK"
  /\ a \in kept[c] => pc[c] \in {"unguard", "pending", "takeOut", "release", "done"}
  /\ pc[c] \in {"idle", "ready"} => next[c] = 1

(* The inductive invariant: ownership is neither created nor destroyed.    *)
(* A hooked argument of a call under way always accounts for exactly one   *)
(* owner or release; a plain one is never held by the callee, and has been *)
(* released by its decoding or not at all.                                 *)
Conserved(c, a) ==
  IF Hooked(a) THEN Account(c, a) = Bit(pc[c] # "idle")
  ELSE /\ Account(c, a) <= 1
       /\ a \notin callee[c] \cup captured[c] \cup kept[c]
       /\ pc[c] = "decode" /\ a >= next[c] => released[c][a] = 0
       /\ pc[c] \in {"idle", "ready", "lower"} => released[c][a] = 0

Accounting ==
  \A c \in Calls, a \in Args : Placed(c, a) /\ Conserved(c, a)

(* How far a call with a payload, and one whose implementation has run, is *)
(* settled: a payload waits only for its decoding, only a call that was    *)
(* not rejected can have arguments kept by the implementation, and a       *)
(* future that is ready has a payload unless it panicked.                  *)
Ending(c) ==
  /\ pc[c] \in {"idle", "ready", "lower", "decode"} => code[c] = "none"
  /\ pc[c] = "pending" => code[c] = "OK"
  /\ out[c] = "full" => /\ code[c] \in {"OK", "ERR_EXPORT"}
                        /\ \/ pc[c] = "unguard" /\ mode[c] = "sync"
                           \/ pc[c] = "takeOut"
  /\ kept[c] # {} => code[c] \notin Rejections
  /\ mode[c] = "async" /\ pc[c] = "unguard" =>
       code[c] \in {"OK", "ERR_INVALID_ARGUMENT", "ERR_PANIC"}
  /\ mode[c] = "async" /\ pc[c] = "takeOut" =>
       /\ code[c] \in {"OK", "ERR_EXPORT", "ERR_PANIC"}
       /\ out[c] = "full" <=> code[c] # "ERR_PANIC"

Endings == \A c \in Calls : Ending(c)

(* What every step preserves: the books, and how calls end.                *)
IInv == TypeOK /\ Accounting /\ Endings

-----------------------------------------------------------------------------
(* OwnedCall implements ArgumentOwnership when every type has the hooks.   *)
Owner(c, a) == CASE a \in caller[c] -> "caller"
                 [] a \in Unclaimed(c) -> "wire"
                 [] a \in callee[c] -> "callee"
                 [] a \in captured[c] -> "future"
                 [] a \in kept[c] -> "keeper"
                 [] OTHER -> "nobody"

Protocol == INSTANCE ArgumentOwnership WITH
  Token <- Calls \X Args,
  owner <- [t \in Calls \X Args |-> Owner(t[1], t[2])],
  released <- {t \in Calls \X Args : released[t[1]][t[2]] > 0}

(* Ownership of an argument only moves along the rows of the failure table *)
(* of docs/abi-design.md, and ends in exactly one release.                 *)
FollowsProtocol == Protocol!SafeSpec

-----------------------------------------------------------------------------
(* OwnedCall implements AwaitedFuture too: an async call is its future.    *)
(* What makes the decoding of a payload fail is in ResultTransfer.         *)
Stage(c) ==
  CASE mode[c] = "sync" \/ pc[c] \in {"idle", "ready", "lower", "decode"} -> "none"
    [] pc[c] = "unguard" -> IF code[c] = "OK" THEN "running" ELSE "none"
    [] pc[c] = "pending" -> "running"
    [] pc[c] = "takeOut" -> "answered"
    [] pc[c] = "release" -> IF code[c] = "cancelled" THEN "running" ELSE "settled"
    [] OTHER -> "gone"

Payload(c) == IF mode[c] = "async" /\ out[c] = "full" THEN code[c] ELSE "empty"

Answered(c) ==
  IF mode[c] = "sync" \/ pc[c] \notin {"release", "done"} THEN "none"
  ELSE CASE code[c] = "OK" -> "value"
         [] code[c] = "ERR_EXPORT" -> "exportError"
         [] code[c] \in {"unwound", "cancelled"} -> "none"
         [] OTHER -> "runtimeError"

Awaiting == INSTANCE AwaitedFuture WITH
  Future <- Calls,
  stage <- [c \in Calls |-> Stage(c)],
  payload <- [c \in Calls |-> Payload(c)],
  answer <- [c \in Calls |-> Answered(c)]

(* On every exit of an async call, its future is dropped before it answers *)
(* or after its payload has been taken, and a call that was rejected never *)
(* had one (docs/abi-design.md:365-374).                                   *)
AwaitsOnce == Awaiting!Spec
=============================================================================
