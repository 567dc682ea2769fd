-------------------------- MODULE OwnedCall_proofs --------------------------
(***************************************************************************)
(* What TLC checks of OwnedCall on two calls with two arguments holds for  *)
(* any set of calls, any number of arguments and any mix of argument kinds.*)
(***************************************************************************)
EXTENDS OwnedCall, TLAPS

USE NumArgsAssumption, KindAssumption

(* One step of one call, the acting call being named.                      *)
Step(c) == \/ Start(c) \/ CancelUnpolled(c) \/ Prepare(c) \/ Thunk(c)
           \/ PollPending(c) \/ Finish(c) \/ Unwind(c) \/ DropKept(c)

(* The variables of OwnedCall keep their types.                            *)
LEMMA TypeInit == Init => TypeOK
  BY DEF Init, TypeOK, Args, Stages, Codes

LEMMA TypeRelease ==
  ASSUME TypeOK, NEW c \in Calls, NEW S, Release(c, S)
  PROVE  released' \in [Calls -> [Args -> Nat]]
  <1>1. [a \in Args |-> released[c][a] + (IF a \in S THEN 1 ELSE 0)]
          \in [Args -> Nat]
    BY DEF TypeOK
  <1>2. QED
    BY <1>1 DEF TypeOK, Release

LEMMA TypePrepare ==
  ASSUME TypeOK, NEW c \in Calls, Start(c) \/ CancelUnpolled(c) \/ Prepare(c)
  PROVE  TypeOK'
  <1> USE DEF TypeOK, Stages, Codes, Goto, End, args
  <1>1. CASE Start(c)
    BY <1>1 DEF Start
  <1>2. CASE CancelUnpolled(c)
    BY <1>2, TypeRelease DEF CancelUnpolled, DropArguments
  <1>3. CASE FieldMissing(c)
    BY <1>3, TypeRelease DEF FieldMissing, DropArguments
  <1>4. CASE FieldAvailable(c)
    BY <1>4 DEF FieldAvailable
  <1>5. CASE Lower(c)
    BY <1>5 DEF Lower, Args
  <1>6. CASE LowerPanics(c)
    BY <1>6, TypeRelease DEF LowerPanics, DropGuards
  <1>7. CASE Invoke(c)
    BY <1>7 DEF Invoke
  <1>8. QED
    BY <1>1, <1>2, <1>3, <1>4, <1>5, <1>6, <1>7 DEF Prepare

LEMMA TypeThunk ==
  ASSUME TypeOK, NEW c \in Calls, Thunk(c)
  PROVE  TypeOK'
  <1> USE DEF TypeOK, Stages, Codes, Goto, End, args
  <1>1. CASE RefuseCall(c)
    BY <1>1 DEF RefuseCall
  <1>2. CASE Decode(c)
    <2>1. next'[c] \in 1..(NumArgs + 1) /\ next' \in [Calls -> 1..(NumArgs + 1)]
      BY <1>2 DEF Decode, Claim, Args
    <2>2. wire' \in [Calls -> [Args -> {"none", "armed", "cleared"}]]
      BY <1>2 DEF Decode, Claim
    <2>3. callee' \in [Calls -> SUBSET Args]
      BY <1>2 DEF Decode, Claim
    <2>4. QED
      BY <1>2, <2>1, <2>2, <2>3, TypeRelease DEF Decode, Claim
  <1>3. CASE DecodeFails(c)
    <2>1. wire' \in [Calls -> [Args -> {"none", "armed", "cleared"}]]
      BY <1>3 DEF DecodeFails, Claim
    <2>2. QED
      BY <1>3, <2>1, TypeRelease DEF DecodeFails, Claim
  <1>4. CASE MethodReturns(c)
    BY <1>4, TypeRelease DEF MethodReturns, KeepSome
  <1>5. CASE MethodPanics(c)
    BY <1>5, TypeRelease DEF MethodPanics, KeepSome
  <1>6. CASE SpawnFuture(c)
    BY <1>6 DEF SpawnFuture
  <1>7. QED
    BY <1>1, <1>2, <1>3, <1>4, <1>5, <1>6 DEF Thunk

LEMMA TypeFuture ==
  ASSUME TypeOK, NEW c \in Calls,
         PollPending(c) \/ Finish(c) \/ Unwind(c) \/ DropKept(c)
  PROVE  TypeOK'
  <1> USE DEF TypeOK, Stages, Codes, Goto, End, args
  <1>1. CASE PollPending(c)
    BY <1>1, TypeRelease DEF PollPending, KeepSome
  <1>2. CASE PollReady(c)
    BY <1>2, TypeRelease DEF PollReady, KeepSome
  <1>3. CASE PollPanics(c)
    BY <1>3, TypeRelease DEF PollPanics, KeepSome
  <1>4. CASE Cancel(c)
    BY <1>4 DEF Cancel
  <1>5. CASE DropWires(c)
    BY <1>5, TypeRelease DEF DropWires, DropGuards
  <1>6. CASE TakeOut(c)
    BY <1>6 DEF TakeOut
  <1>7. CASE ReleaseFuture(c)
    BY <1>7, TypeRelease DEF ReleaseFuture
  <1>8. CASE DropKept(c)
    BY <1>8, TypeRelease DEF DropKept
  <1>9. QED
    BY <1>1, <1>2, <1>3, <1>4, <1>5, <1>6, <1>7, <1>8 DEF Finish, Unwind

LEMMA TypeNext == TypeOK /\ [Next]_vars => TypeOK'
  <1> SUFFICES ASSUME TypeOK, [Next]_vars
               PROVE  TypeOK'
    OBVIOUS
  <1>1. CASE UNCHANGED vars
    BY <1>1 DEF vars, args, TypeOK
  <1>2. ASSUME NEW c \in Calls, Step(c)
        PROVE  TypeOK'
    BY <1>2, TypePrepare, TypeThunk, TypeFuture DEF Step
  <1>3. QED
    BY <1>1, <1>2 DEF Next, Step

THEOREM TypeCorrect == SafeSpec => []TypeOK
  BY TypeInit, TypeNext, PTL DEF SafeSpec

-----------------------------------------------------------------------------
(* Only the acting call changes.                                           *)
Frame(c) ==
  \A d \in Calls \ {c} :
    /\ pc'[d] = pc[d] /\ mode'[d] = mode[d] /\ next'[d] = next[d]
    /\ caller'[d] = caller[d] /\ wire'[d] = wire[d] /\ callee'[d] = callee[d]
    /\ captured'[d] = captured[d] /\ kept'[d] = kept[d]
    /\ released'[d] = released[d] /\ code'[d] = code[d] /\ out'[d] = out[d]

LEMMA ReleaseEffect ==
  ASSUME TypeOK, NEW c \in Calls, NEW S, Release(c, S)
  PROVE  /\ \A a \in Args :
              released'[c][a] = released[c][a] + (IF a \in S THEN 1 ELSE 0)
         /\ \A d \in Calls \ {c} : released'[d] = released[d]
  BY DEF TypeOK, Release

LEMMA StepFrame ==
  ASSUME TypeOK, NEW c \in Calls, Step(c)
  PROVE  Frame(c)
  <1> SUFFICES ASSUME NEW d \in Calls \ {c}
               PROVE  /\ pc'[d] = pc[d] /\ mode'[d] = mode[d]
                      /\ next'[d] = next[d] /\ caller'[d] = caller[d]
                      /\ wire'[d] = wire[d] /\ callee'[d] = callee[d]
                      /\ captured'[d] = captured[d] /\ kept'[d] = kept[d]
                      /\ released'[d] = released[d] /\ code'[d] = code[d]
                      /\ out'[d] = out[d]
    BY DEF Frame
  <1> USE DEF TypeOK, Goto, End, args
  <1>r. \A S : Release(c, S) => released'[d] = released[d]
    BY ReleaseEffect
  <1>k. \A S : KeepSome(c, S) => /\ released'[d] = released[d]
                                /\ kept'[d] = kept[d]
    BY <1>r DEF KeepSome
  <1>1. CASE Start(c) \/ CancelUnpolled(c) \/ Prepare(c)
    BY <1>1, <1>r DEF Start, CancelUnpolled, DropArguments, Prepare,
                FieldMissing, FieldAvailable, Lower, LowerPanics, DropGuards, Invoke
  <1>2. CASE RefuseCall(c) \/ Decode(c) \/ DecodeFails(c)
    BY <1>2, <1>r DEF RefuseCall, Decode, DecodeFails, Claim
  <1>3. CASE MethodReturns(c) \/ MethodPanics(c) \/ SpawnFuture(c)
    BY <1>3, <1>k DEF MethodReturns, MethodPanics, SpawnFuture
  <1>4. CASE PollPending(c)
    BY <1>4, <1>k DEF PollPending
  <1>5. CASE Finish(c)
    BY <1>5, <1>k DEF Finish, PollReady, PollPanics, Cancel
  <1>6. CASE Unwind(c) \/ DropKept(c)
    BY <1>6, <1>r DEF Unwind, DropWires, DropGuards, TakeOut, ReleaseFuture, DropKept
  <1>7. QED
    BY <1>1, <1>2, <1>3, <1>4, <1>5, <1>6 DEF Step, Thunk

(* The books of the acting call after each of its actions.                 *)
Books(c) == \A a \in Args : Placed(c, a) /\ Conserved(c, a)

(* What is known of argument a before a step, with the types it needs.     *)
Known(c, a) == /\ Placed(c, a) /\ Conserved(c, a)
               /\ pc[c] \in Stages
               /\ next[c] \in 1..(NumArgs + 1)
               /\ wire[c][a] \in {"none", "armed", "cleared"}
               /\ released[c][a] \in Nat

LEMMA BooksKnown ==
  ASSUME TypeOK, NEW c \in Calls, Books(c)
  PROVE  \A a \in Args : Known(c, a)
  BY DEF TypeOK, Books, Known

(* What one step does to argument a: which callbacks run, and where the    *)
(* argument is afterwards.                                                 *)
LEMMA BooksPrepare ==
  ASSUME TypeOK, NEW c \in Calls, Books(c),
         Start(c) \/ CancelUnpolled(c) \/ Prepare(c)
  PROVE  Books(c)'
  <1> SUFFICES ASSUME NEW a \in Args
               PROVE  Placed(c, a)' /\ Conserved(c, a)'
    BY DEF Books
  <1>a. Known(c, a)
    BY BooksKnown
  <1> DEFINE Rest == /\ callee'[c] = callee[c] /\ captured'[c] = captured[c]
                     /\ kept'[c] = kept[c]
  <1>1. CASE Start(c)
    <2>1. /\ pc[c] = "idle" /\ pc'[c] = "ready" /\ next'[c] = next[c]
          /\ a \in caller'[c] /\ wire'[c] = wire[c] /\ Rest
          /\ released'[c] = released[c]
      BY <1>1 DEF Start, TypeOK, Goto
    <2>2. /\ wire[c][a] = "none" /\ a \notin caller[c] /\ a \notin callee[c]
          /\ a \notin captured[c] /\ a \notin kept[c] /\ released[c][a] = 0
          /\ next[c] = 1
      <3>1. /\ wire[c][a] = "none" /\ a \notin caller[c] /\ a \notin callee[c]
            /\ a \notin captured[c] /\ a \notin kept[c] /\ next[c] = 1
        BY <1>a, <2>1 DEF Known, Placed
      <3>2. a \notin Unclaimed(c)
        BY <3>1 DEF Unclaimed
      <3>3. released[c][a] = 0
        BY <1>a, <2>1, <3>1, <3>2 DEF Known, Conserved, Account, Bit
      <3>4. QED
        BY <3>1, <3>3
    <2>3. Placed(c, a)'
      BY <2>1, <2>2 DEF Placed
    <2>4. a \notin Unclaimed(c)'
      BY <2>1, <2>2 DEF Unclaimed
    <2>5. Conserved(c, a)'
      BY <2>1, <2>2, <2>4 DEF Conserved, Account, Bit
    <2>6. QED
      BY <2>3, <2>5
  <1>2. CASE CancelUnpolled(c) \/ FieldMissing(c)
    <2>1. /\ pc[c] = "ready" /\ pc'[c] = "done" /\ next'[c] = next[c]
          /\ a \notin caller'[c] /\ wire'[c] = wire[c] /\ Rest
          /\ Release(c, caller[c])
      BY <1>2 DEF CancelUnpolled, FieldMissing, DropArguments, TypeOK, Goto, End
    <2>2. released'[c][a] = released[c][a] + Bit(a \in caller[c])
      BY <2>1, ReleaseEffect DEF Bit
    <2>3. QED
      BY <1>a, <2>1, <2>2 DEF Known, Placed, Conserved, Account, Bit, Unclaimed
  <1>3. CASE FieldAvailable(c)
    <2>1. /\ pc[c] = "ready" /\ pc'[c] = "lower" /\ next'[c] = next[c]
          /\ caller'[c] = caller[c] /\ wire'[c] = wire[c] /\ Rest
          /\ released'[c] = released[c]
      BY <1>3 DEF FieldAvailable, TypeOK, Goto, args
    <2>2. QED
      BY <1>a, <2>1 DEF Known, Placed, Conserved, Account, Bit, Unclaimed, Args
  <1>4. CASE Lower(c)
    <2>1. /\ pc[c] = "lower" /\ pc'[c] = "lower" /\ next'[c] = next[c] + 1
          /\ caller'[c] = caller[c] \ {next[c]}
          /\ wire'[c][a] = IF a = next[c] THEN "armed" ELSE wire[c][a]
          /\ Rest /\ released'[c] = released[c]
      BY <1>4 DEF Lower, TypeOK
    <2>2. Placed(c, a)'
      BY <1>a, <2>1 DEF Known, Placed, Args
    <2>3. a = next[c] => wire[c][a] = "none" /\ a \in caller[c]
      BY <1>a, <2>1 DEF Known, Placed, Args
    <2>4. a # next[c] => ((a \in Unclaimed(c))' <=> a \in Unclaimed(c))
      BY <2>1 DEF Unclaimed
    <2>5. a = next[c] => ((a \in Unclaimed(c))' <=> Hooked(a))
      BY <2>1 DEF Unclaimed
    <2>6. a \in Unclaimed(c) => wire[c][a] = "armed"
      BY DEF Unclaimed
    <2>7. QED
      BY <1>a, <2>1, <2>2, <2>3, <2>4, <2>5, <2>6
      DEF Known, Conserved, Account, Bit
  <1>5. CASE LowerPanics(c)
    <2>1. /\ pc[c] = "lower" /\ pc'[c] = "done" /\ next'[c] = next[c]
          /\ a \notin caller'[c] /\ wire'[c][a] = "none" /\ Rest
          /\ Release(c, caller[c] \cup Unclaimed(c))
      BY <1>5 DEF LowerPanics, DropGuards, TypeOK, Goto, End
    <2>2. released'[c][a] = released[c][a] + Bit(a \in caller[c] \cup Unclaimed(c))
      BY <2>1, ReleaseEffect DEF Bit
    <2>3. QED
      BY <1>a, <2>1, <2>2 DEF Known, Placed, Conserved, Account, Bit, Unclaimed
  <1>6. CASE Invoke(c)
    <2>1. /\ pc[c] = "lower" /\ next[c] = NumArgs + 1
          /\ pc'[c] = "decode" /\ next'[c] = 1
          /\ caller'[c] = caller[c] /\ wire'[c] = wire[c] /\ Rest
          /\ released'[c] = released[c]
      BY <1>6 DEF Invoke, TypeOK, Goto, args
    <2>2. QED
      BY <1>a, <2>1 DEF Known, Placed, Conserved, Account, Bit, Unclaimed, Args
  <1>7. QED
    BY <1>1, <1>2, <1>3, <1>4, <1>5, <1>6 DEF Prepare

(* Dropping the arguments in S, some of them moved to another owner first. *)
LEMMA KeepEffect ==
  ASSUME TypeOK, NEW c \in Calls, NEW S, KeepSome(c, S), NEW a \in Args
  PROVE  \/ /\ a \notin S
            /\ released'[c][a] = released[c][a]
            /\ a \in kept'[c] <=> a \in kept[c]
         \/ /\ a \in S
            /\ released'[c][a] = released[c][a] + 1
            /\ a \in kept'[c] <=> a \in kept[c]
         \/ /\ a \in S
            /\ released'[c][a] = released[c][a]
            /\ a \in kept'[c]
  <1>1. PICK keep \in SUBSET S : /\ kept'[c] = kept[c] \cup keep
                                /\ Release(c, S \ keep)
    BY DEF KeepSome, TypeOK
  <1>2. released'[c][a] = released[c][a] + (IF a \in S \ keep THEN 1 ELSE 0)
    BY <1>1, ReleaseEffect
  <1>3. released[c][a] \in Nat
    BY DEF TypeOK
  <1>4. QED
    BY <1>1, <1>2, <1>3

LEMMA BooksThunk ==
  ASSUME TypeOK, NEW c \in Calls, Books(c), Thunk(c)
  PROVE  Books(c)'
  <1> SUFFICES ASSUME NEW a \in Args
               PROVE  Placed(c, a)' /\ Conserved(c, a)'
    BY DEF Books
  <1>a. Known(c, a)
    BY BooksKnown
  <1>1. CASE RefuseCall(c)
    <2>1. /\ pc[c] = "decode" /\ pc'[c] = "unguard" /\ next'[c] = next[c]
          /\ caller'[c] = caller[c] /\ wire'[c] = wire[c]
          /\ callee'[c] = callee[c] /\ captured'[c] = captured[c]
          /\ kept'[c] = kept[c] /\ released'[c] = released[c] /\ next[c] = 1
      BY <1>1 DEF RefuseCall, TypeOK, Goto, End, args
    <2>2. QED
      BY <1>a, <2>1 DEF Known, Placed, Conserved, Account, Bit, Unclaimed, Args
  <1>2. CASE Decode(c)
    <2>1. /\ pc[c] = "decode" /\ pc'[c] = "decode" /\ next'[c] = next[c] + 1
          /\ next[c] \in Args /\ caller'[c] = caller[c]
          /\ captured'[c] = captured[c] /\ kept'[c] = kept[c]
          /\ a \in callee'[c] <=> \/ a \in callee[c]
                                  \/ a = next[c] /\ Kind[a] = "token"
          /\ wire'[c][a] = IF a = next[c] /\ Hooked(a) THEN "cleared"
                           ELSE wire[c][a]
      BY <1>2 DEF Decode, Claim, TypeOK
    <2>2. released'[c][a] = released[c][a]
                              + Bit(a = next[c] /\ Kind[a] # "token")
      BY <1>2, ReleaseEffect DEF Decode, Claim, Bit
    <2>3. Kind[a] \in Kinds
      OBVIOUS
    <2>4. CASE a = next[c]
      <3>1. Placed(c, a)'
        BY <1>a, <2>1, <2>3, <2>4 DEF Known, Placed, Args, Hooked, Kinds
      <3>2. a \notin callee[c] /\ a \notin captured[c] /\ a \notin kept[c]
        BY <1>a, <2>1, <2>4 DEF Known, Placed, Args
      <3>3. a \notin caller[c] /\ (a \in Unclaimed(c) <=> Hooked(a))
        BY <1>a, <2>1, <2>4 DEF Known, Placed, Unclaimed, Args
      <3>4. ~(a \in Unclaimed(c))'
        BY <2>1, <2>4 DEF Unclaimed
      <3>5. ~Hooked(a) => released[c][a] = 0
        BY <1>a, <2>1, <2>4 DEF Known, Conserved, Args
      <3>6. /\ released'[c][a] = released[c][a] + (IF Kind[a] = "token" THEN 0 ELSE 1)
            /\ a \in callee'[c] <=> Kind[a] = "token"
            /\ a \notin caller'[c] /\ a \notin captured'[c] /\ a \notin kept'[c]
            /\ ~(a >= next'[c])
        BY <1>a, <2>1, <2>2, <2>4, <3>2, <3>3 DEF Known, Bit, Args
      <3>7. /\ Hooked(a) => released[c][a] = 0
            /\ released[c][a] \in Nat
        BY <1>a, <2>1, <3>2, <3>3 DEF Known, Conserved, Account, Bit
      <3>8. Conserved(c, a)'
        BY <2>1, <3>4, <3>5, <3>6, <3>7 DEF Conserved, Account, Bit, Hooked
      <3>9. QED
        BY <3>1, <3>8
    <2>5. CASE a # next[c]
      <3>1. Placed(c, a)'
        BY <1>a, <2>1, <2>5 DEF Known, Placed, Args
      <3>2. (a \in Unclaimed(c))' <=> a \in Unclaimed(c)
        BY <2>1, <2>5 DEF Unclaimed
      <3>3. QED
        BY <1>a, <2>1, <2>2, <2>5, <3>1, <3>2
        DEF Known, Conserved, Account, Bit, Args
    <2>6. QED
      BY <2>4, <2>5
  <1>3. CASE DecodeFails(c)
    <2>1. /\ pc[c] = "decode" /\ pc'[c] = "unguard" /\ next'[c] = next[c]
          /\ next[c] \in Args /\ caller'[c] = caller[c] /\ callee'[c] = {}
          /\ captured'[c] = captured[c] /\ kept'[c] = kept[c]
          /\ wire'[c][a] = IF a = next[c] /\ Hooked(a) THEN "cleared"
                           ELSE wire[c][a]
      BY <1>3 DEF DecodeFails, Claim, TypeOK, Goto, End
    <2>2. released'[c][a] = released[c][a]
                              + Bit(a \in callee[c] \/ a = next[c])
      BY <1>3, ReleaseEffect DEF DecodeFails, Claim, Bit
    <2>3. Placed(c, a)'
      BY <1>a, <2>1 DEF Known, Placed, Args
    <2>4. (a \in Unclaimed(c))' <=> a \in Unclaimed(c) /\ a # next[c]
      BY <2>1 DEF Unclaimed
    <2>5. /\ a \in callee[c] => a # next[c]
          /\ a = next[c] => a \in Unclaimed(c) \/ ~Hooked(a)
      BY <1>a, <2>1 DEF Known, Placed, Unclaimed, Args
    <2>6. a = next[c] /\ ~Hooked(a) => released[c][a] = 0
      BY <1>a, <2>1 DEF Known, Conserved, Args
    <2>7. a \notin caller[c] /\ a \notin captured[c] /\ a \notin kept[c]
      BY <1>a, <2>1 DEF Known, Placed
    <2>8. a \in Unclaimed(c) => Hooked(a)
      BY DEF Unclaimed
    <2>9. QED
      BY <1>a, <2>1, <2>2, <2>3, <2>4, <2>5, <2>6, <2>7, <2>8
      DEF Known, Conserved, Account, Bit
  <1>4. CASE MethodReturns(c) \/ MethodPanics(c)
    <2>1. /\ pc[c] = "decode" /\ pc'[c] = "unguard" /\ next'[c] = next[c]
          /\ next[c] = NumArgs + 1 /\ caller'[c] = caller[c]
          /\ wire'[c] = wire[c] /\ callee'[c] = {}
          /\ captured'[c] = captured[c] /\ KeepSome(c, callee[c])
      BY <1>4 DEF MethodReturns, MethodPanics, Decoded, TypeOK, Goto, End
    <2>2. (a \in Unclaimed(c))' <=> a \in Unclaimed(c)
      BY <2>1 DEF Unclaimed
    <2>3. Placed(c, a)'
      BY <1>a, <2>1, KeepEffect DEF Known, Placed, Args
    <2>4. a \notin captured[c] /\ a \notin kept[c] /\ a \notin caller[c]
      BY <1>a, <2>1 DEF Known, Placed
    <2>5. QED
      BY <1>a, <2>1, <2>2, <2>3, <2>4, KeepEffect DEF Known, Conserved, Account, Bit
  <1>5. CASE SpawnFuture(c)
    <2>1. /\ pc[c] = "decode" /\ pc'[c] = "unguard" /\ next'[c] = next[c]
          /\ next[c] = NumArgs + 1 /\ caller'[c] = caller[c]
          /\ wire'[c] = wire[c] /\ callee'[c] = {}
          /\ captured'[c] = callee[c] /\ kept'[c] = kept[c]
          /\ released'[c] = released[c]
          /\ mode'[c] = "async" /\ code'[c] = "OK"
      BY <1>5 DEF SpawnFuture, Decoded, TypeOK, Goto, End
    <2>2. QED
      BY <1>a, <2>1 DEF Known, Placed, Conserved, Account, Bit, Unclaimed, Args
  <1>6. QED
    BY <1>1, <1>2, <1>3, <1>4, <1>5 DEF Thunk

LEMMA BooksFuture ==
  ASSUME TypeOK, NEW c \in Calls, Books(c),
         PollPending(c) \/ Finish(c) \/ Unwind(c) \/ DropKept(c)
  PROVE  Books(c)'
  <1> SUFFICES ASSUME NEW a \in Args
               PROVE  Placed(c, a)' /\ Conserved(c, a)'
    BY DEF Books
  <1>a. Known(c, a)
    BY BooksKnown
  <1> DEFINE Rest == /\ next'[c] = next[c] /\ caller'[c] = caller[c]
                     /\ callee'[c] = callee[c] /\ mode'[c] = mode[c]
  <1>1. CASE PollPending(c)
    <2>1. PICK gone \in SUBSET captured[c] :
            /\ KeepSome(c, gone) /\ captured'[c] = captured[c] \ gone
      BY <1>1 DEF PollPending, TypeOK
    <2>2. /\ pc[c] = "pending" /\ pc'[c] = pc[c] /\ wire'[c] = wire[c] /\ Rest
      BY <1>1 DEF PollPending
    <2>3. QED
      BY <1>a, <2>1, <2>2, KeepEffect
      DEF Known, Placed, Conserved, Account, Bit, Unclaimed
  <1>2. CASE PollReady(c) \/ PollPanics(c)
    <2>1. /\ pc[c] = "pending" /\ pc'[c] = "takeOut" /\ wire'[c] = wire[c]
          /\ Rest /\ KeepSome(c, captured[c]) /\ captured'[c] = {}
      BY <1>2 DEF PollReady, PollPanics, TypeOK, Goto, End
    <2>2. QED
      BY <1>a, <2>1, KeepEffect
      DEF Known, Placed, Conserved, Account, Bit, Unclaimed
  <1>3. CASE Cancel(c)
    <2>1. /\ pc[c] = "pending" /\ pc'[c] = "release" /\ wire'[c] = wire[c]
          /\ Rest /\ captured'[c] = captured[c] /\ kept'[c] = kept[c]
          /\ released'[c] = released[c]
      BY <1>3 DEF Cancel, TypeOK, Goto, End, args
    <2>2. QED
      BY <1>a, <2>1 DEF Known, Placed, Conserved, Account, Bit, Unclaimed
  <1>4. CASE DropWires(c)
    <2>1. /\ pc[c] = "unguard" /\ pc'[c] \in {"takeOut", "pending", "done"}
          /\ wire'[c][a] = "none" /\ Rest /\ kept'[c] = kept[c]
          /\ captured'[c] = captured[c] /\ Release(c, Unclaimed(c))
          /\ mode[c] = "async" /\ code[c] = "OK" => pc'[c] = "pending"
      BY <1>4 DEF DropWires, DropGuards, TypeOK, Goto
    <2>2. released'[c][a] = released[c][a] + Bit(a \in Unclaimed(c))
      BY <2>1, ReleaseEffect DEF Bit
    <2>3. QED
      BY <1>a, <2>1, <2>2 DEF Known, Placed, Conserved, Account, Bit, Unclaimed
  <1>5. CASE TakeOut(c)
    <2>1. /\ pc[c] = "takeOut" /\ pc'[c] \in {"release", "done"}
          /\ wire'[c] = wire[c] /\ Rest /\ kept'[c] = kept[c]
          /\ captured'[c] = captured[c] /\ released'[c] = released[c]
      BY <1>5 DEF TakeOut, TypeOK, Goto, args
    <2>2. QED
      BY <1>a, <2>1 DEF Known, Placed, Conserved, Account, Bit, Unclaimed
  <1>6. CASE ReleaseFuture(c)
    <2>1. /\ pc[c] = "release" /\ pc'[c] = "done" /\ wire'[c] = wire[c]
          /\ Rest /\ kept'[c] = kept[c] /\ captured'[c] = {}
          /\ Release(c, captured[c])
      BY <1>6 DEF ReleaseFuture, TypeOK, Goto
    <2>2. released'[c][a] = released[c][a] + Bit(a \in captured[c])
      BY <2>1, ReleaseEffect DEF Bit
    <2>3. QED
      BY <1>a, <2>1, <2>2 DEF Known, Placed, Conserved, Account, Bit, Unclaimed
  <1>7. CASE DropKept(c)
    <2>1. PICK b \in kept[c] : /\ kept'[c] = kept[c] \ {b}
                              /\ Release(c, {b})
      BY <1>7 DEF DropKept, TypeOK
    <2>2. /\ pc'[c] = pc[c] /\ wire'[c] = wire[c] /\ Rest
          /\ captured'[c] = captured[c] /\ code'[c] = code[c]
      BY <1>7 DEF DropKept
    <2>3. released'[c][a] = released[c][a] + Bit(a = b)
      BY <2>1, ReleaseEffect DEF Bit
    <2>4. (a \in Unclaimed(c))' <=> a \in Unclaimed(c)
      BY <2>2 DEF Unclaimed
    <2>5. a \in kept'[c] <=> a \in kept[c] /\ a # b
      BY <2>1
    <2>6. Placed(c, a)'
      BY <1>a, <2>2, <2>5 DEF Known, Placed
    <2>7. a = b => a \in kept[c]
      BY <2>1
    <2>8. QED
      BY <1>a, <2>2, <2>3, <2>4, <2>5, <2>6, <2>7 DEF Known, Conserved, Account, Bit
  <1>8. QED
    BY <1>1, <1>2, <1>3, <1>4, <1>5, <1>6, <1>7 DEF Finish, Unwind

LEMMA AccountingNext ==
  ASSUME TypeOK, Accounting, [Next]_vars
  PROVE  Accounting'
  <1>1. CASE UNCHANGED vars
    BY <1>1 DEF vars, args, Accounting, Placed, Conserved, Account, Unclaimed
  <1>2. ASSUME NEW c \in Calls, Step(c)
        PROVE  Accounting'
    <2>1. Books(c)'
      BY <1>2, BooksPrepare, BooksThunk, BooksFuture DEF Step, Books, Accounting
    <2>2. ASSUME NEW d \in Calls \ {c}
          PROVE  Books(d)'
      <3>1. Frame(c)
        BY <1>2, StepFrame
      <3>2. Books(d)
        BY DEF Books, Accounting
      <3>3. QED
        BY <3>1, <3>2 DEF Frame, Books, Placed, Conserved, Account, Unclaimed
    <2>3. QED
      BY <2>1, <2>2 DEF Accounting, Books
  <1>3. QED
    BY <1>1, <1>2 DEF Next, Step

LEMMA AccountingInit == Init => Accounting
  BY DEF Init, Accounting, Placed, Conserved, Account, Bit, Unclaimed, Args

(* Ownership is conserved: at every step of every call, on every exit,     *)
(* each argument with the ownership hooks accounts for exactly one owner   *)
(* or one release.                                                         *)
THEOREM OwnershipConserved == SafeSpec => []Accounting
  <1>1. TypeOK /\ Accounting /\ [Next]_vars => (TypeOK /\ Accounting)'
    BY TypeNext, AccountingNext
  <1>2. Init => TypeOK /\ Accounting
    BY TypeInit, AccountingInit
  <1>3. QED
    BY <1>1, <1>2, PTL DEF SafeSpec

-----------------------------------------------------------------------------
(* What the books say of the owners of one argument.                       *)
LEMMA OneOwnerFromBooks ==
  ASSUME TypeOK, Accounting
  PROVE  OneOwner /\ ReleasedAtMostOnce /\ NothingLost
  <1> SUFFICES ASSUME NEW c \in Calls, NEW a \in Args
               PROVE  /\ \A g, h \in Owners(c, a) : g = h
                      /\ released[c][a] > 0 => Owners(c, a) = {}
                      /\ released[c][a] <= 1
                      /\ pc[c] # "idle" /\ Hooked(a) =>
                           Owners(c, a) # {} \/ released[c][a] = 1
    BY DEF OneOwner, ReleasedAtMostOnce, NothingLost
  <1>1. released[c][a] \in Nat /\ Placed(c, a) /\ Conserved(c, a)
    BY DEF TypeOK, Accounting
  <1>2. /\ Account(c, a) \in {0, 1}
        /\ pc[c] # "idle" /\ Hooked(a) => Account(c, a) = 1
    BY <1>1 DEF Conserved, Account, Bit
  <1>3. \A h \in Owners(c, a) :
          \/ h = "caller" /\ a \in caller[c]
          \/ h = "wire" /\ a \in Unclaimed(c)
          \/ h = "callee" /\ a \in callee[c]
          \/ h = "future" /\ a \in captured[c]
          \/ h = "keeper" /\ a \in kept[c]
    BY DEF Owners
  <1>4. Owners(c, a) = {} => /\ a \notin caller[c] /\ a \notin Unclaimed(c)
                             /\ a \notin callee[c] /\ a \notin captured[c]
                             /\ a \notin kept[c]
    BY DEF Owners
  <1>5. released[c][a] <= 1 /\ (released[c][a] > 0 => Owners(c, a) = {})
    BY <1>1, <1>2, <1>3 DEF Account, Bit
  <1>6. \A g, h \in Owners(c, a) : g = h
    BY <1>1, <1>2, <1>3 DEF Account, Bit
  <1>7. Owners(c, a) = {} => Account(c, a) = released[c][a]
    BY <1>1, <1>4 DEF Account, Bit
  <1>8. QED
    BY <1>1, <1>2, <1>5, <1>6, <1>7

(* "Each row has one live owner": no argument is ever owned twice, or      *)
(* owned once released.                                                    *)
THEOREM AlwaysOneOwner == SafeSpec => []OneOwner
  BY TypeCorrect, OwnershipConserved, OneOwnerFromBooks, PTL

(* No exit of the generated code releases an argument twice.               *)
THEOREM NoDoubleRelease == SafeSpec => []ReleasedAtMostOnce
  BY TypeCorrect, OwnershipConserved, OneOwnerFromBooks, PTL

(* No argument whose type has the ownership hooks is ever lost.            *)
THEOREM NoArgumentLost == SafeSpec => []NothingLost
  BY TypeCorrect, OwnershipConserved, OneOwnerFromBooks, PTL

-----------------------------------------------------------------------------
(* How calls end.                                                          *)
LEMMA NothingKeptEarly ==
  ASSUME TypeOK, Accounting, NEW c \in Calls,
         pc[c] \in {"idle", "ready", "lower", "decode"}
  PROVE  kept[c] = {}
  <1>1. kept[c] \subseteq Args
    BY DEF TypeOK
  <1>2. \A a \in Args : a \notin kept[c]
    BY DEF Accounting, Placed
  <1>3. QED
    BY <1>1, <1>2

LEMMA EndingStep ==
  ASSUME TypeOK, Accounting, NEW c \in Calls, Ending(c), Step(c)
  PROVE  Ending(c)'
  <1> USE DEF TypeOK, Ending, Rejections, Goto, End, args
  <1>1. CASE Start(c) \/ CancelUnpolled(c) \/ Prepare(c)
    BY <1>1, NothingKeptEarly
    DEF Start, CancelUnpolled, DropArguments, Prepare, FieldMissing,
        FieldAvailable, Lower, LowerPanics, DropGuards, Invoke
  <1>2. CASE RefuseCall(c) \/ Decode(c) \/ DecodeFails(c)
    BY <1>2, NothingKeptEarly DEF RefuseCall, Decode, DecodeFails
  <1>3. CASE MethodReturns(c) \/ MethodPanics(c) \/ SpawnFuture(c)
    BY <1>3, NothingKeptEarly DEF MethodReturns, MethodPanics, SpawnFuture, Decoded
  <1>4. CASE PollPending(c)
    BY <1>4 DEF PollPending
  <1>5. CASE Finish(c)
    BY <1>5 DEF Finish, PollReady, PollPanics, Cancel
  <1>6. CASE DropWires(c)
    BY <1>6 DEF DropWires, DropGuards
  <1>7. CASE TakeOut(c)
    BY <1>7 DEF TakeOut
  <1>8. CASE ReleaseFuture(c)
    BY <1>8 DEF ReleaseFuture
  <1>9. CASE DropKept(c)
    BY <1>9 DEF DropKept
  <1>10. QED
    BY <1>1, <1>2, <1>3, <1>4, <1>5, <1>6, <1>7, <1>8, <1>9
    DEF Step, Thunk, Unwind

LEMMA EndingsNext ==
  ASSUME TypeOK, Accounting, Endings, [Next]_vars
  PROVE  Endings'
  <1>1. CASE UNCHANGED vars
    BY <1>1 DEF vars, args, Endings, Ending
  <1>2. ASSUME NEW c \in Calls, Step(c)
        PROVE  Endings'
    <2>1. Ending(c)'
      BY <1>2, EndingStep DEF Endings
    <2>2. ASSUME NEW d \in Calls \ {c}
          PROVE  Ending(d)'
      BY <1>2, StepFrame DEF Frame, Endings, Ending
    <2>3. QED
      BY <2>1, <2>2 DEF Endings
  <1>3. QED
    BY <1>1, <1>2 DEF Next, Step

LEMMA EndingsHold == SafeSpec => []Endings
  <1>1. Init => Endings
    BY DEF Init, Endings, Ending, Rejections
  <1>2. TypeOK /\ Accounting /\ Endings /\ [Next]_vars => Endings'
    BY EndingsNext
  <1>3. QED
    BY <1>1, <1>2, TypeCorrect, OwnershipConserved, PTL DEF SafeSpec

(* The inductive invariant of calls, with any arguments.                   *)
THEOREM InvHolds == SafeSpec => []IInv
  BY TypeCorrect, OwnershipConserved, EndingsHold, PTL DEF IInv

(* Once a call is over nobody but an owner chosen by the implementation    *)
(* has an argument, and no payload is left in the out slot.                *)
THEOREM CallsSettle == SafeSpec => []SettledAtReturn
  <1>1. TypeOK /\ Accounting /\ Endings => SettledAtReturn
    <2> SUFFICES ASSUME TypeOK, Accounting, Endings,
                        NEW c \in Calls, pc[c] = "done"
                 PROVE  /\ out[c] # "full"
                        /\ \A a \in Args : Owners(c, a) \subseteq {"keeper"}
      BY DEF SettledAtReturn
    <2>1. out[c] # "full"
      BY DEF Endings, Ending
    <2>2. ASSUME NEW a \in Args
          PROVE  Owners(c, a) \subseteq {"keeper"}
      BY DEF Accounting, Placed, Owners, Unclaimed
    <2>3. QED
      BY <2>1, <2>2
  <1>2. QED
    BY <1>1, TypeCorrect, OwnershipConserved, EndingsHold, PTL

(* A call that is rejected before the implementation runs has released all *)
(* arguments that have the hooks when it returns.                          *)
THEOREM RejectedCallsRelease == SafeSpec => []RejectedCallRetainsNothing
  <1>1. TypeOK /\ Accounting /\ Endings => RejectedCallRetainsNothing
    <2> SUFFICES ASSUME TypeOK, Accounting, Endings,
                        NEW c \in Calls, NEW a \in Args, pc[c] = "done",
                        code[c] \in Rejections, Hooked(a)
                 PROVE  released[c][a] = 1
      BY DEF RejectedCallRetainsNothing
    <2>1. kept[c] = {}
      BY DEF Endings, Ending
    <2>2. /\ a \notin caller[c] /\ a \notin Unclaimed(c)
          /\ a \notin callee[c] /\ a \notin captured[c]
      BY DEF Accounting, Placed, Unclaimed
    <2>3. Account(c, a) = 1 /\ released[c][a] \in Nat
      BY DEF TypeOK, Accounting, Conserved, Bit
    <2>4. QED
      BY <2>1, <2>2, <2>3 DEF Account, Bit
  <1>2. QED
    BY <1>1, TypeCorrect, OwnershipConserved, EndingsHold, PTL

-----------------------------------------------------------------------------
(* The refinement of ArgumentOwnership, step by step.                      *)
Tokens == Calls \X Args
OwnerMap == [t \in Tokens |-> Owner(t[1], t[2])]
ReleasedSet == {t \in Tokens : released[t[1]][t[2]] > 0}
AllHooked == \A a \in Args : Hooked(a)

(* Whoever owns an argument after a step has it from the owner before it   *)
(* in the protocol, and no release is undone.                              *)
Forward(c, a) ==
  /\ a \in caller'[c] => a \in caller[c] \/ pc[c] = "idle"
  /\ (a \in Unclaimed(c))' => a \in Unclaimed(c) \/ a \in caller[c]
  /\ a \in callee'[c] => a \in callee[c] \/ a \in Unclaimed(c)
  /\ a \in captured'[c] => a \in captured[c] \/ a \in callee[c]
  /\ a \in kept'[c] => a \in kept[c] \/ a \in callee[c] \/ a \in captured[c]
  /\ released'[c][a] >= released[c][a]
  /\ pc[c] = "idle" => pc'[c] = "idle" \/ a \in caller'[c]
  /\ pc'[c] = "idle" => pc[c] = "idle"

LEMMA KeepForward ==
  ASSUME TypeOK, NEW c \in Calls, NEW S, KeepSome(c, S), NEW a \in Args
  PROVE  /\ a \in kept'[c] => a \in kept[c] \/ a \in S
         /\ released'[c][a] >= released[c][a]
  <1>1. released[c][a] \in Nat
    BY DEF TypeOK
  <1>2. QED
    BY <1>1, KeepEffect

LEMMA ReleaseForward ==
  ASSUME TypeOK, NEW c \in Calls, NEW a \in Args
  PROVE  /\ \A S : Release(c, S) => released'[c][a] >= released[c][a]
         /\ released' = released => released'[c][a] >= released[c][a]
  <1>1. released[c][a] \in Nat
    BY DEF TypeOK
  <1>2. QED
    BY <1>1, ReleaseEffect

LEMMA StepForward ==
  ASSUME TypeOK, Accounting, NEW c \in Calls, Step(c), NEW a \in Args
  PROVE  Forward(c, a)
  <1>p. Placed(c, a)
    BY DEF Accounting
  <1> USE ReleaseForward DEF Forward, TypeOK, Goto, End, args
  <1>1. CASE Start(c) \/ CancelUnpolled(c) \/ FieldMissing(c) \/ FieldAvailable(c)
    BY <1>1 DEF Start, CancelUnpolled, DropArguments, FieldMissing,
                FieldAvailable, Unclaimed
  <1>2. CASE Lower(c)
    <2>1. a = next[c] => a \in caller[c]
      BY <1>2, <1>p DEF Lower, Placed, Args
    <2>2. QED
      BY <1>2, <2>1 DEF Lower, Unclaimed
  <1>3. CASE LowerPanics(c) \/ Invoke(c)
    BY <1>3 DEF LowerPanics, DropGuards, Invoke, Unclaimed
  <1>4. CASE RefuseCall(c) \/ SpawnFuture(c)
    BY <1>4 DEF RefuseCall, SpawnFuture, Decoded, Unclaimed
  <1>5. CASE Decode(c)
    <2>1. a = next[c] => wire[c][a] = "armed"
      BY <1>5, <1>p DEF Decode, Claim, Placed, Args
    <2>2. QED
      BY <1>5, <2>1 DEF Decode, Claim, Unclaimed, Hooked
  <1>6. CASE DecodeFails(c)
    BY <1>6 DEF DecodeFails, Claim, Unclaimed
  <1>7. CASE MethodReturns(c) \/ MethodPanics(c)
    <2>1. KeepSome(c, callee[c])
      BY <1>7 DEF MethodReturns, MethodPanics
    <2>2. QED
      BY <1>7, <2>1, KeepForward DEF MethodReturns, MethodPanics, Decoded, Unclaimed
  <1>8. CASE PollPending(c)
    <2>1. PICK gone \in SUBSET captured[c] :
            /\ KeepSome(c, gone) /\ captured'[c] = captured[c] \ gone
      BY <1>8 DEF PollPending
    <2>2. QED
      BY <1>8, <2>1, KeepForward DEF PollPending, Unclaimed
  <1>9. CASE PollReady(c) \/ PollPanics(c)
    <2>1. KeepSome(c, captured[c])
      BY <1>9 DEF PollReady, PollPanics
    <2>2. QED
      BY <1>9, <2>1, KeepForward DEF PollReady, PollPanics, Unclaimed
  <1>10. CASE Cancel(c) \/ TakeOut(c)
    BY <1>10 DEF Cancel, TakeOut, Unclaimed
  <1>11. CASE DropWires(c)
    BY <1>11 DEF DropWires, DropGuards, Unclaimed
  <1>12. CASE ReleaseFuture(c)
    BY <1>12 DEF ReleaseFuture, Unclaimed
  <1>13. CASE DropKept(c)
    <2>1. PICK b \in kept[c] : kept'[c] = kept[c] \ {b} /\ Release(c, {b})
      BY <1>13 DEF DropKept
    <2>2. QED
      BY <1>13, <2>1 DEF DropKept, Unclaimed
  <1>14. QED
    BY <1>1, <1>2, <1>3, <1>4, <1>5, <1>6, <1>7, <1>8, <1>9, <1>10, <1>11,
       <1>12, <1>13
    DEF Step, Prepare, Thunk, Finish, Unwind

(* How one argument moves in one step of the program.                      *)
Moves(c, a) ==
  \/ Owner(c, a)' = Owner(c, a) /\ released'[c][a] = released[c][a]
  \/ /\ released'[c][a] = 0 /\ released[c][a] = 0
     /\ \/ Owner(c, a) = "nobody" /\ Owner(c, a)' = "caller"
        \/ Owner(c, a) = "caller" /\ Owner(c, a)' = "wire"
        \/ Owner(c, a) = "wire" /\ Owner(c, a)' = "callee"
        \/ Owner(c, a) = "callee" /\ Owner(c, a)' \in {"future", "keeper"}
        \/ Owner(c, a) = "future" /\ Owner(c, a)' = "keeper"
  \/ /\ Owner(c, a) # "nobody" /\ Owner(c, a)' = "nobody"
     /\ released'[c][a] = 1

(* The books leave one argument with one owner, or none.                   *)
OwnerFacts(c, a) ==
  /\ a \in caller[c] <=> Owner(c, a) = "caller"
  /\ a \in Unclaimed(c) <=> Owner(c, a) = "wire"
  /\ a \in callee[c] <=> Owner(c, a) = "callee"
  /\ a \in captured[c] <=> Owner(c, a) = "future"
  /\ a \in kept[c] <=> Owner(c, a) = "keeper"
  /\ Owner(c, a) \in {"caller", "wire", "callee", "future", "keeper", "nobody"}
  /\ released[c][a] \in {0, 1}
  /\ released[c][a] = 1 => Owner(c, a) = "nobody"
  /\ Owner(c, a) = "nobody" /\ pc[c] # "idle" => released[c][a] = 1
  /\ pc[c] = "idle" => Owner(c, a) = "nobody" /\ released[c][a] = 0

LEMMA OwnerFromBooks ==
  ASSUME AllHooked, NEW c \in Calls, NEW a \in Args
  PROVE  TypeOK /\ Accounting => OwnerFacts(c, a)
  <1> SUFFICES ASSUME TypeOK, Accounting
               PROVE  OwnerFacts(c, a)
    OBVIOUS
  <1>1. released[c][a] \in Nat /\ Account(c, a) = Bit(pc[c] # "idle")
    BY DEF TypeOK, Accounting, Conserved, AllHooked
  <1>2. QED
    BY <1>1 DEF OwnerFacts, Owner, Account, Bit

LEMMA StepMoves ==
  ASSUME TypeOK, Accounting, TypeOK', Accounting', AllHooked,
         NEW c \in Calls, Step(c), NEW a \in Args
  PROVE  Moves(c, a)
  <1>1. Forward(c, a)
    BY StepForward
  <1>2. OwnerFacts(c, a)
    BY OwnerFromBooks
  <1>3. OwnerFacts(c, a)'
    <2>1. released'[c][a] \in Nat /\ Account(c, a)' = Bit(pc'[c] # "idle")
      BY DEF TypeOK, Accounting, Conserved, AllHooked, Hooked, Bit
    <2>2. QED
      BY <2>1 DEF OwnerFacts, Owner, Account, Bit
  <1> DEFINE o == Owner(c, a)
             p == Owner(c, a)'
             r == released[c][a]
             q == released'[c][a]
  <1>4. /\ p = "caller" => o = "caller" \/ (o = "nobody" /\ r = 0)
        /\ p = "wire" => o = "wire" \/ o = "caller"
        /\ p = "callee" => o = "callee" \/ o = "wire"
        /\ p = "future" => o = "future" \/ o = "callee"
        /\ p = "keeper" => o = "keeper" \/ o = "callee" \/ o = "future"
    BY <1>1, <1>2, <1>3 DEF Forward, OwnerFacts
  <1>5. /\ r \in {0, 1} /\ q \in {0, 1} /\ q >= r
        /\ r = 1 => o = "nobody"
        /\ q = 1 => p = "nobody"
        /\ o = "nobody" /\ p = "nobody" => r = q
        /\ o # "nobody" /\ p = "nobody" => q = 1
    BY <1>1, <1>2, <1>3 DEF Forward, OwnerFacts
  <1>6. /\ p \in {"caller", "wire", "callee", "future", "keeper", "nobody"}
        /\ o \in {"caller", "wire", "callee", "future", "keeper", "nobody"}
    BY <1>2, <1>3 DEF OwnerFacts
  <1> HIDE DEF o, p, r, q
  <1>7. \/ p = o /\ q = r
        \/ /\ q = 0 /\ r = 0
           /\ \/ o = "nobody" /\ p = "caller"
              \/ o = "caller" /\ p = "wire"
              \/ o = "wire" /\ p = "callee"
              \/ o = "callee" /\ p \in {"future", "keeper"}
              \/ o = "future" /\ p = "keeper"
        \/ o # "nobody" /\ p = "nobody" /\ q = 1
    BY <1>4, <1>5, <1>6
  <1>8. QED
    BY <1>7 DEF Moves, o, p, r, q

LEMMA ProtocolInit == Init => Protocol!Init
  <1> SUFFICES ASSUME Init
               PROVE  Protocol!Init
    OBVIOUS
  <1>1. \A t \in Tokens : Owner(t[1], t[2]) = "nobody"
    BY DEF Init, Owner, Unclaimed, Tokens
  <1>2. \A t \in Tokens : released[t[1]][t[2]] = 0
    BY DEF Init, Tokens
  <1>3. QED
    BY <1>1, <1>2 DEF Protocol!Init, Tokens

LEMMA ProtocolNext ==
  ASSUME TypeOK, Accounting, TypeOK', Accounting', AllHooked, [Next]_vars
  PROVE  [Protocol!Next]_(Protocol!vars)
  <1>1. CASE UNCHANGED vars
    BY <1>1 DEF vars, args, Owner, Unclaimed, Protocol!vars
  <1>2. ASSUME NEW d \in Calls, Step(d)
        PROVE  Protocol!Next
    <2>1. \A t \in Tokens : Moves(t[1], t[2])
      <3> SUFFICES ASSUME NEW c \in Calls, NEW a \in Args
                   PROVE  Moves(c, a)
        BY DEF Tokens
      <3>1. CASE c = d
        BY <1>2, <3>1, StepMoves
      <3>2. CASE c # d
        BY <1>2, <3>2, StepFrame DEF Frame, Moves, Owner, Unclaimed
      <3>3. QED
        BY <3>1, <3>2
    <2>2. \A t \in Tokens : /\ released[t[1]][t[2]] \in Nat
                            /\ released'[t[1]][t[2]] \in Nat
      BY DEF Tokens, TypeOK
    <2>3. OwnerMap' \in [Tokens -> {"caller", "wire", "callee", "future",
                                   "keeper", "nobody"}]
      BY DEF OwnerMap, Owner, Tokens
    <2>4. ASSUME NEW t \in Tokens
          PROVE  \/ Protocol!Arrive(t) \/ Protocol!Hand(t)
                 \/ Protocol!Release(t) \/ Protocol!Stay(t)
      BY <2>1, <2>2 DEF Moves, Tokens, Protocol!Arrive, Protocol!Hand,
         Protocol!Release, Protocol!Stay, Protocol!Handover
    <2>5. QED
      BY <2>3, <2>4 DEF Protocol!Next, Protocol!Holder, OwnerMap, Tokens
  <1>3. QED
    BY <1>1, <1>2 DEF Next, Step

(* The generated call glue implements the documented ownership protocol:   *)
(* ownership of every argument follows the rows of the failure table, for  *)
(* methods all of whose arguments have the ownership hooks.                *)
THEOREM ImplementsProtocol ==
  ASSUME AllHooked
  PROVE  SafeSpec => FollowsProtocol
  <1>1. TypeOK /\ Accounting /\ TypeOK' /\ Accounting' /\ [Next]_vars
          => [Protocol!Next]_(Protocol!vars)
    BY ProtocolNext
  <1>2. QED
    BY <1>1, ProtocolInit, TypeCorrect, OwnershipConserved, PTL
    DEF SafeSpec, FollowsProtocol, Protocol!SafeSpec

-----------------------------------------------------------------------------
(* The refinement of AwaitedFuture: what one step is to the awaiter.       *)
Same(c) == Payload(c)' = Payload(c) /\ Answered(c)' = Answered(c)

Spawns(c) == Stage(c) = "none" /\ Stage(c)' = "running" /\ Same(c)

Declines(c) == /\ Stage(c) = "none" /\ Stage(c)' = "gone"
               /\ Payload(c)' = Payload(c)
               /\ Answered(c)' \in {"none", "runtimeError"}

Answers(c) == /\ Stage(c) = "running" /\ Stage(c)' = "answered"
              /\ Payload(c)' \in {"empty", "OK", "ERR_EXPORT"}
              /\ Answered(c)' = Answered(c)

Settles(c) == /\ Stage(c) = "answered" /\ Stage(c)' = "settled"
              /\ Payload(c)' = "empty"
              /\ \/ Answered(c)' = "runtimeError"
                 \/ Payload(c) = "OK" /\ Answered(c)' = "value"
                 \/ Payload(c) = "ERR_EXPORT" /\ Answered(c)' = "exportError"

Drops(c) == Stage(c) \in {"running", "settled"} /\ Stage(c)' = "gone" /\ Same(c)

Awaits(c) == \/ Spawns(c) \/ Declines(c) \/ Answers(c) \/ Settles(c) \/ Drops(c)
             \/ Stage(c)' = Stage(c) /\ Same(c)

(* What the awaiter can tell of a step: where it leads the call, with which *)
(* status, and what is in the out slot then.                               *)
Leads(c, from, to, status, slot) ==
  /\ pc[c] = from /\ pc'[c] \in to
  /\ mode'[c] = mode[c]
  /\ code'[c] \in status
  /\ out'[c] \in slot

LEMMA ModeKept ==
  ASSUME NEW c \in Calls, Step(c)
  PROVE  mode'[c] = mode[c]
  BY DEF Step, Start, CancelUnpolled, DropArguments, Prepare, FieldMissing,
     FieldAvailable, Lower, LowerPanics, Invoke, Thunk, RefuseCall, Decode,
     DecodeFails, MethodReturns, MethodPanics, SpawnFuture, PollPending, Finish,
     PollReady, PollPanics, Cancel, Unwind, DropWires, TakeOut, ReleaseFuture, DropKept

LEMMA StepAwaits ==
  ASSUME TypeOK, Endings, NEW c \in Calls, Step(c)
  PROVE  Awaits(c)
  <1>e. /\ Ending(c) /\ mode[c] \in {"sync", "async"} /\ code[c] \in Codes
        /\ out[c] \in {"empty", "full", "consumed"}
    BY DEF Endings, TypeOK
  <1>s. CASE mode[c] = "sync"
    <2>1. mode'[c] = mode[c]
      BY ModeKept
    <2>2. QED
      BY <1>s, <2>1 DEF Awaits, Same, Stage, Payload, Answered
  <1>n. CASE mode[c] = "sync" \/ UNCHANGED <<Stage(c), Payload(c), Answered(c)>>
    BY <1>s, <1>n DEF Awaits, Same
  <1> USE DEF Leads, Ending, Stage, Payload, Answered
  <1>1. CASE Start(c)
    <2>1. Leads(c, "idle", {"ready"}, {code[c]}, {out[c]})
      BY <1>1 DEF TypeOK, Goto, End, args, Start
    <2>2. mode[c] = "sync" \/ UNCHANGED <<Stage(c), Payload(c), Answered(c)>>
      BY <1>e, <2>1
    <2>3. QED
      BY <1>n, <2>2
  <1>2. CASE CancelUnpolled(c)
    <2>1. Leads(c, "ready", {"done"}, {"cancelled"}, {out[c]})
      BY <1>2 DEF TypeOK, Goto, End, args, CancelUnpolled, DropArguments
    <2>2. mode[c] = "async" => Declines(c)
      BY <1>e, <2>1 DEF Declines
    <2>3. QED
      BY <1>e, <1>s, <2>2 DEF Awaits
  <1>3. CASE FieldMissing(c)
    <2>1. Leads(c, "ready", {"done"}, {"AbiMismatch"}, {out[c]})
      BY <1>3 DEF TypeOK, Goto, End, args, FieldMissing, DropArguments
    <2>2. mode[c] = "async" => Declines(c)
      BY <1>e, <2>1 DEF Declines
    <2>3. QED
      BY <1>e, <1>s, <2>2 DEF Awaits
  <1>4. CASE FieldAvailable(c)
    <2>1. Leads(c, "ready", {"lower"}, {code[c]}, {out[c]})
      BY <1>4 DEF TypeOK, Goto, End, args, FieldAvailable
    <2>2. mode[c] = "sync" \/ UNCHANGED <<Stage(c), Payload(c), Answered(c)>>
      BY <1>e, <2>1
    <2>3. QED
      BY <1>n, <2>2
  <1>5. CASE Lower(c) \/ Invoke(c)
    <2>1. Leads(c, "lower", {"lower", "decode"}, {code[c]}, {out[c]})
      BY <1>5 DEF TypeOK, Goto, End, args, Lower, Invoke
    <2>2. mode[c] = "sync" \/ UNCHANGED <<Stage(c), Payload(c), Answered(c)>>
      BY <1>e, <2>1
    <2>3. QED
      BY <1>n, <2>2
  <1>6. CASE LowerPanics(c)
    <2>1. Leads(c, "lower", {"done"}, {"unwound"}, {out[c]})
      BY <1>6 DEF TypeOK, Goto, End, args, LowerPanics, DropGuards
    <2>2. mode[c] = "async" => Declines(c)
      BY <1>e, <2>1 DEF Declines
    <2>3. QED
      BY <1>e, <1>s, <2>2 DEF Awaits
  <1>7. CASE Decode(c)
    <2>1. Leads(c, "decode", {"decode"}, {code[c]}, {out[c]})
      BY <1>7 DEF TypeOK, Goto, End, args, Decode
    <2>2. mode[c] = "sync" \/ UNCHANGED <<Stage(c), Payload(c), Answered(c)>>
      BY <1>e, <2>1
    <2>3. QED
      BY <1>n, <2>2
  <1>8. CASE RefuseCall(c) \/ DecodeFails(c)
    <2>1. Leads(c, "decode", {"unguard"},
               {"ERR_INVALID_ARGUMENT", "ERR_PANIC"}, {out[c]})
      BY <1>8 DEF TypeOK, Goto, End, args, RefuseCall, DecodeFails
    <2>2. CASE mode[c] = "async"
      <3>1. Stage(c)' = Stage(c)
        BY <1>e, <2>1, <2>2
      <3>2. Payload(c)' = Payload(c)
        BY <1>e, <2>1, <2>2
      <3>3. Answered(c)' = Answered(c)
        BY <1>e, <2>1, <2>2
      <3>4. QED
        BY <1>n, <3>1, <3>2, <3>3
    <2>3. QED
      BY <1>e, <1>s, <2>2
  <1>9. CASE MethodReturns(c) \/ MethodPanics(c)
    <2>1. mode[c] = "sync" /\ Leads(c, "decode", {"unguard"},
                                   Codes, {out[c], "full"})
      BY <1>9 DEF TypeOK, Goto, End, args, MethodReturns, MethodPanics, Decoded, Codes
    <2>2. mode[c] = "sync" \/ UNCHANGED <<Stage(c), Payload(c), Answered(c)>>
      BY <1>e, <2>1
    <2>3. QED
      BY <1>n, <2>2
  <1>10. CASE SpawnFuture(c)
    <2>1. mode[c] = "async" /\ Leads(c, "decode", {"unguard"},
                                    {"OK"}, {out[c]})
      BY <1>10 DEF TypeOK, Goto, End, args, SpawnFuture, Decoded
    <2>2. CASE mode[c] = "async"
      <3>1. Stage(c) = "none" /\ Stage(c)' = "running"
        BY <1>e, <2>1, <2>2
      <3>2. Payload(c)' = Payload(c)
        BY <1>e, <2>1, <2>2
      <3>3. Answered(c)' = Answered(c)
        BY <1>e, <2>1, <2>2
      <3>4. QED
        BY <3>1, <3>2, <3>3 DEF Spawns, Same, Awaits
    <2>3. QED
      BY <1>e, <1>s, <2>2
  <1>11. CASE PollPending(c) \/ DropKept(c)
    <2>1. Leads(c, pc[c], {pc[c]}, {code[c]}, {out[c]})
      BY <1>11 DEF TypeOK, Goto, End, args, PollPending, DropKept
    <2>2. mode[c] = "sync" \/ UNCHANGED <<Stage(c), Payload(c), Answered(c)>>
      BY <1>e, <2>1
    <2>3. QED
      BY <1>n, <2>2
  <1>12. CASE PollReady(c)
    <2>1. Leads(c, "pending", {"takeOut"}, {"OK", "ERR_EXPORT"}, {"full"})
      BY <1>12 DEF TypeOK, Goto, End, args, PollReady
    <2>2. CASE mode[c] = "async"
      <3>1. Stage(c) = "running" /\ Stage(c)' = "answered"
        BY <1>e, <2>1, <2>2
      <3>2. Payload(c)' \in {"empty", "OK", "ERR_EXPORT"}
        BY <1>e, <2>1, <2>2
      <3>3. Answered(c)' = Answered(c)
        BY <1>e, <2>1, <2>2
      <3>4. QED
        BY <3>1, <3>2, <3>3 DEF Answers, Awaits
    <2>3. QED
      BY <1>e, <1>s, <2>2
  <1>13. CASE PollPanics(c)
    <2>1. Leads(c, "pending", {"takeOut"}, {"ERR_PANIC"}, {out[c]})
      BY <1>13 DEF TypeOK, Goto, End, args, PollPanics
    <2>2. CASE mode[c] = "async"
      <3>1. Stage(c) = "running" /\ Stage(c)' = "answered"
        BY <1>e, <2>1, <2>2
      <3>2. Payload(c)' \in {"empty", "OK", "ERR_EXPORT"}
        BY <1>e, <2>1, <2>2
      <3>3. Answered(c)' = Answered(c)
        BY <1>e, <2>1, <2>2
      <3>4. QED
        BY <3>1, <3>2, <3>3 DEF Answers, Awaits
    <2>3. QED
      BY <1>e, <1>s, <2>2
  <1>14. CASE Cancel(c)
    <2>1. Leads(c, "pending", {"release"}, {"cancelled"}, {out[c]})
      BY <1>14 DEF TypeOK, Goto, End, args, Cancel
    <2>2. CASE mode[c] = "async"
      <3>1. Stage(c)' = Stage(c)
        BY <1>e, <2>1, <2>2
      <3>2. Payload(c)' = Payload(c)
        BY <1>e, <2>1, <2>2
      <3>3. Answered(c)' = Answered(c)
        BY <1>e, <2>1, <2>2
      <3>4. QED
        BY <1>n, <3>1, <3>2, <3>3
    <2>3. QED
      BY <1>e, <1>s, <2>2
  <1>15. CASE DropWires(c)
    <2>1. /\ Leads(c, "unguard", {IF mode[c] = "sync" THEN "takeOut"
                                  ELSE IF code[c] = "OK" THEN "pending" ELSE "done"},
                   {code[c]}, {out[c]})
      BY <1>15 DEF TypeOK, Goto, End, args, DropWires, DropGuards
    <2>2. CASE mode[c] = "async"
      <3>1. Payload(c)' = "empty" /\ Payload(c) = "empty"
        BY <1>e, <2>1, <2>2
      <3>2. CASE code[c] = "OK"
        <4>1. UNCHANGED <<Stage(c), Answered(c)>>
          BY <1>e, <2>1, <2>2, <3>2
        <4>2. QED
          BY <1>n, <3>1, <4>1
      <3>3. CASE code[c] # "OK"
        <4>1. Stage(c) = "none" /\ Stage(c)' = "gone"
          BY <1>e, <2>1, <2>2, <3>3
        <4>2. Answered(c)' = "runtimeError"
          BY <1>e, <2>1, <2>2, <3>3
        <4>3. QED
          BY <3>1, <4>1, <4>2 DEF Declines, Awaits
      <3>4. QED
        BY <3>2, <3>3
    <2>3. QED
      BY <1>e, <1>s, <2>2
  <1>16. CASE TakeOut(c)
    <2>1. /\ Leads(c, "takeOut", {IF mode[c] = "sync" THEN "done" ELSE "release"},
               {code[c]}, {out[c], "consumed"})
          /\ mode[c] = "async" =>
               out'[c] = IF out[c] = "full" THEN "consumed" ELSE out[c]
      BY <1>16 DEF TypeOK, Goto, End, args, TakeOut
    <2>2. mode[c] = "async" => Settles(c)
      BY <1>e, <2>1 DEF Settles
    <2>3. QED
      BY <1>e, <1>s, <2>2 DEF Awaits
  <1>17. CASE ReleaseFuture(c)
    <2>1. Leads(c, "release", {"done"}, {code[c]}, {out[c]})
      BY <1>17 DEF TypeOK, Goto, End, args, ReleaseFuture
    <2>2. mode[c] = "async" => Drops(c)
      BY <1>e, <2>1 DEF Drops, Same
    <2>3. QED
      BY <1>e, <1>s, <2>2 DEF Awaits
  <1>18. QED
    BY <1>1, <1>2, <1>3, <1>4, <1>5, <1>6, <1>7, <1>8, <1>9, <1>10, <1>11, <1>12,
       <1>13, <1>14, <1>15, <1>16, <1>17
    DEF Step, Prepare, Thunk, Finish, Unwind

StageMap == [c \in Calls |-> Stage(c)]
PayloadMap == [c \in Calls |-> Payload(c)]
AnswerMap == [c \in Calls |-> Answered(c)]

LEMMA AwaitingInit == Init => Awaiting!Init
  BY DEF Init, Awaiting!Init, Stage, Payload, Answered

LEMMA AwaitingNext ==
  ASSUME TypeOK, Endings, [Next]_vars
  PROVE  [Awaiting!Next]_(Awaiting!vars)
  <1>1. CASE UNCHANGED vars
    BY <1>1 DEF vars, args, Stage, Payload, Answered, Awaiting!vars
  <1>2. ASSUME NEW c \in Calls, Step(c)
        PROVE  [Awaiting!Next]_(Awaiting!vars)
    <2>1. \A d \in Calls \ {c} : Stage(d)' = Stage(d) /\ Same(d)
      BY <1>2, StepFrame DEF Frame, Same, Stage, Payload, Answered
    <2>2. /\ StageMap' = [StageMap EXCEPT ![c] = Stage(c)']
          /\ PayloadMap' = [PayloadMap EXCEPT ![c] = Payload(c)']
          /\ AnswerMap' = [AnswerMap EXCEPT ![c] = Answered(c)']
      BY <2>1 DEF Same, StageMap, PayloadMap, AnswerMap
    <2>3. /\ Payload(c)' = Payload(c) => PayloadMap' = PayloadMap
          /\ Answered(c)' = Answered(c) => AnswerMap' = AnswerMap
          /\ Stage(c)' = Stage(c) => StageMap' = StageMap
      BY <2>1 DEF Same, StageMap, PayloadMap, AnswerMap
    <2> USE <2>2, <2>3 DEF StageMap, PayloadMap, AnswerMap, Awaiting!Moves, Same
    <2>4. CASE Spawns(c)
      <3>1. Awaiting!Spawn(c)
        BY <2>4 DEF Spawns, Awaiting!Spawn
      <3>2. QED
        BY <3>1 DEF Awaiting!Next
    <2>5. CASE Declines(c)
      <3>1. Awaiting!Decline(c)
        BY <2>5 DEF Declines, Awaiting!Decline
      <3>2. QED
        BY <3>1 DEF Awaiting!Next
    <2>6. CASE Answers(c)
      <3>1. Awaiting!Answer(c)
        BY <2>6 DEF Answers, Awaiting!Answer, Awaiting!Payloads
      <3>2. QED
        BY <3>1 DEF Awaiting!Next
    <2>7. CASE Settles(c)
      <3>1. Awaiting!Settle(c)
        BY <2>7 DEF Settles, Awaiting!Settle
      <3>2. QED
        BY <3>1 DEF Awaiting!Next
    <2>8. CASE Drops(c)
      <3>1. Awaiting!Drop(c)
        BY <2>8 DEF Drops, Awaiting!Drop
      <3>2. QED
        BY <3>1 DEF Awaiting!Next
    <2>9. CASE Stage(c)' = Stage(c) /\ Same(c)
      BY <2>9 DEF Awaiting!vars
    <2>10. QED
      BY <1>2, StepAwaits, <2>4, <2>5, <2>6, <2>7, <2>8, <2>9 DEF Awaits
  <1>3. QED
    BY <1>1, <1>2 DEF Next, Step

(* An async call is to its caller an awaited future: it is refused before  *)
(* it has one, or answers once, with a payload that is taken over with the *)
(* answer, and is dropped at no other time (docs/abi-design.md:365-374).   *)
THEOREM ImplementsAwaited == SafeSpec => AwaitsOnce
  <1>1. TypeOK /\ Endings /\ [Next]_vars => [Awaiting!Next]_(Awaiting!vars)
    BY AwaitingNext
  <1>2. QED
    BY <1>1, AwaitingInit, TypeCorrect, EndingsHold, PTL
    DEF SafeSpec, AwaitsOnce, Awaiting!Spec
=============================================================================
