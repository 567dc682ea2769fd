----------------------------- MODULE FuturePoll -----------------------------
(***************************************************************************)
(* One exported future and the wakers that cross the ABI with it: the host *)
(* task polls XabiTypedFuture, every poll lends the module a borrowed      *)
(* XabiWaker, the module clones it, registers a clone, and a thread of the *)
(* module wakes it whenever it likes, also while the task is being polled  *)
(* and after the future is gone (xabi/src/future.rs).                      *)
(*                                                                         *)
(* A Rust waker of the module is a shell, Box<XabiWaker>, whose instance   *)
(* is a Box<Waker> of the host, or the host's stack during a poll.         *)
(*                                                                         *)
(* A definition named A_Slip is not part of the model: it is A with a slip *)
(* in it, there to show that the properties would notice.                  *)
(***************************************************************************)

CONSTANTS
  HostWakers,   \* the wakers the executor polls the task with
  Shells,       \* addresses of Box<XabiWaker>, allocated by the module
  Boxes,        \* addresses of Box<Waker>, allocated by the host
  NoWaker,      \* the content of a Box address that is not allocated
  Stack, Null   \* the two instances that are not a Box

ASSUME DistinctAddresses == /\ NoWaker \notin HostWakers
                            /\ Stack # Null
                            /\ Stack \notin Boxes /\ Null \notin Boxes

VARIABLES
  poller,       \* where the host task is
  cur,          \* the waker of the latest poll
  notified,     \* wakers with a wake-up the executor has not yet acted on
  future,       \* XabiFutureState::future, "freed" with the state
  code, out,    \* what the poll function returned, and wrote
  outcome,      \* what the caller of the method got
  heap,         \* heap[b]: the host waker in Box b
  holder,       \* holder[s]: which part of the module has waker s
  inst,         \* inst[s]: the instance field of waker s
  event         \* the module's thread has produced the result

wakers == <<heap, holder, inst>>
task == <<poller, cur, future, code, out, outcome>>
vars == <<task, notified, wakers, event>>

(* "poll": the local of poll_result_*_future; "slot": registered with the  *)
(* thread; "thread": taken or cloned by it; "waking": inside               *)
(* raw_waker_wake, woken but not released; "spent": woken by reference.    *)
Holders == {"none", "poll", "slot", "thread", "waking", "spent"}

TypeOK ==
  /\ poller \in {"idle", "entered", "running", "leaving", "returned",
                 "complete", "released"}
  /\ cur \in HostWakers
  /\ notified \in SUBSET HostWakers
  /\ future \in {"some", "poisoned", "none", "freed"}
  /\ code \in {"none", "POLL_PENDING", "POLL_READY", "ERR_PANIC",
               "ERR_INVALID_ARGUMENT"}
  /\ out \in {"empty", "OK", "ERR_EXPORT"}
  /\ outcome \in {"none", "value", "exportError", "runtimeError"}
  /\ heap \in [Boxes -> HostWakers \cup {NoWaker}]
  /\ holder \in [Shells -> Holders]
  /\ inst \in [Shells -> Boxes \cup {Stack, Null}]
  /\ event \in BOOLEAN

(* The task is spawned: its first poll is due.                             *)
Init ==
  /\ poller = "idle"
  /\ cur \in HostWakers
  /\ notified = {cur}
  /\ future = "some"
  /\ code = "none" /\ out = "empty" /\ outcome = "none"
  /\ heap = [b \in Boxes |-> NoWaker]
  /\ holder = [s \in Shells |-> "none"]
  /\ inst = [s \in Shells |-> Null]
  /\ event = FALSE

-----------------------------------------------------------------------------
(* The waker callbacks.  The host waker an instance stands for:            *)
Target(i) == IF i = Stack THEN cur ELSE heap[i]

(* wake and wake_by_ref of a XabiWaker.                                    *)
Wake(i) == notified' = notified \cup {Target(i)}

(* clone, then Box::new: a new shell t with a Box of its own.              *)
Clone_Shares(i, t, b, h) ==
  /\ holder[t] = "none" /\ heap[b] = NoWaker
  /\ heap' = IF i = Stack THEN [heap EXCEPT ![b] = cur] ELSE heap
  /\ holder' = [holder EXCEPT ![t] = h]
  /\ inst' = [inst EXCEPT ![t] = IF i = Stack THEN b ELSE i]

Clone(i, t, b, h) ==
  /\ holder[t] = "none" /\ heap[b] = NoWaker
  /\ heap' = [heap EXCEPT ![b] = Target(i)]
  /\ holder' = [holder EXCEPT ![t] = h]
  /\ inst' = [inst EXCEPT ![t] = b]

(* release, and the shell's own Box.  Releasing a borrowed waker does      *)
(* nothing.                                                                *)
DropShell_KeepsInstance(s) ==
  /\ holder' = [holder EXCEPT ![s] = "none"]
  /\ inst' = [inst EXCEPT ![s] = Null]
  /\ UNCHANGED heap

DropShell(s) ==
  /\ heap' = IF inst[s] \in Boxes THEN [heap EXCEPT ![inst[s]] = NoWaker] ELSE heap
  /\ holder' = [holder EXCEPT ![s] = "none"]
  /\ inst' = [inst EXCEPT ![s] = Null]

(* The shell held by h: the local of a poll, or the registered waker.      *)
Held(h) == {s \in Shells : holder[s] = h}

-----------------------------------------------------------------------------
(* XabiTypedFuture::poll on the host.  The executor may poll when nothing  *)
(* woke the task, with another waker than the last time, and even after    *)
(* the future has completed.                                               *)
BeginPoll(w) ==
  /\ poller \in {"idle", "complete"}
  /\ cur' = w
  /\ notified' = notified \ {w}
  /\ poller' = "entered"
  /\ UNCHANGED <<future, code, out, outcome, wakers, event>>

(* waker.to_waker() in the module: the borrowed waker is cloned.           *)
ToWaker ==
  /\ poller = "entered"
  /\ \E s \in Shells, b \in Boxes : Clone(Stack, s, b, "poll")
  /\ poller' = "running"
  /\ UNCHANGED <<cur, notified, future, code, out, outcome, event>>

Return(status) == code' = status /\ poller' = "leaving"

(* state.future is None.                                                   *)
PollCompleted ==
  /\ poller = "running"
  /\ future = "none"
  /\ Return("ERR_INVALID_ARGUMENT")
  /\ UNCHANGED <<cur, notified, future, out, outcome, wakers, event>>

(* The implementation is not ready: it registers a clone of the waker it   *)
(* was polled with, the first time into an empty slot ...                  *)
PollRegisters ==
  /\ poller = "running"
  /\ future = "some"
  /\ ~event
  /\ Held("slot") = {}
  /\ \E p \in Held("poll"), t \in Shells, b \in Boxes :
       Clone(inst[p], t, b, "slot")
  /\ Return("POLL_PENDING")
  /\ UNCHANGED <<cur, notified, future, out, outcome, event>>

(* ... and later in place of the waker of an earlier poll, which it drops. *)
PollReregisters ==
  /\ poller = "running"
  /\ future = "some"
  /\ ~event
  /\ \E p \in Held("poll"), old \in Held("slot"), t \in Shells, b \in Boxes :
       /\ holder[t] = "none" /\ heap[b] = NoWaker
       /\ heap' = [x \in Boxes |-> CASE x = b -> Target(inst[p])
                                     [] x = inst[old] -> NoWaker
                                     [] OTHER -> heap[x]]
       /\ holder' = [holder EXCEPT ![t] = "slot", ![old] = "none"]
       /\ inst' = [inst EXCEPT ![t] = b, ![old] = Null]
  /\ Return("POLL_PENDING")
  /\ UNCHANGED <<cur, notified, future, out, outcome, event>>

(* It gives way to other tasks: it wakes the waker it was polled with.     *)
PollYields ==
  /\ poller = "running"
  /\ future = "some"
  /\ ~event
  /\ \E p \in Held("poll") : Wake(inst[p])
  /\ Return("POLL_PENDING")
  /\ UNCHANGED <<cur, future, out, outcome, wakers, event>>

(* Poll::Ready: state.future = None, then *out is written.                 *)
PollReady_KeepsFuture ==
  /\ poller = "running"
  /\ future = "some"
  /\ event
  /\ out' \in {"OK", "ERR_EXPORT"}
  /\ Return("POLL_READY")
  /\ UNCHANGED <<cur, notified, future, outcome, wakers, event>>

PollReady ==
  /\ poller = "running"
  /\ future = "some"
  /\ event
  /\ future' = "none"
  /\ out' \in {"OK", "ERR_EXPORT"}
  /\ Return("POLL_READY")
  /\ UNCHANGED <<cur, notified, outcome, wakers, event>>

(* catch_unwind_code: the implementation panics, now or because it has     *)
(* before; or dropping it, or encoding its result, does.                   *)
PollPanics ==
  /\ poller = "running"
  /\ future \in {"some", "poisoned"}
  /\ future' \in IF future = "some" /\ event THEN {"poisoned", "none"} ELSE {"poisoned"}
  /\ Return("ERR_PANIC")
  /\ UNCHANGED <<cur, notified, out, outcome, wakers, event>>

(* The poll function returns: rust_waker is dropped.                       *)
LeavePoll ==
  /\ poller = "leaving"
  /\ \E p \in Held("poll") : DropShell(p)
  /\ poller' = "returned"
  /\ UNCHANGED <<cur, notified, future, code, out, outcome, event>>

(* Back on the host.  The payload is decoded, which may fail, or is        *)
(* discarded.                                                              *)
Settle_RetriesAfterPanic ==
  /\ poller = "returned"
  /\ IF code \in {"POLL_PENDING", "ERR_PANIC"}
       THEN poller' = "idle" /\ UNCHANGED outcome
       ELSE poller' = "complete" /\ outcome' \in {"value", "runtimeError"}
  /\ out' = "empty"
  /\ code' = "none"
  /\ UNCHANGED <<cur, notified, future, wakers, event>>

Settle ==
  /\ poller = "returned"
  /\ IF code = "POLL_PENDING"
       THEN poller' = "idle" /\ UNCHANGED outcome
       ELSE /\ poller' = "complete"
            /\ outcome' \in {"runtimeError"} \cup
                 (IF code = "POLL_READY"
                    THEN {IF out = "OK" THEN "value" ELSE "exportError"} ELSE {})
  /\ out' = "empty"
  /\ code' = "none"
  /\ UNCHANGED <<cur, notified, future, wakers, event>>

(* XabiTypedFuture is dropped, by cancellation or when the task is done.   *)
(* The registered waker stays with the thread, or is dropped as well.      *)
ReleaseFuture ==
  /\ poller \in {"idle", "complete"}
  /\ poller' = "released"
  /\ future' = "freed"
  /\ \/ \E s \in Held("slot") : DropShell(s)
     \/ UNCHANGED wakers
  /\ UNCHANGED <<cur, notified, code, out, outcome, event>>

-----------------------------------------------------------------------------
(* A thread of the module: it produces the result and takes the waker that *)
(* is registered, in one critical section with the poll.                   *)
Produce ==
  /\ ~event
  /\ event' = TRUE
  /\ holder' = [s \in Shells |-> IF holder[s] = "slot" THEN "thread" ELSE holder[s]]
  /\ UNCHANGED <<task, notified, heap, inst>>

(* It clones the registered waker, to report progress with.                *)
CloneSlot ==
  /\ ~event
  /\ \E s \in Held("slot"), t \in Shells, b \in Boxes :
       Clone(inst[s], t, b, "thread")
  /\ UNCHANGED <<task, notified, event>>

(* Waker::wake: raw_waker_wake calls wake, then release.                   *)
RawWake_Consumes(s) ==
  /\ holder[s] = "thread"
  /\ Wake(inst[s])
  /\ heap' = IF inst[s] \in Boxes THEN [heap EXCEPT ![inst[s]] = NoWaker] ELSE heap
  /\ holder' = [holder EXCEPT ![s] = "waking"]
  /\ UNCHANGED <<task, inst, event>>

RawWake(s) ==
  /\ holder[s] = "thread"
  /\ Wake(inst[s])
  /\ holder' = [holder EXCEPT ![s] = "waking"]
  /\ UNCHANGED <<task, heap, inst, event>>

(* Waker::wake_by_ref; the waker itself is dropped later.                  *)
RawWakeByRef_Forgets(s) ==
  /\ holder[s] = "thread"
  /\ holder' = [holder EXCEPT ![s] = "spent"]
  /\ UNCHANGED <<task, notified, heap, inst, event>>

RawWakeByRef(s) ==
  /\ holder[s] = "thread"
  /\ Wake(inst[s])
  /\ holder' = [holder EXCEPT ![s] = "spent"]
  /\ UNCHANGED <<task, heap, inst, event>>

(* The release of raw_waker_wake, or raw_waker_drop.                       *)
RawDrop(s) ==
  /\ holder[s] \in {"waking", "spent"}
  /\ DropShell(s)
  /\ UNCHANGED <<task, notified, event>>

-----------------------------------------------------------------------------
Poll == \/ ToWaker \/ PollCompleted \/ PollRegisters \/ PollReregisters
        \/ PollYields \/ PollReady \/ PollPanics \/ LeavePoll \/ Settle

Thread(s) == RawWake(s) \/ RawWakeByRef(s) \/ RawDrop(s)

Next == \/ \E w \in HostWakers : BeginPoll(w)
        \/ Poll
        \/ ReleaseFuture
        \/ Produce \/ CloneSlot
        \/ \E s \in Shells : Thread(s)

SafeSpec == Init /\ [][Next]_vars

(* What an executor promises: a task that has been woken is polled.        *)
Resume == poller = "idle" /\ cur \in notified /\ \E w \in HostWakers : BeginPoll(w)

(* Code that has started runs on; a thread that has taken a waker uses it. *)
(* Nothing makes the thread produce its result.                            *)
Fairness == /\ WF_vars(Resume)
            /\ WF_vars(Poll)
            /\ \A s \in Shells : WF_vars(Thread(s))

Spec == SafeSpec /\ Fairness

-----------------------------------------------------------------------------
Live(s) == holder[s] # "none"

(* Every waker the module has owns a Box of the host that is allocated,    *)
(* and no other waker owns it: no callback is run on freed or on foreign   *)
(* waker state, and no Box is freed twice, whoever drops first.            *)
WakerOwnsItsBox ==
  \A s \in Shells :
    Live(s) => /\ inst[s] \in Boxes
               /\ heap[inst[s]] # NoWaker
               /\ \A t \in Shells : Live(t) /\ inst[t] = inst[s] => t = s

(* The host's Boxes are not leaked either: each belongs to a waker.        *)
NoBoxLeaked ==
  \A b \in Boxes : heap[b] # NoWaker => \E s \in Shells : Live(s) /\ inst[s] = b

(* No wake-up is lost: once the result is there and the last poll has said *)
(* pending, the waker of that poll has been woken, or the thread holds a   *)
(* clone of it that it has yet to wake; a waker of an earlier poll will    *)
(* not do.                                                                 *)
NoLostWakeup ==
  event /\ poller = "idle" =>
    \/ cur \in notified
    \/ \E s \in Held("thread") : Target(inst[s]) = cur

(* A future that said pending can still be polled, and its slot is empty:  *)
(* the host never drops a payload, and never awaits a finished future.     *)
PendingIsPollable ==
  poller = "idle" => future = "some" /\ out = "empty" /\ outcome = "none"

(* A result is delivered as the first outcome or not at all: polling a     *)
(* completed future again, or one that panicked, yields an error.          *)
NoSecondResult ==
  [][outcome' # outcome /\ outcome' \in {"value", "exportError"}
       => outcome = "none" /\ event]_vars

(* Once the result is there, the task is polled to completion, unless the  *)
(* caller drops the future.                                                *)
ResultDelivered == event ~> poller \in {"complete", "released"}

(* Once the future is gone and the thread has produced, every Box<Waker>   *)
(* the host gave out comes back to it.                                     *)
WakersComeBack ==
  event /\ poller = "released" ~> \A b \in Boxes : heap[b] = NoWaker

(* The parts of the inductive invariant.  A poll under way has one waker   *)
(* of its own, a clone of the one the task is polled with; nobody else     *)
(* has, and at most one waker is registered.                               *)
PollLocal ==
  /\ poller \in {"running", "leaving"} <=> Held("poll") # {}
  /\ \A p \in Held("poll") : heap[inst[p]] = cur
  /\ \A p, q \in Held("poll") : p = q
  /\ \A s, t \in Held("slot") : s = t
  /\ event => Held("slot") = {}

(* A poll that is over, or about to be, has seen to its next wake-up.      *)
Awaited == \/ cur \in notified
           \/ \E s \in Held("slot") \cup Held("thread") : heap[inst[s]] = cur

WakeupSeenTo ==
  poller = "idle" \/ code = "POLL_PENDING" => Awaited

(* The state of the future against what the poll returns.                  *)
PollFlow ==
  /\ code # "none" <=> poller \in {"leaving", "returned"}
  /\ poller \in {"leaving", "returned"} => (code = "POLL_PENDING" <=> future = "some")
  /\ poller = "idle" => future = "some"
  /\ future = "some" => outcome = "none"
  /\ out # "empty" <=> code = "POLL_READY"
  /\ code = "POLL_READY" => outcome = "none" /\ event

(* What every step preserves: it implies the invariants above.             *)
Inv == /\ TypeOK
       /\ WakerOwnsItsBox /\ NoBoxLeaked
       /\ PollLocal /\ WakeupSeenTo /\ PollFlow

(* The comment of XabiWaker::wake (future.rs:28), "Wake and consume an     *)
(* owned waker state": when wake has returned, the state is gone.          *)
WakeConsumes ==
  \A s \in Shells : holder[s] = "waking" => heap[inst[s]] = NoWaker

-----------------------------------------------------------------------------
(* FuturePoll implements AwaitedFuture, with one future.                   *)
Stage == CASE poller = "released" -> "gone"
           [] poller \in {"leaving", "returned"} /\ code # "POLL_PENDING" -> "answered"
           [] future = "some" -> "running"
           [] OTHER -> "settled"

This == {"this"}

Awaiting == INSTANCE AwaitedFuture WITH
  Future <- This,
  stage <- [f \in This |-> Stage],
  payload <- [f \in This |-> out],
  answer <- [f \in This |-> outcome]

(* However polls, wake-ups, panics and cancellation interleave, the caller *)
(* takes over a payload exactly when it is told the result, a completed    *)
(* future never writes another one, and no future is released with its     *)
(* payload still to be read (future.rs:538-604).                           *)
AnswersOnce == Awaiting!Spec
=============================================================================
