------------------------- MODULE FuturePoll_proofs -------------------------
(***************************************************************************)
(* What TLC checks of FuturePoll with two task wakers and four addresses   *)
(* holds for any sets of wakers and addresses.                             *)
(***************************************************************************)
EXTENDS FuturePoll, TLAPS

USE DistinctAddresses

Owned == WakerOwnsItsBox /\ NoBoxLeaked

(* The effect of the two callbacks that move ownership.                    *)
LEMMA CloneEffect ==
  ASSUME TypeOK, Owned, NEW i, Target(i) \in HostWakers,
         NEW t \in Shells, NEW b \in Boxes,
         NEW h \in Holders \ {"none"}, Clone(i, t, b, h)
  PROVE  /\ heap' \in [Boxes -> HostWakers \cup {NoWaker}]
         /\ holder' \in [Shells -> Holders]
         /\ inst' \in [Shells -> Boxes \cup {Stack, Null}]
         /\ Owned'
         /\ holder[t] = "none"
         /\ holder'[t] = h /\ inst'[t] = b /\ heap'[b] = Target(i)
         /\ \A s \in Shells \ {t} : holder'[s] = holder[s] /\ inst'[s] = inst[s]
         /\ \A s \in Shells \ {t} : Live(s) => heap'[inst[s]] = heap[inst[s]]
  <1>1. /\ heap' \in [Boxes -> HostWakers \cup {NoWaker}]
        /\ holder' \in [Shells -> Holders]
        /\ inst' \in [Shells -> Boxes \cup {Stack, Null}]
        /\ holder[t] = "none" /\ heap[b] = NoWaker
        /\ holder'[t] = h /\ inst'[t] = b /\ heap'[b] = Target(i)
        /\ \A s \in Shells \ {t} : holder'[s] = holder[s] /\ inst'[s] = inst[s]
        /\ \A x \in Boxes \ {b} : heap'[x] = heap[x]
    BY DEF Clone, TypeOK
  <1>2. \A s \in Shells \ {t} : Live(s) => inst[s] \in Boxes \ {b}
    BY <1>1 DEF Owned, WakerOwnsItsBox
  <1>3. WakerOwnsItsBox'
    BY <1>1, <1>2 DEF Owned, WakerOwnsItsBox, Live, Holders
  <1>4. NoBoxLeaked'
    <2> SUFFICES ASSUME NEW x \in Boxes, heap'[x] # NoWaker
                 PROVE  \E s \in Shells : Live(s)' /\ inst'[s] = x
      BY DEF NoBoxLeaked
    <2>1. CASE x = b
      BY <1>1, <2>1 DEF Live
    <2>2. CASE x # b
      BY <1>1, <2>2 DEF Owned, NoBoxLeaked, Live
    <2>3. QED
      BY <2>1, <2>2
  <1>5. QED
    BY <1>1, <1>2, <1>3, <1>4 DEF Owned

LEMMA DropEffect ==
  ASSUME TypeOK, Owned, NEW p \in Shells, Live(p), DropShell(p)
  PROVE  /\ heap' \in [Boxes -> HostWakers \cup {NoWaker}]
         /\ holder' \in [Shells -> Holders]
         /\ inst' \in [Shells -> Boxes \cup {Stack, Null}]
         /\ Owned'
         /\ holder'[p] = "none"
         /\ \A s \in Shells \ {p} : holder'[s] = holder[s] /\ inst'[s] = inst[s]
         /\ \A s \in Shells \ {p} : Live(s) => heap'[inst[s]] = heap[inst[s]]
  <1>1. inst[p] \in Boxes
    BY DEF Owned, WakerOwnsItsBox
  <1>2. /\ heap' \in [Boxes -> HostWakers \cup {NoWaker}]
        /\ holder' \in [Shells -> Holders]
        /\ inst' \in [Shells -> Boxes \cup {Stack, Null}]
        /\ holder'[p] = "none" /\ heap'[inst[p]] = NoWaker
        /\ \A s \in Shells \ {p} : holder'[s] = holder[s] /\ inst'[s] = inst[s]
        /\ \A x \in Boxes \ {inst[p]} : heap'[x] = heap[x]
    BY <1>1 DEF DropShell, TypeOK, Holders
  <1>3. \A s \in Shells \ {p} : Live(s) => inst[s] \in Boxes \ {inst[p]}
    BY DEF Owned, WakerOwnsItsBox
  <1>4. WakerOwnsItsBox'
    BY <1>2, <1>3 DEF Owned, WakerOwnsItsBox, Live
  <1>5. NoBoxLeaked'
    BY <1>2 DEF Owned, NoBoxLeaked, Live
  <1>6. QED
    BY <1>2, <1>3, <1>4, <1>5 DEF Owned

-----------------------------------------------------------------------------
LEMMA InvInit == Init => Inv
  BY DEF Init, Inv, TypeOK, Holders, WakerOwnsItsBox, NoBoxLeaked, Live,
         PollLocal, Held, WakeupSeenTo, Awaited, PollFlow

(* The steps of a poll that leave every waker alone.                       *)
LEMMA InvPollQuiet ==
  ASSUME Inv,
         \/ \E w \in HostWakers : BeginPoll(w)
         \/ PollCompleted \/ PollReady \/ PollPanics \/ Settle
  PROVE  Inv'
  <1>1. UNCHANGED wakers
    BY DEF BeginPoll, PollCompleted, PollReady, PollPanics, Settle
  <1>2. TypeOK'
    BY <1>1 DEF Inv, TypeOK, wakers, BeginPoll, PollCompleted, PollReady,
                PollPanics, Settle, Return
  <1>3. WakerOwnsItsBox' /\ NoBoxLeaked'
    BY <1>1 DEF Inv, wakers, WakerOwnsItsBox, NoBoxLeaked, Live
  <1>4. Held("poll")' = Held("poll") /\ Held("slot")' = Held("slot")
        /\ Held("thread")' = Held("thread")
    BY <1>1 DEF wakers, Held
  <1>5. PollLocal'
    <2>1. CASE \E w \in HostWakers : BeginPoll(w)
      BY <1>1, <1>4, <2>1 DEF Inv, PollLocal, BeginPoll, wakers
    <2>2. CASE PollCompleted \/ PollReady \/ PollPanics \/ Settle
      BY <1>1, <1>4, <2>2 DEF Inv, PollLocal, PollCompleted, PollReady,
                              PollPanics, Settle, Return, wakers
    <2>3. QED
      BY <2>1, <2>2
  <1>6. WakeupSeenTo'
    <2>1. CASE Settle
      BY <1>1, <1>4, <2>1 DEF Inv, WakeupSeenTo, Awaited, Settle, wakers
    <2>2. CASE \E w \in HostWakers : BeginPoll(w)
      BY <2>2 DEF Inv, WakeupSeenTo, PollFlow, BeginPoll
    <2>3. CASE PollCompleted \/ PollReady \/ PollPanics
      BY <2>3 DEF WakeupSeenTo, PollCompleted, PollReady, PollPanics, Return
    <2>4. QED
      BY <2>1, <2>2, <2>3
  <1>7. PollFlow'
    BY DEF Inv, TypeOK, PollFlow, BeginPoll, PollCompleted, PollReady, PollPanics,
           Settle, Return
  <1>8. QED
    BY <1>2, <1>3, <1>5, <1>6, <1>7 DEF Inv

(* The steps of a poll that make, wake or drop a waker.                    *)
LEMMA InvToWaker ==
  ASSUME Inv, ToWaker
  PROVE  Inv'
  <1>1. PICK s \in Shells, b \in Boxes : Clone(Stack, s, b, "poll")
    BY DEF ToWaker
  <1>2. Target(Stack) = cur /\ cur \in HostWakers
    BY DEF Inv, TypeOK, Target
  <1>3. /\ heap' \in [Boxes -> HostWakers \cup {NoWaker}]
        /\ holder' \in [Shells -> Holders]
        /\ inst' \in [Shells -> Boxes \cup {Stack, Null}]
        /\ Owned'
        /\ holder'[s] = "poll" /\ inst'[s] = b /\ heap'[b] = cur
        /\ \A x \in Shells \ {s} : holder'[x] = holder[x] /\ inst'[x] = inst[x]
        /\ holder[s] = "none"
    BY <1>1, <1>2, CloneEffect DEF Inv, Owned, Holders
  <1>4. TypeOK'
    BY <1>3 DEF Inv, TypeOK, ToWaker
  <1>5. Held("poll") = {} /\ poller' = "running" /\ UNCHANGED <<cur, event>>
    BY DEF Inv, PollLocal, ToWaker
  <1>6. PollLocal'
    BY <1>3, <1>5 DEF Inv, PollLocal, Held
  <1>7. WakeupSeenTo' /\ PollFlow'
    BY DEF Inv, WakeupSeenTo, PollFlow, ToWaker
  <1>8. QED
    BY <1>3, <1>4, <1>6, <1>7 DEF Inv, Owned

LEMMA InvRegisters ==
  ASSUME Inv, PollRegisters
  PROVE  Inv'
  <1>1. PICK p \in Held("poll"), t \in Shells, b \in Boxes :
          Clone(inst[p], t, b, "slot")
    BY DEF PollRegisters
  <1>2. p \in Shells /\ Live(p) /\ inst[p] \in Boxes
        /\ Target(inst[p]) = cur /\ cur \in HostWakers
    BY DEF Inv, TypeOK, Target, Held, Live, WakerOwnsItsBox, PollLocal
  <1>3. /\ heap' \in [Boxes -> HostWakers \cup {NoWaker}]
        /\ holder' \in [Shells -> Holders]
        /\ inst' \in [Shells -> Boxes \cup {Stack, Null}]
        /\ Owned'
        /\ holder'[t] = "slot" /\ inst'[t] = b /\ heap'[b] = cur
        /\ \A x \in Shells \ {t} : holder'[x] = holder[x] /\ inst'[x] = inst[x]
        /\ \A x \in Shells \ {t} : Live(x) => heap'[inst[x]] = heap[inst[x]]
        /\ holder[t] = "none"
    BY <1>1, <1>2, CloneEffect DEF Inv, Owned, Holders
  <1>4. /\ poller = "running" /\ poller' = "leaving" /\ code' = "POLL_PENDING"
        /\ future = "some" /\ ~event /\ Held("slot") = {}
        /\ UNCHANGED <<cur, notified, future, out, outcome, event>>
    BY DEF PollRegisters, Return
  <1>5. TypeOK'
    BY <1>3, <1>4 DEF Inv, TypeOK
  <1>6. Held("poll")' = Held("poll") /\ Held("slot")' = {t}
    BY <1>3, <1>4 DEF Held
  <1>7. PollLocal'
    BY <1>3, <1>4, <1>6 DEF Inv, PollLocal, Held, Live
  <1>8. Awaited'
    BY <1>3, <1>4, <1>6 DEF Awaited
  <1>9. PollFlow'
    BY <1>4 DEF Inv, PollFlow
  <1>10. QED
    BY <1>3, <1>5, <1>7, <1>8, <1>9 DEF Inv, Owned, WakeupSeenTo

LEMMA InvReregisters ==
  ASSUME Inv, PollReregisters
  PROVE  Inv'
  <1>1. PICK p \in Held("poll"), old \in Held("slot"), t \in Shells, b \in Boxes :
          /\ holder[t] = "none" /\ heap[b] = NoWaker
          /\ heap' = [x \in Boxes |-> CASE x = b -> Target(inst[p])
                                        [] x = inst[old] -> NoWaker
                                        [] OTHER -> heap[x]]
          /\ holder' = [holder EXCEPT ![t] = "slot", ![old] = "none"]
          /\ inst' = [inst EXCEPT ![t] = b, ![old] = Null]
    BY DEF PollReregisters
  <1>2. /\ p \in Shells /\ holder[p] = "poll" /\ inst[p] \in Boxes
        /\ old \in Shells /\ holder[old] = "slot" /\ inst[old] \in Boxes
        /\ inst[p] # b /\ inst[old] # b /\ inst[p] # inst[old] /\ old # t /\ p # t
        /\ Target(inst[p]) = cur /\ cur \in HostWakers
    BY <1>1 DEF Inv, TypeOK, Target, Held, Live, WakerOwnsItsBox, PollLocal
  <1>3. /\ heap' \in [Boxes -> HostWakers \cup {NoWaker}]
        /\ holder' \in [Shells -> Holders]
        /\ inst' \in [Shells -> Boxes \cup {Stack, Null}]
        /\ holder'[t] = "slot" /\ inst'[t] = b /\ heap'[b] = cur
        /\ holder'[old] = "none" /\ heap'[inst[old]] = NoWaker
        /\ \A x \in Shells \ {t, old} : holder'[x] = holder[x] /\ inst'[x] = inst[x]
        /\ \A x \in Boxes \ {b, inst[old]} : heap'[x] = heap[x]
    BY <1>1, <1>2 DEF Inv, TypeOK, Holders
  <1>4. \A x \in Shells \ {t, old} : Live(x) => inst[x] \in Boxes \ {b, inst[old]}
    BY <1>1, <1>2 DEF Inv, WakerOwnsItsBox, Live
  <1>5. WakerOwnsItsBox'
    BY <1>1, <1>2, <1>3, <1>4 DEF Inv, TypeOK, WakerOwnsItsBox, Live
  <1>6. NoBoxLeaked'
    <2> SUFFICES ASSUME NEW x \in Boxes, heap'[x] # NoWaker
                 PROVE  \E s \in Shells : Live(s)' /\ inst'[s] = x
      BY DEF NoBoxLeaked
    <2>1. CASE x = b
      BY <1>3, <2>1 DEF Live
    <2>2. CASE x # b
      <3>1. x # inst[old] /\ heap[x] # NoWaker
        BY <1>3, <2>2
      <3>2. PICK s \in Shells : Live(s) /\ inst[s] = x
        BY <3>1 DEF Inv, NoBoxLeaked
      <3>3. s # t /\ s # old
        BY <1>1, <3>1, <3>2 DEF Live
      <3>4. QED
        BY <1>3, <3>2, <3>3 DEF Live
    <2>3. QED
      BY <2>1, <2>2
  <1>7. /\ poller = "running" /\ poller' = "leaving" /\ code' = "POLL_PENDING"
        /\ future = "some" /\ ~event
        /\ UNCHANGED <<cur, notified, future, out, outcome, event>>
    BY DEF PollReregisters, Return
  <1>8. TypeOK'
    BY <1>3, <1>7 DEF Inv, TypeOK
  <1>9. \A x \in Shells : holder[x] = "slot" => x = old
    BY <1>2 DEF Inv, PollLocal, Held
  <1>10. Held("poll")' = Held("poll") /\ Held("slot")' = {t}
    BY <1>1, <1>2, <1>3, <1>9 DEF Held
  <1>11. PollLocal'
    BY <1>2, <1>3, <1>4, <1>7, <1>10 DEF Inv, PollLocal, Held, Live
  <1>12. Awaited'
    BY <1>3, <1>7, <1>10 DEF Awaited
  <1>13. PollFlow'
    BY <1>7 DEF Inv, PollFlow
  <1>14. QED
    BY <1>5, <1>6, <1>8, <1>11, <1>12, <1>13 DEF Inv, WakeupSeenTo

LEMMA InvYields ==
  ASSUME Inv, PollYields
  PROVE  Inv'
  <1>1. PICK p \in Held("poll") : Wake(inst[p])
    BY DEF PollYields
  <1>2. inst[p] \in Boxes /\ Target(inst[p]) = cur /\ cur \in HostWakers
    BY DEF Inv, TypeOK, Target, Held, Live, WakerOwnsItsBox, PollLocal
  <1>3. notified' = notified \cup {cur}
    BY <1>1, <1>2 DEF Wake
  <1>4. /\ poller = "running" /\ poller' = "leaving" /\ code' = "POLL_PENDING"
        /\ future = "some"
        /\ UNCHANGED <<cur, future, out, outcome, wakers, event>>
    BY DEF PollYields, Return
  <1>5. TypeOK'
    BY <1>2, <1>3, <1>4 DEF Inv, TypeOK, wakers
  <1>6. WakerOwnsItsBox' /\ NoBoxLeaked' /\ PollLocal'
    BY <1>4 DEF Inv, wakers, WakerOwnsItsBox, NoBoxLeaked, Live, PollLocal, Held
  <1>7. WakeupSeenTo' /\ PollFlow'
    BY <1>3, <1>4 DEF Inv, WakeupSeenTo, Awaited, PollFlow
  <1>8. QED
    BY <1>5, <1>6, <1>7 DEF Inv

LEMMA InvLeavePoll ==
  ASSUME Inv, LeavePoll
  PROVE  Inv'
  <1>1. PICK p \in Held("poll") : DropShell(p)
    BY DEF LeavePoll
  <1>2. p \in Shells /\ Live(p) /\ holder[p] = "poll"
    BY DEF Held, Live
  <1>3. /\ heap' \in [Boxes -> HostWakers \cup {NoWaker}]
        /\ holder' \in [Shells -> Holders]
        /\ inst' \in [Shells -> Boxes \cup {Stack, Null}]
        /\ Owned'
        /\ holder'[p] = "none"
        /\ \A x \in Shells \ {p} : holder'[x] = holder[x] /\ inst'[x] = inst[x]
        /\ \A x \in Shells \ {p} : Live(x) => heap'[inst[x]] = heap[inst[x]]
    BY <1>1, <1>2, DropEffect DEF Inv, Owned
  <1>4. /\ poller = "leaving" /\ poller' = "returned"
        /\ UNCHANGED <<cur, notified, future, code, out, outcome, event>>
    BY DEF LeavePoll
  <1>5. TypeOK'
    BY <1>3, <1>4 DEF Inv, TypeOK
  <1>6. \A q \in Held("poll") : q = p
    BY DEF Inv, PollLocal
  <1>7. Held("poll")' = {} /\ Held("slot")' = Held("slot")
        /\ Held("thread")' = Held("thread")
    BY <1>2, <1>3, <1>6 DEF Held
  <1>8. PollLocal'
    BY <1>4, <1>7 DEF Inv, PollLocal
  <1>9. \A s \in Held("slot") \cup Held("thread") : heap'[inst'[s]] = heap[inst[s]]
    BY <1>2, <1>3 DEF Held, Live
  <1>10. WakeupSeenTo' /\ PollFlow'
    BY <1>4, <1>7, <1>9 DEF Inv, WakeupSeenTo, Awaited, PollFlow
  <1>11. QED
    BY <1>3, <1>5, <1>8, <1>10 DEF Inv, Owned

-----------------------------------------------------------------------------
(* The caller gives the future up; the thread goes on.                     *)
LEMMA InvReleaseFuture ==
  ASSUME Inv, ReleaseFuture
  PROVE  Inv'
  <1>1. /\ poller \in {"idle", "complete"} /\ poller' = "released"
        /\ future' = "freed"
        /\ UNCHANGED <<cur, notified, code, out, outcome, event>>
    BY DEF ReleaseFuture
  <1>2. code = "none" /\ Held("poll") = {}
    BY <1>1 DEF Inv, PollFlow, PollLocal
  <1>3. WakeupSeenTo' /\ PollFlow'
    BY <1>1, <1>2 DEF Inv, WakeupSeenTo, PollFlow
  <1>4. CASE UNCHANGED wakers
    <2>1. TypeOK'
      BY <1>1, <1>4 DEF Inv, TypeOK, wakers
    <2>2. WakerOwnsItsBox' /\ NoBoxLeaked' /\ PollLocal'
      BY <1>1, <1>2, <1>4 DEF Inv, wakers, WakerOwnsItsBox, NoBoxLeaked, Live,
                              PollLocal, Held
    <2>3. QED
      BY <1>3, <2>1, <2>2 DEF Inv
  <1>5. CASE \E s \in Held("slot") : DropShell(s)
    <2>1. PICK p \in Held("slot") : DropShell(p)
      BY <1>5
    <2>2. p \in Shells /\ Live(p)
      BY DEF Held, Live
    <2>3. /\ heap' \in [Boxes -> HostWakers \cup {NoWaker}]
          /\ holder' \in [Shells -> Holders]
          /\ inst' \in [Shells -> Boxes \cup {Stack, Null}]
          /\ Owned'
          /\ holder'[p] = "none"
          /\ \A x \in Shells \ {p} : holder'[x] = holder[x]
      BY <2>1, <2>2, DropEffect DEF Inv, Owned
    <2>4. TypeOK'
      BY <1>1, <2>3 DEF Inv, TypeOK
    <2>5. Held("poll")' = {} /\ Held("slot")' \subseteq Held("slot")
      BY <1>2, <2>3 DEF Held
    <2>6. PollLocal'
      BY <1>1, <2>5 DEF Inv, PollLocal
    <2>7. QED
      BY <1>3, <2>3, <2>4, <2>6 DEF Inv, Owned
  <1>6. QED
    BY <1>4, <1>5 DEF ReleaseFuture

LEMMA InvProduce ==
  ASSUME Inv, Produce
  PROVE  Inv'
  <1>1. /\ event' = TRUE /\ UNCHANGED <<task, notified, heap, inst>>
        /\ holder' \in [Shells -> Holders]
        /\ \A s \in Shells : holder'[s] = IF holder[s] = "slot" THEN "thread"
                                                                ELSE holder[s]
    BY DEF Produce, Inv, TypeOK, Holders
  <1>2. TypeOK'
    BY <1>1 DEF Inv, TypeOK, task
  <1>3. WakerOwnsItsBox' /\ NoBoxLeaked'
    BY <1>1 DEF Inv, WakerOwnsItsBox, NoBoxLeaked, Live
  <1>4. /\ Held("poll")' = Held("poll") /\ Held("slot")' = {}
        /\ Held("thread")' = Held("slot") \cup Held("thread")
    BY <1>1 DEF Held
  <1>5. PollLocal'
    BY <1>1, <1>4 DEF Inv, PollLocal, task
  <1>6. WakeupSeenTo' /\ PollFlow'
    BY <1>1, <1>4 DEF Inv, WakeupSeenTo, Awaited, PollFlow, task
  <1>7. QED
    BY <1>2, <1>3, <1>5, <1>6 DEF Inv

LEMMA InvCloneSlot ==
  ASSUME Inv, CloneSlot
  PROVE  Inv'
  <1>1. PICK s \in Held("slot"), t \in Shells, b \in Boxes :
          Clone(inst[s], t, b, "thread")
    BY DEF CloneSlot
  <1>2. s \in Shells /\ Live(s) /\ Target(inst[s]) \in HostWakers
    BY DEF Inv, TypeOK, Target, Held, Live, WakerOwnsItsBox
  <1>3. /\ heap' \in [Boxes -> HostWakers \cup {NoWaker}]
        /\ holder' \in [Shells -> Holders]
        /\ inst' \in [Shells -> Boxes \cup {Stack, Null}]
        /\ Owned'
        /\ holder'[t] = "thread"
        /\ \A x \in Shells \ {t} : holder'[x] = holder[x] /\ inst'[x] = inst[x]
        /\ \A x \in Shells \ {t} : Live(x) => heap'[inst[x]] = heap[inst[x]]
        /\ holder[t] = "none"
    BY <1>1, <1>2, CloneEffect DEF Inv, Owned, Holders
  <1>4. UNCHANGED <<task, notified, event>>
    BY DEF CloneSlot
  <1>5. TypeOK'
    BY <1>3, <1>4 DEF Inv, TypeOK, task
  <1>6. /\ Held("poll")' = Held("poll") /\ Held("slot")' = Held("slot")
        /\ Held("thread") \subseteq Held("thread")'
    BY <1>3 DEF Held
  <1>7. \A x \in Held("poll") \cup Held("slot") \cup Held("thread") :
          heap'[inst'[x]] = heap[inst[x]]
    BY <1>3 DEF Held, Live
  <1>8. PollLocal'
    BY <1>4, <1>6, <1>7 DEF Inv, PollLocal, task
  <1>9. WakeupSeenTo' /\ PollFlow'
    BY <1>4, <1>6, <1>7 DEF Inv, WakeupSeenTo, Awaited, PollFlow, task
  <1>10. QED
    BY <1>3, <1>5, <1>8, <1>9 DEF Inv, Owned

(* A wake-up on its way is replaced by one that has been delivered.        *)
LEMMA InvThread ==
  ASSUME Inv, NEW s \in Shells, Thread(s)
  PROVE  Inv'
  <1>1. CASE RawWake(s) \/ RawWakeByRef(s)
    <2>1. /\ holder[s] = "thread"
          /\ holder' \in [Shells -> Holders]
          /\ holder'[s] \in {"waking", "spent"}
          /\ \A x \in Shells \ {s} : holder'[x] = holder[x]
          /\ notified' = notified \cup {Target(inst[s])}
          /\ UNCHANGED <<task, heap, inst, event>>
      BY <1>1 DEF RawWake, RawWakeByRef, Wake, Inv, TypeOK, Holders
    <2>2. Live(s) /\ inst[s] \in Boxes /\ Target(inst[s]) = heap[inst[s]]
          /\ heap[inst[s]] \in HostWakers
      BY <2>1 DEF Inv, TypeOK, WakerOwnsItsBox, Live, Target
    <2>3. TypeOK'
      BY <2>1, <2>2 DEF Inv, TypeOK, task
    <2>4. WakerOwnsItsBox' /\ NoBoxLeaked'
      BY <2>1, <2>2 DEF Inv, WakerOwnsItsBox, NoBoxLeaked, Live
    <2>5. /\ Held("poll")' = Held("poll") /\ Held("slot")' = Held("slot")
          /\ Held("thread")' = Held("thread") \ {s}
      BY <2>1 DEF Held
    <2>6. PollLocal'
      BY <2>1, <2>5 DEF Inv, PollLocal, task
    <2>7. WakeupSeenTo' /\ PollFlow'
      BY <2>1, <2>2, <2>5 DEF Inv, WakeupSeenTo, Awaited, PollFlow, task
    <2>8. QED
      BY <2>3, <2>4, <2>6, <2>7 DEF Inv
  <1>2. CASE RawDrop(s)
    <2>1. Live(s) /\ holder[s] \in {"waking", "spent"} /\ DropShell(s)
          /\ UNCHANGED <<task, notified, event>>
      BY <1>2 DEF RawDrop, Live
    <2>2. /\ heap' \in [Boxes -> HostWakers \cup {NoWaker}]
          /\ holder' \in [Shells -> Holders]
          /\ inst' \in [Shells -> Boxes \cup {Stack, Null}]
          /\ Owned'
          /\ holder'[s] = "none"
          /\ \A x \in Shells \ {s} : holder'[x] = holder[x] /\ inst'[x] = inst[x]
          /\ \A x \in Shells \ {s} : Live(x) => heap'[inst[x]] = heap[inst[x]]
      BY <2>1, DropEffect DEF Inv, Owned
    <2>3. TypeOK'
      BY <2>1, <2>2 DEF Inv, TypeOK, task
    <2>4. /\ Held("poll")' = Held("poll") /\ Held("slot")' = Held("slot")
          /\ Held("thread")' = Held("thread")
      BY <2>1, <2>2 DEF Held
    <2>5. \A x \in Held("poll") \cup Held("slot") \cup Held("thread") :
            heap'[inst'[x]] = heap[inst[x]]
      BY <2>1, <2>2 DEF Held, Live
    <2>6. PollLocal'
      BY <2>1, <2>4, <2>5 DEF Inv, PollLocal, task
    <2>7. WakeupSeenTo' /\ PollFlow'
      BY <2>1, <2>4, <2>5 DEF Inv, WakeupSeenTo, Awaited, PollFlow, task
    <2>8. QED
      BY <2>2, <2>3, <2>6, <2>7 DEF Inv, Owned
  <1>3. QED
    BY <1>1, <1>2 DEF Thread

-----------------------------------------------------------------------------
LEMMA InvNext == Inv /\ [Next]_vars => Inv'
  <1> SUFFICES ASSUME Inv, [Next]_vars
               PROVE  Inv'
    OBVIOUS
  <1>1. CASE UNCHANGED vars
    BY <1>1 DEF vars, task, wakers, Inv, TypeOK, WakerOwnsItsBox, NoBoxLeaked, Live,
                PollLocal, Held, WakeupSeenTo, Awaited, PollFlow
  <1>2. CASE (\E w \in HostWakers : BeginPoll(w)) \/ Poll
    BY <1>2, InvPollQuiet, InvToWaker, InvRegisters, InvReregisters, InvYields,
       InvLeavePoll DEF Poll
  <1>3. CASE ReleaseFuture \/ Produce \/ CloneSlot
    BY <1>3, InvReleaseFuture, InvProduce, InvCloneSlot
  <1>4. CASE \E s \in Shells : Thread(s)
    BY <1>4, InvThread
  <1>5. QED
    BY <1>1, <1>2, <1>3, <1>4 DEF Next

THEOREM InvHolds == SafeSpec => []Inv
  BY InvInit, InvNext, PTL DEF SafeSpec

(* The variables of FuturePoll keep their types.                           *)
THEOREM TypeCorrect == SafeSpec => []TypeOK
  <1>1. Inv => TypeOK
    BY DEF Inv
  <1>2. QED
    BY InvHolds, <1>1, PTL

(* raw_waker_* and the host's callbacks never touch freed waker state and  *)
(* never free it twice, in any interleaving of polls, cancellation and     *)
(* threads.                                                                *)
THEOREM WakersAreExclusive == SafeSpec => []WakerOwnsItsBox
  <1>1. Inv => WakerOwnsItsBox
    BY DEF Inv
  <1>2. QED
    BY InvHolds, <1>1, PTL

(* They never lose track of a Box either.                                  *)
THEOREM WakersAreFreed == SafeSpec => []NoBoxLeaked
  <1>1. Inv => NoBoxLeaked
    BY DEF Inv
  <1>2. QED
    BY InvHolds, <1>1, PTL

(* The wake-up for a result that is there is delivered or on its way.      *)
THEOREM WakeupsAreNotLost == SafeSpec => []NoLostWakeup
  <1>1. Inv => NoLostWakeup
    <2> SUFFICES ASSUME Inv, event, poller = "idle", cur \notin notified
                 PROVE  \E s \in Held("thread") : Target(inst[s]) = cur
      BY DEF NoLostWakeup
    <2>1. Held("slot") = {}
      BY DEF Inv, PollLocal
    <2>2. PICK s \in Held("thread") : heap[inst[s]] = cur
      BY <2>1 DEF Inv, WakeupSeenTo, Awaited
    <2>3. inst[s] \in Boxes
      BY DEF Held, Inv, WakerOwnsItsBox, Live
    <2>4. QED
      BY <2>2, <2>3 DEF Target
  <1>2. QED
    BY InvHolds, <1>1, PTL

(* What XabiTypedFuture::poll reports as pending is a future that can be   *)
(* polled, with no payload left behind.                                    *)
THEOREM PendingFuturesArePollable == SafeSpec => []PendingIsPollable
  <1>1. Inv => PendingIsPollable
    BY DEF Inv, PollFlow, PendingIsPollable
  <1>2. QED
    BY InvHolds, <1>1, PTL

(* A completed future delivers its result once.                            *)
THEOREM ResultsAreSingle == SafeSpec => NoSecondResult
  <1> DEFINE Single == outcome' # outcome /\ outcome' \in {"value", "exportError"}
                         => outcome = "none" /\ event
  <1>1. Inv /\ [Next]_vars => [Single]_vars
    <2> SUFFICES ASSUME Inv, Next, outcome' # outcome,
                        outcome' \in {"value", "exportError"}
                 PROVE  outcome = "none" /\ event
      OBVIOUS
    <2>1. Settle
      BY DEF Next, BeginPoll, Poll, ToWaker, PollCompleted, PollRegisters,
             PollReregisters, PollYields, PollReady, PollPanics, LeavePoll,
             ReleaseFuture, Produce, CloneSlot, Thread, RawWake, RawWakeByRef,
             RawDrop, task
    <2>2. code = "POLL_READY"
      BY <2>1 DEF Settle
    <2>3. QED
      BY <2>2 DEF Inv, PollFlow
  <1>2. QED
    BY InvHolds, <1>1, PTL DEF SafeSpec, NoSecondResult

-----------------------------------------------------------------------------
(* The refinement of AwaitedFuture: polls that are pending, wake-ups and   *)
(* the module's threads are invisible to the awaiter.                      *)
StageMap == [f \in This |-> Stage]

LEMMA MoveStage ==
  ASSUME NEW f \in This, NEW before, NEW after, Stage = before, Stage' = after
  PROVE  Awaiting!Moves(f, before, after)
  <1>1. StageMap' = [StageMap EXCEPT ![f] = after]
    BY DEF StageMap, This
  <1>2. QED
    BY <1>1 DEF StageMap, Awaiting!Moves

LEMMA AwaitingNext ==
  ASSUME Inv, Inv', [Next]_vars
  PROVE  [Awaiting!Next]_(Awaiting!vars)
  <1> DEFINE f == "this"
  <1>f. f \in This /\ \A x \in This : x = f
    BY DEF This
  <1> HIDE DEF f
  <1>s. ASSUME Stage' = Stage, out' = out, outcome' = outcome
        PROVE  UNCHANGED Awaiting!vars
    BY <1>s DEF Awaiting!vars
  <1>1. CASE UNCHANGED vars
    BY <1>1, <1>s DEF vars, task, Stage
  <1>2. CASE \E w \in HostWakers : BeginPoll(w)
    BY <1>2, <1>s DEF BeginPoll, Stage
  <1>3. CASE ToWaker \/ LeavePoll
    BY <1>3, <1>s DEF ToWaker, LeavePoll, Stage, Inv, PollFlow
  <1>4. CASE PollRegisters \/ PollReregisters \/ PollYields
    BY <1>4, <1>s DEF PollRegisters, PollReregisters, PollYields, Return, Stage
  <1>5. CASE PollCompleted \/ (PollPanics /\ future = "poisoned")
    <2>1. Stage = "settled" /\ Stage' = "answered" /\ UNCHANGED <<out, outcome>>
      BY <1>5 DEF PollCompleted, PollPanics, Return, Stage
    <2>2. Awaiting!AnswerAgain(f)
      BY <1>f, <2>1, MoveStage DEF Awaiting!AnswerAgain
    <2>3. QED
      BY <1>f, <2>2 DEF Awaiting!Next
  <1>6. CASE PollReady \/ (PollPanics /\ future = "some")
    <2>1. Stage = "running" /\ Stage' = "answered" /\ UNCHANGED outcome
      BY <1>6 DEF PollReady, PollPanics, Return, Stage
    <2>2. out' \in Awaiting!Payloads
      BY DEF Inv, TypeOK, Awaiting!Payloads
    <2>3. [x \in This |-> out'] = [[x \in This |-> out] EXCEPT ![f] = out']
      BY <1>f
    <2>4. Awaiting!Answer(f)
      BY <1>f, <2>1, <2>2, <2>3, MoveStage DEF Awaiting!Answer
    <2>5. QED
      BY <1>f, <2>4 DEF Awaiting!Next
  <1>7. CASE Settle
    <2>1. CASE code = "POLL_PENDING"
      BY <1>7, <2>1, <1>s DEF Settle, Stage, Inv, PollFlow
    <2>2. CASE code # "POLL_PENDING"
      <3>1. Stage = "answered" /\ Stage' = "settled" /\ out' = "empty"
        BY <1>7, <2>2 DEF Settle, Stage, Inv, PollFlow
      <3>2. outcome' \in {"runtimeError"} \cup (CASE out = "OK" -> {"value"}
                                             [] out = "ERR_EXPORT" -> {"exportError"}
                                             [] OTHER -> {})
        BY <1>7, <2>2 DEF Settle, Inv, PollFlow, TypeOK
      <3>3. /\ [x \in This |-> out'] = [[x \in This |-> out] EXCEPT ![f] = "empty"]
            /\ [x \in This |-> outcome'] = [[x \in This |-> outcome] EXCEPT ![f] = outcome']
            /\ [x \in This |-> out][f] = out
        BY <1>f, <3>1
      <3>4. Awaiting!Settle(f)
        BY <1>f, <3>1, <3>2, <3>3, MoveStage DEF Awaiting!Settle
      <3>5. QED
        BY <1>f, <3>4 DEF Awaiting!Next
    <2>3. QED
      BY <2>1, <2>2
  <1>8. CASE ReleaseFuture
    <2>1. Stage \in {"running", "settled"} /\ Stage' = "gone" /\ UNCHANGED <<out, outcome>>
      BY <1>8 DEF ReleaseFuture, Stage
    <2>2. Awaiting!Drop(f)
      BY <1>f, <2>1, MoveStage DEF Awaiting!Drop
    <2>3. QED
      BY <1>f, <2>2 DEF Awaiting!Next
  <1>9. CASE Produce \/ CloneSlot
    BY <1>9, <1>s DEF Produce, CloneSlot, task, Stage
  <1>10. CASE \E s \in Shells : Thread(s)
    BY <1>10, <1>s DEF Thread, RawWake, RawWakeByRef, RawDrop, task, Stage
  <1>11. PollPanics => future \in {"some", "poisoned"}
    BY DEF PollPanics
  <1>12. QED
    BY <1>1, <1>2, <1>3, <1>4, <1>5, <1>6, <1>7, <1>8, <1>9, <1>10, <1>11 DEF Next, Poll

(* To the caller a polled future is one that answers once and is never     *)
(* released with a payload to be read, whatever the executor, the threads  *)
(* of the module and a cancellation do (future.rs:538-604).                *)
THEOREM ImplementsAwaited == SafeSpec => AnswersOnce
  <1>1. Init => Awaiting!Init
    BY DEF Init, Awaiting!Init, Stage
  <1>2. Inv /\ Inv' /\ [Next]_vars => [Awaiting!Next]_(Awaiting!vars)
    BY AwaitingNext
  <1>3. QED
    BY <1>1, <1>2, InvHolds, PTL DEF SafeSpec, AnswersOnce, Awaiting!Spec
=============================================================================
