------------------------ MODULE ResultTransfer_proofs ------------------------
(***************************************************************************)
(* Proofs for ResultTransfer, for any methods and any forms of their       *)
(* results.                                                                *)
(***************************************************************************)
EXTENDS ResultTransfer, TLAPS

(* A result that has just been returned: nothing of it is encoded.         *)
LEMMA ReturnsKeepsInv ==
  ASSUME IInv, MethodReturns PROVE IInv'
<1>1. PICK outcome \in {"ok", "err"}, f \in Seq(Leaves) :
        /\ Returns(outcome, f)
        /\ outcome = "err" => method.way # "direct"
  BY DEF MethodReturns, IInv, TypeOK, IsMethod
<1>2. /\ pc = "run" /\ heard = "nothing" /\ flaw = 0 /\ next = 1
      /\ Len(f) \in Nat /\ DOMAIN f = 1..Len(f)
      /\ \A i \in DOMAIN f : f[i] \in Leaves
  BY <1>1 DEF Returns, IInv, Running, Undecided
<1>3. /\ pc' = "encode" /\ said' = outcome /\ form' = f
      /\ place' = [i \in DOMAIN f |->
                IF f[i].kind \in {"text", "owner", "object"} THEN "value" ELSE "none"]
      /\ released' = [i \in DOMAIN f |-> 0]
      /\ method' = method /\ code' = code /\ next' = next /\ flaw' = flaw /\ heard' = heard
  BY <1>1 DEF Returns
<1>4. TypeOK'
  BY <1>2, <1>3 DEF IInv, TypeOK, Places
<1>5. \A i \in DOMAIN form' : /\ place'[i] \in {"value", "none"}
                              /\ released'[i] = 0
  BY <1>3
<1>6. OwnersOnly'
  BY <1>3 DEF OwnersOnly, Owning
<1>7. ReleasedOnce' /\ LossIsBehindTheFailure'
  BY <1>5 DEF ReleasedOnce, LossIsBehindTheFailure
<1>8. Running' /\ Encoding' /\ Answering' /\ Decoding' /\ Undecided'
  BY <1>1, <1>2, <1>3, <1>5 DEF Running, Encoding, Answering, Decoding, Undecided
<1>9. DeliveredWhole' /\ FailureKeepsNothing' /\ OutcomeIsHeard'
  BY <1>2, <1>3 DEF DeliveredWhole, FailureKeepsNothing, OutcomeIsHeard
<1>10. QED
  BY <1>4, <1>6, <1>7, <1>8, <1>9 DEF IInv

(* A panic guard: what is left of the result is settled, and a message may *)
(* stand behind it.                                                        *)
LEMMA CaughtKeepsInv ==
  ASSUME IInv, NEW W, NEW C, Caught(W, C),
         pc \in {"run", "encode"},
         W \in [DOMAIN form -> {"none", "freed", "lost"}],
         C \in [DOMAIN form -> Nat],
         \A i \in DOMAIN form : C[i] = IF W[i] = "freed" THEN 1 ELSE 0,
         \A i \in DOMAIN form : Owning(i) \/ W[i] = "none"
  PROVE IInv'
<1>1. /\ heard = "nothing" /\ flaw = 0
      /\ Len(form) \in Nat /\ DOMAIN form = 1..Len(form)
      /\ form \in Seq(Leaves) /\ IsMethod(method)
      /\ next \in 1..(Len(form) + 1)
  BY DEF IInv, Undecided, TypeOK
<1>2. /\ said' = "panic" /\ pc' = "answer"
      /\ method' = method /\ flaw' = flaw /\ heard' = heard
  BY DEF Caught
<1>3. CASE method.way # "direct"
  <2>1. /\ place' = W /\ released' = C /\ code' = "ERR_PANIC"
        /\ form' = form /\ next' = next
    BY <1>3 DEF Caught
  <2>2. TypeOK'
    BY <1>1, <1>2, <2>1 DEF TypeOK, Places, Codes
  <2>3. ReleasedOnce' /\ OwnersOnly' /\ LossIsBehindTheFailure'
    BY <1>1, <1>2, <2>1 DEF ReleasedOnce, OwnersOnly, Owning, LossIsBehindTheFailure
  <2>4. \A i \in DOMAIN form' : Settled(i)'
    BY <2>1 DEF Settled
  <2>5. Running' /\ Encoding' /\ Answering' /\ Decoding' /\ Undecided'
    BY <1>1, <1>2, <2>1, <2>4 DEF Running, Encoding, Answering, Decoding, Undecided
  <2>6. DeliveredWhole' /\ FailureKeepsNothing' /\ OutcomeIsHeard'
    BY <1>1, <1>2 DEF DeliveredWhole, FailureKeepsNothing, OutcomeIsHeard
  <2>7. QED
    BY <2>2, <2>3, <2>5, <2>6 DEF IInv
<1>4. CASE method.way = "direct"
  <2>1. PICK f \in method.ok :
          /\ form' = Append(form, [kind |-> f[1].kind, open |-> 0])
          /\ place' = AndOne(W, IF f[1].kind \in {"plain", "check"} THEN "none" ELSE "wire")
          /\ released' = AndOne(C, 0)
          /\ next' = Len(form) + 1
          /\ code' = "none"
    BY <1>4 DEF Caught
  <2>2. f \in Seq(Leaves) /\ f # <<>>
    BY <1>1, <2>1 DEF IsMethod
  <2>3. f[1] \in Leaves
    BY <2>2
  <2> DEFINE x == [kind |-> f[1].kind, open |-> 0]
             n == Len(form) + 1
  <2>4. x \in Leaves
    BY <2>3 DEF Leaves
  <2>5. /\ form' \in Seq(Leaves) /\ Len(form') = n /\ DOMAIN form' = 1..n
        /\ \A i \in 1..Len(form) : form'[i] = form[i]
        /\ form'[n] = x
    BY <1>1, <2>1, <2>4
  <2>6. /\ DOMAIN place' = 1..n /\ DOMAIN released' = 1..n
        /\ \A i \in 1..Len(form) : place'[i] = W[i] /\ released'[i] = C[i]
        /\ place'[n] = IF x.kind \in {"plain", "check"} THEN "none" ELSE "wire"
        /\ released'[n] = 0
        /\ place' = [i \in 1..n |-> place'[i]]
        /\ released' = [i \in 1..n |-> released'[i]]
    BY <1>1, <2>1 DEF AndOne
  <2>7. \A i \in 1..n : i = n \/ i \in 1..Len(form)
    BY <1>1
  <2>8. place' \in [1..n -> Places] /\ released' \in [1..n -> Nat]
    BY <1>1, <2>6, <2>7 DEF Places
  <2>9. TypeOK'
    BY <1>1, <1>2, <2>1, <2>5, <2>8 DEF TypeOK, Codes
  <2>10. ReleasedOnce'
    BY <1>1, <2>5, <2>6, <2>7 DEF ReleasedOnce
  <2>11. OwnersOnly'
    BY <1>1, <2>5, <2>6, <2>7 DEF OwnersOnly, Owning
  <2>12. LossIsBehindTheFailure'
    BY <1>1, <1>2, <2>5, <2>6, <2>7 DEF LossIsBehindTheFailure
  <2>13. \A i \in 1..(n - 1) : Settled(i)'
    BY <1>1, <2>6 DEF Settled
  <2>14. OnTheWire(Len(form))'
    BY <2>5, <2>6 DEF OnTheWire, Owning
  <2>15. Message' /\ next' = Len(form')
    BY <1>1, <1>2, <1>4, <2>1, <2>5, <2>13 DEF Message
  <2>16. Running' /\ Encoding' /\ Answering' /\ Decoding' /\ Undecided'
    BY <1>1, <1>2, <2>5, <2>14, <2>15
       DEF Running, Encoding, Answering, Decoding, Undecided
  <2>17. DeliveredWhole' /\ FailureKeepsNothing' /\ OutcomeIsHeard'
    BY <1>1, <1>2 DEF DeliveredWhole, FailureKeepsNothing, OutcomeIsHeard
  <2>18. QED
    BY <2>9, <2>10, <2>11, <2>12, <2>16, <2>17 DEF IInv
<1>5. QED
  BY <1>3, <1>4

LEMMA MethodPanicsKeepsInv ==
  ASSUME IInv, MethodPanics PROVE IInv'
<1>1. pc = "run" /\ form = <<>> /\ Caught(place, released)
  BY DEF MethodPanics, IInv, Running
<1>2. DOMAIN form = {}
  BY <1>1
<1>3. /\ place \in [DOMAIN form -> {"none", "freed", "lost"}]
      /\ released \in [DOMAIN form -> Nat]
  BY <1>2 DEF IInv, TypeOK
<1>4. QED
  BY <1>1, <1>2, <1>3, CaughtKeepsInv

LEMMA EncodePanicsKeepsInv ==
  ASSUME IInv, EncodePanics PROVE IInv'
<1> DEFINE W == [i \in DOMAIN form |-> CASE place[i] = "value" -> "freed"
                                         [] place[i] = "wire"  -> "lost"
                                         [] OTHER              -> place[i]]
           C == [i \in DOMAIN form |-> IF place[i] = "value" THEN 1 ELSE 0]
<1>1. pc = "encode" /\ Caught(W, C)
  BY DEF EncodePanics
<1>2. \A i \in DOMAIN form : place[i] \in {"value", "none", "wire"}
  BY <1>1 DEF IInv, Encoding
<1>3. /\ W \in [DOMAIN form -> {"none", "freed", "lost"}]
      /\ C \in [DOMAIN form -> Nat]
      /\ \A i \in DOMAIN form : C[i] = IF W[i] = "freed" THEN 1 ELSE 0
  BY <1>2
<1>4. \A i \in DOMAIN form : Owning(i) \/ W[i] = "none"
  BY DEF IInv, OwnersOnly
<1> HIDE DEF W, C
<1>5. QED
  BY <1>1, <1>3, <1>4, CaughtKeepsInv

LEMMA RefuseKeepsInv ==
  ASSUME IInv, Refuse PROVE IInv'
<1>1. /\ pc = "run" /\ form = <<>> /\ heard = "nothing"
      /\ pc' = "answer" /\ said' = "refused" /\ code' = "ERR_INVALID_ARGUMENT"
      /\ UNCHANGED <<method, form, place, released, next, flaw, heard>>
  BY DEF Refuse, IInv, Running, Undecided
<1>2. DOMAIN form = {}
  BY <1>1
<1>3. TypeOK'
  BY <1>1 DEF IInv, TypeOK, Codes
<1>4. ReleasedOnce' /\ OwnersOnly' /\ LossIsBehindTheFailure'
  BY <1>1, <1>2 DEF ReleasedOnce, OwnersOnly, LossIsBehindTheFailure
<1>5. Running' /\ Encoding' /\ Answering' /\ Decoding' /\ Undecided'
  BY <1>1 DEF IInv, Running, Encoding, Answering, Decoding, Undecided
<1>6. DeliveredWhole' /\ FailureKeepsNothing' /\ OutcomeIsHeard'
  BY <1>1 DEF DeliveredWhole, FailureKeepsNothing, OutcomeIsHeard
<1>7. QED
  BY <1>3, <1>4, <1>5, <1>6 DEF IInv

(* One more leaf is on the wire.                                           *)
LEMMA EncodeKeepsInv ==
  ASSUME IInv, Encode PROVE IInv'
<1>1. PICK k \in DOMAIN form :
        /\ pc = "encode" /\ Owning(k) /\ Move({k}, "wire")
        /\ UNCHANGED <<method, pc, said, code, form, next, flaw, heard>>
  BY DEF Encode, Pending
<1>2. /\ place' = [i \in DOMAIN form |-> IF i = k THEN "wire" ELSE place[i]]
      /\ released' = released
  BY <1>1 DEF Move
<1>3. heard = "nothing" /\ place[k] \in {"value", "none", "wire"} /\ released[k] = 0
  BY <1>1 DEF IInv, Undecided, Encoding, ReleasedOnce
<1>4. TypeOK'
  BY <1>1, <1>2 DEF IInv, TypeOK, Places
<1>5. ReleasedOnce'
  BY <1>1, <1>2, <1>3 DEF IInv, ReleasedOnce
<1>6. OwnersOnly' /\ LossIsBehindTheFailure'
  BY <1>1, <1>2 DEF IInv, OwnersOnly, Owning, LossIsBehindTheFailure
<1>7. Running' /\ Encoding' /\ Answering' /\ Decoding' /\ Undecided'
  BY <1>1, <1>2 DEF IInv, Running, Encoding, Answering, Decoding, Undecided
<1>8. DeliveredWhole' /\ FailureKeepsNothing' /\ OutcomeIsHeard'
  BY <1>1, <1>3 DEF DeliveredWhole, FailureKeepsNothing, OutcomeIsHeard
<1>9. QED
  BY <1>4, <1>5, <1>6, <1>7, <1>8 DEF IInv

(* Steps that leave the leaves where they are.                             *)
LEMMA UnmovedFrame ==
  ASSUME IInv, UNCHANGED <<method, said, form, place, released, next, flaw>>, code' \in Codes,
         pc' \in {"answer", "decode", "done"},
         heard' \in {"nothing", "value", "export", "runtime"}
  PROVE  TypeOK' /\ ReleasedOnce' /\ OwnersOnly' /\ LossIsBehindTheFailure'
<1>1. TypeOK'
  BY DEF IInv, TypeOK
<1>2. ReleasedOnce' /\ OwnersOnly' /\ LossIsBehindTheFailure'
  BY DEF IInv, ReleasedOnce, OwnersOnly, Owning, LossIsBehindTheFailure
<1>3. QED
  BY <1>1, <1>2

LEMMA AnswerKeepsInv ==
  ASSUME IInv, Answer PROVE IInv'
<1>1. /\ pc = "encode" /\ pc' = "answer" /\ Pending = {}
      /\ code' = CASE method.way = "direct" -> "none"
                   [] said = "ok"           -> "OK"
                   [] OTHER                 -> "ERR_EXPORT"
      /\ UNCHANGED <<method, said, form, place, released, next, flaw, heard>>
  BY DEF Answer
<1>2. /\ said \in {"ok", "err"} /\ next = 1 /\ heard = "nothing"
      /\ said = "err" => method.way # "direct"
  BY <1>1 DEF IInv, Encoding, Undecided
<1>3. \A i \in DOMAIN form : OnTheWire(i)'
  BY <1>1 DEF Pending, OnTheWire, Owning
<1>4. /\ said = "ok" => code' \in {"none", "OK"}
      /\ said = "err" => code' = "ERR_EXPORT"
  BY <1>1, <1>2
<1>5. TypeOK' /\ ReleasedOnce' /\ OwnersOnly' /\ LossIsBehindTheFailure'
  BY <1>1, <1>2, <1>4, UnmovedFrame DEF Codes
<1>6. Running' /\ Encoding' /\ Answering' /\ Decoding' /\ Undecided'
  BY <1>1, <1>2, <1>3, <1>4 DEF IInv, Running, Encoding, Answering, Decoding, Undecided
<1>7. DeliveredWhole' /\ FailureKeepsNothing' /\ OutcomeIsHeard'
  BY <1>1, <1>2 DEF DeliveredWhole, FailureKeepsNothing, OutcomeIsHeard
<1>8. QED
  BY <1>5, <1>6, <1>7 DEF IInv

LEMMA AcceptKeepsInv ==
  ASSUME IInv, Accept PROVE IInv'
<1>1. /\ pc = "answer" /\ pc' = "decode" /\ code \in {"none", "OK", "ERR_EXPORT"}
      /\ UNCHANGED <<method, said, code, form, place, released, next, flaw, heard>>
  BY DEF Accept
<1>2. heard = "nothing" /\ flaw = 0 /\ DOMAIN form = 1..Len(form) /\ Len(form) \in Nat
  BY <1>1 DEF IInv, Undecided, TypeOK
<1>3. \/ /\ said = "ok" /\ code \in {"none", "OK"} /\ next = 1
         /\ \A i \in DOMAIN form : OnTheWire(i)
      \/ /\ said = "err" /\ code = "ERR_EXPORT" /\ next = 1
         /\ \A i \in DOMAIN form : OnTheWire(i)
      \/ said = "panic" /\ Message /\ next = Len(form) /\ OnTheWire(Len(form))
  BY <1>1 DEF IInv, Answering
<1>4. Message <=> Message'
  BY <1>1 DEF Message, Settled
<1>5. \A i \in DOMAIN form : OnTheWire(i) <=> OnTheWire(i)'
  BY <1>1 DEF OnTheWire, Owning
<1>6. Decoding'
  BY <1>1, <1>2, <1>3, <1>4, <1>5 DEF Decoding
<1>7. TypeOK' /\ ReleasedOnce' /\ OwnersOnly' /\ LossIsBehindTheFailure'
  BY <1>1, <1>2, UnmovedFrame DEF Codes
<1>8. Running' /\ Encoding' /\ Answering' /\ Undecided'
  BY <1>1, <1>2 DEF Running, Encoding, Answering, Undecided
<1>9. DeliveredWhole' /\ FailureKeepsNothing' /\ OutcomeIsHeard'
  BY <1>1, <1>2 DEF DeliveredWhole, FailureKeepsNothing, OutcomeIsHeard
<1>10. QED
  BY <1>6, <1>7, <1>8, <1>9 DEF IInv

LEMMA IgnoreKeepsInv ==
  ASSUME IInv, Ignore PROVE IInv'
<1>1. /\ pc = "answer" /\ pc' = "done" /\ code \in {"ERR_PANIC", "ERR_INVALID_ARGUMENT"}
      /\ heard' = "runtime"
      /\ UNCHANGED <<method, said, code, form, place, released, next, flaw>>
  BY DEF Ignore
<1>2. \/ said = "refused" /\ form = <<>>
      \/ said = "panic" /\ \A i \in DOMAIN form : Settled(i)
  BY <1>1 DEF IInv, Answering, Message
<1>3. FailureKeepsNothing'
  BY <1>1, <1>2 DEF FailureKeepsNothing, Settled
<1>4. TypeOK' /\ ReleasedOnce' /\ OwnersOnly' /\ LossIsBehindTheFailure'
  BY <1>1, UnmovedFrame DEF Codes
<1>5. Running' /\ Encoding' /\ Answering' /\ Decoding' /\ Undecided'
  BY <1>1 DEF Running, Encoding, Answering, Decoding, Undecided
<1>6. DeliveredWhole' /\ OutcomeIsHeard'
  BY <1>1, <1>2 DEF DeliveredWhole, OutcomeIsHeard
<1>7. QED
  BY <1>3, <1>4, <1>5, <1>6 DEF IInv

(* All leaves have been read, or are those of a panic before the message.  *)
LEMMA DeliverKeepsInv ==
  ASSUME IInv, Deliver PROVE IInv'
<1>1. /\ pc = "decode" /\ pc' = "done" /\ next > Len(form)
      /\ heard' = IF code = "ERR_EXPORT" THEN "export" ELSE "value"
      /\ UNCHANGED <<method, said, code, form, place, released, next, flaw>>
  BY DEF Deliver
<1>2. /\ \/ said = "ok" /\ code \in {"none", "OK"}
         \/ said = "err" /\ code = "ERR_EXPORT"
         \/ /\ said = "panic" /\ code = "none" /\ method.way = "direct"
            /\ form[Len(form)].kind # "payload"
      /\ \A i \in DOMAIN form : i < next => (said = "panic" /\ i # Len(form)) \/ Read(i)
  BY <1>1 DEF IInv, Decoding, Message
<1>3. \A i \in DOMAIN form : i < next
  BY <1>1 DEF IInv, TypeOK
<1>4. DeliveredWhole'
  BY <1>1, <1>2, <1>3 DEF DeliveredWhole, Read, Owning, Copied
<1>5. OutcomeIsHeard' /\ FailureKeepsNothing'
  BY <1>1, <1>2 DEF OutcomeIsHeard, FailureKeepsNothing
<1>6. TypeOK' /\ ReleasedOnce' /\ OwnersOnly' /\ LossIsBehindTheFailure'
  BY <1>1, UnmovedFrame DEF IInv, TypeOK
<1>7. Running' /\ Encoding' /\ Answering' /\ Decoding' /\ Undecided'
  BY <1>1 DEF Running, Encoding, Answering, Decoding, Undecided
<1>8. QED
  BY <1>4, <1>5, <1>6, <1>7 DEF IInv

(* Leaf by leaf: a copied buffer is freed, an adopted one is the caller's. *)
LEMMA DecodeLeafKeepsInv ==
  ASSUME IInv, DecodeLeaf PROVE IInv'
<1> DEFINE where == IF Copied(next) THEN "freed" ELSE "caller"
<1>1. /\ pc = "decode" /\ next <= Len(form) /\ ~Unreadable(next) /\ next' = next + 1
      /\ Move({i \in {next} : Owning(i)}, where)
      /\ UNCHANGED <<method, pc, said, code, form, flaw, heard>>
  BY DEF DecodeLeaf
<1>2. /\ DOMAIN form = 1..Len(form) /\ Len(form) \in Nat /\ next \in DOMAIN form
      /\ heard = "nothing" /\ flaw = 0
      /\ released \in [DOMAIN form -> Nat] /\ place \in [DOMAIN form -> Places]
  BY <1>1 DEF IInv, TypeOK, Undecided
<1>3. \A i \in DOMAIN form : i >= next => OnTheWire(i)
  BY <1>1 DEF IInv, Decoding
<1>4. /\ \A i \in DOMAIN form :
           place'[i] = IF i = next /\ Owning(i) THEN where ELSE place[i]
      /\ \A i \in DOMAIN form :
           released'[i] = IF i = next /\ Owning(i) /\ Copied(i) THEN released[i] + 1
                          ELSE released[i]
      /\ DOMAIN place' = DOMAIN form /\ DOMAIN released' = DOMAIN form
      /\ place' = [i \in DOMAIN form |-> place'[i]]
      /\ released' = [i \in DOMAIN form |-> released'[i]]
  <2>1. CASE Copied(next)
    <3>1. /\ place' = [i \in DOMAIN form |->
                         IF i \in {j \in {next} : Owning(j)} THEN "freed" ELSE place[i]]
          /\ released' = [i \in DOMAIN form |->
                           released[i] + (IF i \in {j \in {next} : Owning(j)} THEN 1 ELSE 0)]
      BY <1>1, <2>1 DEF Move
    <3>2. QED
      BY <1>2, <2>1, <3>1
  <2>2. CASE ~Copied(next)
    <3>1. /\ place' = [i \in DOMAIN form |->
                         IF i \in {j \in {next} : Owning(j)} THEN "caller" ELSE place[i]]
          /\ released' = released
      BY <1>1, <2>2 DEF Move
    <3>2. QED
      BY <1>2, <2>2, <3>1
  <2>3. QED
    BY <2>1, <2>2
<1>5. \A i \in DOMAIN form : Owning(i)' = Owning(i) /\ Copied(i)' = Copied(i)
  BY <1>1 DEF Owning, Copied
<1>6. TypeOK'
  <2>1. place' \in [DOMAIN form -> Places] /\ released' \in [DOMAIN form -> Nat]
    BY <1>2, <1>4 DEF Places
  <2>2. QED
    BY <1>1, <1>2, <2>1 DEF IInv, TypeOK
<1>7. ReleasedOnce'
  <2>1. \A i \in DOMAIN form : released[i] = IF place[i] = "freed" THEN 1 ELSE 0
    BY DEF IInv, ReleasedOnce
  <2>2. Owning(next) => place[next] = "wire"
    BY <1>2, <1>3 DEF OnTheWire
  <2>3. \A i \in DOMAIN form : released'[i] = IF place'[i] = "freed" THEN 1 ELSE 0
    BY <1>2, <1>4, <2>1, <2>2
  <2>4. QED
    BY <1>1, <2>3 DEF ReleasedOnce
<1>8. OwnersOnly'
  BY <1>1, <1>4, <1>5 DEF IInv, OwnersOnly
<1>9. LossIsBehindTheFailure'
  BY <1>1, <1>4 DEF IInv, LossIsBehindTheFailure
<1>10. \A i \in DOMAIN form : i = next => Read(i)'
  BY <1>2, <1>4, <1>5 DEF Read
<1>11. \A i \in DOMAIN form : i > next => OnTheWire(i)'
  BY <1>2, <1>3, <1>4, <1>5 DEF OnTheWire
<1>12. \A i \in DOMAIN form : i < next => (Read(i) <=> Read(i)')
  BY <1>2, <1>4, <1>5 DEF Read
<1>13. said = "panic" => Message' /\ (next' > Len(form') => form'[Len(form)].kind # "payload")
  <2>1. SUFFICES ASSUME said = "panic"
                 PROVE  Message' /\ (next' > Len(form') => form'[Len(form)].kind # "payload")
    OBVIOUS
  <2>2. Message
    BY <1>1, <2>1 DEF IInv, Decoding
  <2>3. next = Len(form)
    BY <1>1, <1>2, <2>2 DEF Message
  <2>4. form[Len(form)].kind # "payload"
    BY <1>1, <2>1, <2>3 DEF Unreadable
  <2>5. \A i \in 1..(Len(form) - 1) : place'[i] = place[i]
    BY <1>2, <1>4, <2>3
  <2>6. \A i \in 1..(Len(form) - 1) : Settled(i)'
    BY <2>2, <2>5 DEF Message, Settled
  <2>7. QED
    BY <1>1, <1>2, <2>2, <2>3, <2>4, <2>6 DEF Message
<1>14. Decoding'
  <2>1. \/ said' = "ok" /\ code' \in {"none", "OK"}
        \/ said' = "err" /\ code' = "ERR_EXPORT"
        \/ /\ said' = "panic" /\ Message'
           /\ next' > Len(form') => form'[Len(form')].kind # "payload"
    BY <1>1, <1>13 DEF IInv, Decoding
  <2>2. \A i \in DOMAIN form : i >= next' => OnTheWire(i)'
    BY <1>1, <1>2, <1>11
  <2>3. \A i \in DOMAIN form : i < next' => (said = "panic" /\ i # Len(form)) \/ Read(i)'
    <3>1. \A i \in DOMAIN form : i < next' => i < next \/ i = next
      BY <1>1, <1>2
    <3>2. \A i \in DOMAIN form : i < next => (said = "panic" /\ i # Len(form)) \/ Read(i)
      BY <1>1 DEF IInv, Decoding
    <3>3. QED
      BY <1>10, <1>12, <3>1, <3>2
  <2>4. QED
    BY <1>1, <2>1, <2>2, <2>3 DEF Decoding
<1>15. Running' /\ Encoding' /\ Answering' /\ Undecided'
  BY <1>1, <1>2 DEF Running, Encoding, Answering, Undecided
<1>16. DeliveredWhole' /\ FailureKeepsNothing' /\ OutcomeIsHeard'
  BY <1>1, <1>2 DEF DeliveredWhole, FailureKeepsNothing, OutcomeIsHeard
<1>17. QED
  BY <1>6, <1>7, <1>8, <1>9, <1>14, <1>15, <1>16 DEF IInv

(* A leaf does not decode: what was read is dropped, the rest is lost.     *)
LEMMA DecodeFailsKeepsInv ==
  ASSUME IInv, DecodeFails PROVE IInv'
<1>1. /\ pc = "decode" /\ next <= Len(form) /\ pc' = "done"
      /\ flaw' = next /\ heard' = "runtime"
      /\ place' = [i \in DOMAIN form |-> IF FreedBy(i) THEN "freed"
                                         ELSE IF place[i] = "wire" THEN "lost" ELSE place[i]]
      /\ released' = [i \in DOMAIN form |-> released[i] + (IF FreedBy(i) THEN 1 ELSE 0)]
      /\ UNCHANGED <<method, said, code, form, next>>
  BY DEF DecodeFails
<1>2. /\ DOMAIN form = 1..Len(form) /\ Len(form) \in Nat /\ next \in DOMAIN form /\ next \in Nat
      /\ released \in [DOMAIN form -> Nat] /\ place \in [DOMAIN form -> Places]
  BY <1>1 DEF IInv, TypeOK
<1>3. /\ \A i \in DOMAIN form : i >= next => OnTheWire(i)
      /\ \A i \in DOMAIN form : i < next => (said = "panic" /\ i # Len(form)) \/ Read(i)
      /\ said = "panic" => Message
  BY <1>1 DEF IInv, Decoding
<1>4. \A i \in DOMAIN form : Owning(i) \/ place[i] = "none"
  BY DEF IInv, OwnersOnly
<1>5. \A i \in DOMAIN form : i < next => place[i] \in {"none", "freed", "lost", "caller"}
  <2>1. ASSUME NEW i \in DOMAIN form, i < next
        PROVE  place[i] \in {"none", "freed", "lost", "caller"}
    <3>1. CASE said = "panic" /\ i # Len(form)
      BY <1>2, <1>3, <2>1, <3>1 DEF Message, Settled
    <3>2. CASE Read(i)
      BY <1>4, <3>2 DEF Read
    <3>3. QED
      BY <1>3, <2>1, <3>1, <3>2
  <2>2. QED
    BY <2>1
<1>6. \A i \in DOMAIN form : i >= next => place[i] \in {"none", "wire"}
  BY <1>3, <1>4 DEF OnTheWire
<1>7. \A i \in DOMAIN form : FreedBy(i) => place[i] \in {"caller", "wire"}
  BY <1>2, <1>3 DEF FreedBy, OnTheWire
<1>8. \A i \in DOMAIN form : /\ FreedBy(i) \in BOOLEAN
                               /\ place'[i] \in Places
                               /\ released'[i] \in Nat
  BY <1>1, <1>2 DEF Places, FreedBy
<1>9. TypeOK'
  <2>1. place' \in [DOMAIN form -> Places] /\ released' \in [DOMAIN form -> Nat]
    BY <1>1, <1>8
  <2>2. QED
    BY <1>1, <1>2, <2>1 DEF IInv, TypeOK
<1>10. ReleasedOnce'
  <2>1. \A i \in DOMAIN form : released[i] = IF place[i] = "freed" THEN 1 ELSE 0
    BY DEF IInv, ReleasedOnce
  <2>2. \A i \in DOMAIN form : released'[i] = IF place'[i] = "freed" THEN 1 ELSE 0
    BY <1>1, <1>2, <1>7, <2>1
  <2>3. QED
    BY <1>1, <2>2 DEF ReleasedOnce
<1>11. OwnersOnly'
  BY <1>1, <1>4, <1>7 DEF OwnersOnly, Owning
<1>12. FailureKeepsNothing'
  <2>1. \A i \in DOMAIN form : place'[i] \in {"none", "freed", "lost"}
    BY <1>1, <1>2, <1>5, <1>6 DEF FreedBy
  <2>2. QED
    BY <1>1, <2>1 DEF FailureKeepsNothing
<1>13. LossIsBehindTheFailure'
  <2>1. ASSUME NEW i \in DOMAIN form, place'[i] = "lost"
        PROVE  \/ next # 0 /\ i > next
               \/ next = i /\ form[i].kind = "object"
               \/ said = "panic" /\ i # next
    <3>1. ~FreedBy(i) /\ place[i] \in {"wire", "lost"}
      BY <1>1, <2>1
    <3>2. CASE i < next
      <4>1. place[i] = "lost"
        BY <1>2, <1>5, <3>1, <3>2
      <4>2. said = "panic"
        BY <1>2, <1>3, <1>4, <3>2, <4>1 DEF Read
      <4>3. QED
        BY <1>2, <3>2, <4>2
    <3>3. CASE i = next
      BY <1>4, <3>1, <3>3 DEF FreedBy
    <3>4. QED
      BY <1>2, <3>2, <3>3
  <2>2. QED
    BY <1>1, <2>1 DEF LossIsBehindTheFailure
<1>14. Running' /\ Encoding' /\ Answering' /\ Decoding' /\ Undecided'
  BY <1>1 DEF Running, Encoding, Answering, Decoding, Undecided
<1>15. DeliveredWhole' /\ OutcomeIsHeard'
  BY <1>1, <1>2 DEF DeliveredWhole, OutcomeIsHeard
<1>16. QED
  BY <1>9, <1>10, <1>11, <1>12, <1>13, <1>14, <1>15 DEF IInv

LEMMA InitInv ==
  ASSUME Init PROVE IInv
<1>1. /\ method \in Methods /\ pc = "run" /\ said = "nothing" /\ code = "none"
      /\ form = <<>> /\ place = <<>> /\ released = <<>>
      /\ next = 1 /\ flaw = 0 /\ heard = "nothing"
  BY DEF Init
<1>2. DOMAIN form = {} /\ Len(form) = 0 /\ form \in Seq(Leaves)
  BY <1>1
<1>3. TypeOK
  BY <1>1, <1>2, MethodsAssumption DEF TypeOK, Codes
<1>4. ReleasedOnce /\ OwnersOnly /\ LossIsBehindTheFailure
  BY <1>2 DEF ReleasedOnce, OwnersOnly, LossIsBehindTheFailure
<1>5. Running /\ Encoding /\ Answering /\ Decoding /\ Undecided
  BY <1>1 DEF Running, Encoding, Answering, Decoding, Undecided
<1>6. DeliveredWhole /\ FailureKeepsNothing /\ OutcomeIsHeard
  BY <1>1 DEF DeliveredWhole, FailureKeepsNothing, OutcomeIsHeard
<1>7. QED
  BY <1>3, <1>4, <1>5, <1>6 DEF IInv

LEMMA StutterKeepsInv ==
  ASSUME IInv, UNCHANGED vars PROVE IInv'
<1>1. UNCHANGED <<method, pc, said, code, form, place, released, next, flaw, heard>>
  BY DEF vars
<1>2. TypeOK' /\ ReleasedOnce' /\ OwnersOnly' /\ LossIsBehindTheFailure'
  BY <1>1 DEF IInv, TypeOK, ReleasedOnce, OwnersOnly, Owning, LossIsBehindTheFailure
<1>3. Running' /\ Encoding' /\ Undecided'
  BY <1>1 DEF IInv, Running, Encoding, Undecided
<1>4. Answering' /\ Decoding'
  BY <1>1 DEF IInv, Answering, Decoding, Message, Settled, OnTheWire, Read, Owning, Copied
<1>5. DeliveredWhole' /\ FailureKeepsNothing' /\ OutcomeIsHeard'
  BY <1>1 DEF IInv, DeliveredWhole, Owning, Copied, FailureKeepsNothing, OutcomeIsHeard
<1>6. QED
  BY <1>2, <1>3, <1>4, <1>5 DEF IInv

LEMMA StepKeepsInv ==
  ASSUME IInv, [Next]_vars PROVE IInv'
BY ReturnsKeepsInv, MethodPanicsKeepsInv, RefuseKeepsInv, EncodeKeepsInv,
   EncodePanicsKeepsInv, AnswerKeepsInv, AcceptKeepsInv, IgnoreKeepsInv,
   DecodeLeafKeepsInv, DeliverKeepsInv, DecodeFailsKeepsInv, StutterKeepsInv
   DEF Next

(* At every stage of a call, the leaves of the result are where the code   *)
(* of that stage expects them (export.rs, status.rs, handle.rs), whatever  *)
(* the methods return and however many leaves their results have.          *)
THEOREM InvHolds == Spec => []IInv
<1>1. Init => IInv
  BY InitInv
<1>2. IInv /\ [Next]_vars => IInv'
  BY StepKeepsInv
<1>3. QED
  BY <1>1, <1>2, PTL DEF Spec

(* The variables of the model have their types, for any methods.           *)
THEOREM TypeCorrect == Spec => []TypeOK
<1>1. IInv => TypeOK
  BY DEF IInv
<1>2. QED
  BY <1>1, InvHolds, PTL

(* No leaf of a result is freed twice, with any nesting of owned values    *)
(* and wherever the encoding panics or the decoding fails (ffi.rs:286).    *)
THEOREM ResultsReleasedOnce == Spec => []ReleasedOnce
<1>1. IInv => ReleasedOnce
  BY DEF IInv
<1>2. QED
  BY <1>1, InvHolds, PTL

(* A result that is delivered is complete: no buffer of it leaks and no    *)
(* object of it is missing, for any form (handle.rs, contract.rs).         *)
THEOREM ResultsAreWhole == Spec => []DeliveredWhole
<1>1. IInv => DeliveredWhole
  BY DEF IInv
<1>2. QED
  BY <1>1, InvHolds, PTL

(* After a runtime error neither side keeps a part of the result           *)
(* (handle.rs:412, data_macro.rs:181).                                     *)
THEOREM FailuresKeepNothing == Spec => []FailureKeepsNothing
<1>1. IInv => FailureKeepsNothing
  BY DEF IInv
<1>2. QED
  BY <1>1, InvHolds, PTL

(* A leaf is lost only behind the failure that explains it.                *)
THEOREM LossesAreBehindFailures == Spec => []LossIsBehindTheFailure
<1>1. IInv => LossIsBehindTheFailure
  BY DEF IInv
<1>2. QED
  BY <1>1, InvHolds, PTL

(* What the caller hears is what the implementation did, apart from the    *)
(* panic of a method that returns directly (status.rs:47).                 *)
THEOREM OutcomesAreHeard == Spec => []OutcomeIsHeard
<1>1. IInv => OutcomeIsHeard
  BY DEF IInv
<1>2. QED
  BY <1>1, InvHolds, PTL
=============================================================================
