--------------------------- MODULE Loader_proofs ---------------------------
(***************************************************************************)
(* What TLC checks of Loader for tables of three exports holds for tables  *)
(* of any length and any descriptors, also when the host reads some of the *)
(* descriptors wrongly.                                                    *)
(***************************************************************************)
EXTENDS Loader, TLAPS

USE DescriptorsAssumption, WantedAssumption, MaxExportsAssumption

(* A table is a sequence of descriptors.                                   *)
LEMMA TableLength ==
  ASSUME NEW t \in Tables
  PROVE  /\ Len(t) \in Nat
         /\ t \in [1..Len(t) -> Descriptors]
  <1>1. PICK n \in 0..MaxExports : t \in [1..n -> Descriptors]
    BY DEF Tables
  <1>2. n \in Nat /\ t \in Seq(Descriptors) /\ Len(t) = n
    BY <1>1
  <1>3. QED
    BY <1>1, <1>2

(* What a handle more does to the list of handles.                         *)
LEMMA AppendFacts ==
  ASSUME NEW S \in SUBSET Nat, NEW s \in Seq(S), NEW x \in S
  PROVE  /\ Append(s, x) \in Seq(S)
         /\ Len(Append(s, x)) = Len(s) + 1
         /\ Len(s) \in Nat
         /\ Elements(Append(s, x)) = Elements(s) \cup {x}
         /\ (\A k \in Elements(s) : k < x)
              /\ (\A i, j \in DOMAIN s : i < j => s[i] < s[j])
            => \A i, j \in DOMAIN Append(s, x) :
                 i < j => Append(s, x)[i] < Append(s, x)[j]
  <1> DEFINE t == Append(s, x)
  <1>a. /\ t \in Seq(S) /\ Len(t) = Len(s) + 1 /\ Len(s) \in Nat
        /\ DOMAIN s = 1..Len(s) /\ DOMAIN t = 1..(Len(s) + 1)
    OBVIOUS
  <1>b. t[Len(s) + 1] = x /\ \A i \in 1..Len(s) : t[i] = s[i]
    OBVIOUS
  <1>c. \A i \in 1..Len(s) : s[i] \in S
    OBVIOUS
  <1>1. /\ t \in Seq(S) /\ Len(t) = Len(s) + 1 /\ Len(s) \in Nat
        /\ DOMAIN s = 1..Len(s) /\ DOMAIN t = 1..(Len(s) + 1)
        /\ t[Len(s) + 1] = x
        /\ \A i \in 1..Len(s) : t[i] = s[i] /\ s[i] \in Nat
    BY <1>a, <1>b, <1>c
  <1> HIDE DEF t
  <1>2. Elements(t) = Elements(s) \cup {x}
    <2>1. Elements(t) \subseteq Elements(s) \cup {x}
      BY <1>1 DEF Elements
    <2>2. \A i \in DOMAIN s : i \in DOMAIN t /\ t[i] = s[i]
      BY <1>1
    <2>3. x \in Elements(t)
      BY <1>1 DEF Elements
    <2>4. QED
      BY <2>1, <2>2, <2>3 DEF Elements
  <1>3. ASSUME \A k \in Elements(s) : k < x,
               \A i, j \in DOMAIN s : i < j => s[i] < s[j],
               NEW i \in DOMAIN t, NEW j \in DOMAIN t, i < j
        PROVE  t[i] < t[j]
    <2>1. i \in 1..Len(s) /\ t[i] = s[i] /\ s[i] \in Elements(s)
      BY <1>1, <1>3 DEF Elements
    <2>2. CASE j = Len(s) + 1
      BY <1>1, <1>3, <2>1, <2>2
    <2>3. CASE j # Len(s) + 1
      BY <1>1, <1>3, <2>1, <2>3
    <2>4. QED
      BY <2>2, <2>3
  <1>4. QED
    BY <1>1, <1>2, <1>3 DEF t

LEMMA ElementsType ==
  ASSUME NEW S, NEW s \in Seq(S)
  PROVE  Elements(s) \subseteq S
  BY DEF Elements

LEMMA NoElements == Elements(<<>>) = {} /\ Len(<<>>) = 0 /\ DOMAIN <<>> = {}
  BY DEF Elements

(* What a loader wants of a descriptor does not change while it runs.      *)
LEMMA SameWish ==
  ASSUME view' = view, op' = op, want' = want
  PROVE  \A k : /\ Undecodable(k)' <=> Undecodable(k)
                /\ Matches(k)' <=> Matches(k)
                /\ Fits(k)' <=> Fits(k)
                /\ Stops(k)' <=> Stops(k)
  BY DEF Undecodable, Matches, Fits, Stops

LEMMA InitHolds == Init => IInv
  <1> SUFFICES ASSUME Init PROVE IInv
    OBVIOUS
  <1>1. view \in Tables /\ Len(view) = Len(table)
    BY TableLength DEF Init, Slice, Tables
  <1>2. Len(view) \in Nat
    BY <1>1, TableLength
  <1>3. TypeOK
    <2>1. <<>> \in Seq(1..Len(view)) /\ 1 \in 1..(Len(view) + 1)
      BY <1>2
    <2>2. QED
      BY <1>1, <2>1 DEF Init, TypeOK
  <1>4. Constructed /\ Counted /\ Passed /\ LoadsTheRightExports /\ FailsForAReason
    BY NoElements DEF Init, Constructed, Counted, Passed, LoadsTheRightExports,
                      FailsForAReason
  <1>5. QED
    BY <1>3, <1>4 DEF IInv

(* Leaving by an error.                                                    *)
LEMMA FailHolds ==
  ASSUME IInv, NEW e \in Errors, NEW M \in SUBSET (1..Len(view)), Fail(e, M),
         pc \in {"exports", "scan"},
         UNCHANGED <<manifest, table, view, lookup>>, lost' = lost \cup M,
         \A k \in M : /\ view[k].id = "this" /\ view[k].version = Expected
                      /\ view[k].make = "broken",
         M # {} => pc = "scan",
         FailsForAReason'
  PROVE  IInv'
  <1>1. Len(view) \in Nat /\ handles \in Seq(1..Len(view)) /\ Len(handles) \in Nat
    BY TableLength DEF IInv, TypeOK
  <1>2. TypeOK'
    <2>1. /\ UNCHANGED <<manifest, table, view, op, want, next, mismatch>>
          /\ pc' = "done" /\ result' = e /\ handles' = <<>>
          /\ alive' \subseteq alive \cup M /\ arcs' = arcs - 1 - Len(handles)
      BY DEF Fail, lookup
    <2>2. arcs' \in Nat
      BY <1>1, <2>1 DEF IInv, Counted
    <2>3. <<>> \in Seq(1..Len(view))
      OBVIOUS
    <2>4. QED
      BY <2>1, <2>2, <2>3 DEF IInv, TypeOK
  <1>3. Constructed'
    <2>1. alive' = lost'
      BY DEF IInv, Constructed, Fail
    <2>2. alive' # {} => \A j \in 1..Len(view) : view[j].valid
      BY DEF IInv, Constructed, Fail
    <2>3. QED
      BY <2>1, <2>2, NoElements DEF IInv, Constructed, Fail, lookup, Errors
  <1>4. Counted'
    BY <1>1, NoElements DEF IInv, Counted, Fail
  <1>5. Passed' /\ LoadsTheRightExports'
    BY DEF Fail, Passed, LoadsTheRightExports, Errors
  <1>6. QED
    BY <1>2, <1>3, <1>4, <1>5 DEF IInv

(* Passing a descriptor that is not wanted.                                *)
LEMMA ContinueHolds ==
  ASSUME IInv, Scanning, Continue, ~Undecodable(next), ~Fits(next),
         mismatch' = (mismatch \/ Matches(next))
  PROVE  IInv'
  <1>1. Len(view) \in Nat /\ next \in 1..Len(view) /\ next' = next + 1 /\ pc = "scan"
    BY TableLength DEF IInv, TypeOK, Scanning, Continue
  <1>2. TypeOK'
    BY <1>1 DEF IInv, TypeOK, Continue
  <1>3. Constructed' /\ Counted'
    BY SameWish DEF IInv, Constructed, Counted, Continue
  <1>4. Passed'
    <2>1. \A k \in 1..next : k \in 1..(next - 1) \/ k = next
      BY <1>1
    <2>2. ~Stops(next)
      BY DEF Stops
    <2>3. next \notin Elements(handles)
      BY <1>1 DEF IInv, Passed
    <2>4. \A k \in 1..next : ~Stops(k) /\ (Fits(k) <=> k \in Elements(handles))
      BY <1>1, <2>1, <2>2, <2>3 DEF IInv, Passed
    <2>5. \A k \in Elements(handles) : k < next + 1
      <3>1. Elements(handles) \subseteq 1..Len(view)
        BY ElementsType DEF IInv, TypeOK
      <3>2. \A k \in Elements(handles) : k < next
        BY <1>1 DEF IInv, Passed
      <3>3. QED
        BY <1>1, <3>1, <3>2
    <2>6. mismatch' <=> \E k \in 1..next : Matches(k) /\ ~Fits(k)
      <3>1. mismatch' <=> mismatch \/ Matches(next)
        OBVIOUS
      <3>2. mismatch <=> \E k \in 1..(next - 1) : Matches(k) /\ ~Fits(k)
        BY <1>1 DEF IInv, Passed
      <3>3. next \in 1..next /\ 1..(next - 1) \subseteq 1..next
        BY <1>1
      <3> HIDE <1>1
      <3>4. QED
        BY <2>1, <3>1, <3>2, <3>3
    <2>7. next' - 1 = next
      BY <1>1
    <2>8. QED
      BY <1>1, <2>4, <2>5, <2>6, <2>7, SameWish DEF IInv, Passed, Continue
  <1>5. LoadsTheRightExports' /\ FailsForAReason'
    BY <1>1 DEF Continue, LoadsTheRightExports, FailsForAReason
  <1>6. QED
    BY <1>2, <1>3, <1>4, <1>5 DEF IInv

(* Adopting a descriptor that is wanted.                                   *)
LEMMA AdoptHolds ==
  ASSUME IInv, Adopt
  PROVE  IInv'
  <1>1. /\ Len(view) \in Nat /\ next \in 1..Len(view) /\ pc = "scan"
        /\ handles \in Seq(1..Len(view)) /\ handles' = Append(handles, next)
        /\ alive' = alive \cup {next} /\ view[next].make = "valid"
        /\ Fits(next) /\ ~Undecodable(next) /\ ~Stops(next)
        /\ UNCHANGED <<manifest, table, view, op, want, mismatch, lost>>
    BY TableLength DEF IInv, TypeOK, Scanning, Adopt, Stops
  <1>2. 1..Len(view) \in SUBSET Nat
    BY <1>1
  <1>3. /\ handles' \in Seq(1..Len(view))
        /\ Len(handles') = Len(handles) + 1 /\ Len(handles) \in Nat
        /\ Elements(handles') = Elements(handles) \cup {next}
    BY <1>1, <1>2, AppendFacts
  <1>4. \A i, j \in DOMAIN handles' : i < j => handles'[i] < handles'[j]
    <2>1. /\ \A k \in Elements(handles) : k < next
          /\ \A i, j \in DOMAIN handles : i < j => handles[i] < handles[j]
      BY <1>1 DEF IInv, Passed
    <2>2. QED
      BY <1>1, <1>2, <2>1, AppendFacts
  <1>5. Constructed'
    <2>1. alive' = Elements(handles') \cup lost'
      BY <1>1, <1>3 DEF IInv, Constructed
    <2>2. \A j \in 1..Len(view) : view[j].valid
      BY <1>1 DEF IInv, Constructed
    <2>3. QED
      BY <1>1, <1>3, <2>1, <2>2, SameWish DEF IInv, Constructed
  <1>6. CASE op = "all"
    <2>1. next' = next + 1 /\ arcs' = arcs + 1 /\ UNCHANGED <<pc, result>>
      BY <1>6 DEF Adopt
    <2>2. TypeOK'
      <3>1. next' \in 1..(Len(view) + 1)
        BY <1>1, <2>1
      <3>2. arcs' \in Nat
        BY <2>1 DEF IInv, TypeOK
      <3>3. alive' \subseteq 1..Len(view)
        <4>1. alive \subseteq 1..Len(view)
          BY DEF IInv, TypeOK
        <4>2. QED
          BY <1>1, <4>1
      <3>4. QED
        BY <1>1, <1>3, <2>1, <3>1, <3>2, <3>3 DEF IInv, TypeOK
    <2>3. Counted'
      BY <1>1, <1>3, <2>1 DEF IInv, TypeOK, Counted
    <2>4. Passed'
      <3>1. next' - 1 = next
        BY <1>1, <2>1
      <3>2. \A k \in 1..next : k \in 1..(next - 1) \/ k = next
        BY <1>1
      <3>3. \A k \in 1..next : ~Stops(k) /\ (Fits(k) <=> k \in Elements(handles'))
        <4>1. \A k \in 1..(next - 1) : k # next
          BY <1>1
        <4>2. QED
          BY <1>1, <1>3, <3>2, <4>1 DEF IInv, Passed
      <3>4. \A k \in Elements(handles') : k < next'
        <4>1. Elements(handles) \subseteq 1..Len(view)
          BY <1>1, ElementsType
        <4>2. \A k \in Elements(handles) : k < next
          BY <1>1 DEF IInv, Passed
        <4>3. QED
          BY <1>1, <1>3, <2>1, <4>1, <4>2
      <3>5. mismatch <=> \E k \in 1..next : Matches(k) /\ ~Fits(k)
        <4>1. mismatch <=> \E k \in 1..(next - 1) : Matches(k) /\ ~Fits(k)
          BY <1>1 DEF IInv, Passed
        <4>2. 1..(next - 1) \subseteq 1..next
          BY <1>1
        <4>3. Fits(next)
          BY <1>1
        <4>4. QED
          BY <3>2, <4>1, <4>2, <4>3
      <3>6. QED
        BY <1>1, <1>4, <1>6, <2>1, <3>1, <3>3, <3>4, <3>5, SameWish DEF Passed
    <2>5. LoadsTheRightExports' /\ FailsForAReason'
      BY <1>1, <2>1 DEF LoadsTheRightExports, FailsForAReason
    <2>6. QED
      BY <1>5, <2>2, <2>3, <2>4, <2>5 DEF IInv
  <1>7. CASE op # "all"
    <2>1. pc' = "done" /\ result' = "Ok" /\ next' = next /\ arcs' = arcs
      BY <1>7 DEF Adopt, Succeed
    <2>2. handles = <<>>
      BY <1>1, <1>7 DEF IInv, Passed
    <2>3. TypeOK'
      BY <1>1, <1>3, <2>1 DEF IInv, TypeOK
    <2>4. Counted'
      BY <1>1, <1>3, <2>1 DEF IInv, Counted
    <2>5. Passed' /\ FailsForAReason'
      BY <2>1 DEF Passed, FailsForAReason
    <2>6. LoadsTheRightExports'
      <3>1. Len(handles') = 1 /\ handles'[1] = next
        BY <1>1, <2>2
      <3>2. \A k \in 1..(next - 1) : ~Fits(k) /\ ~Undecodable(k)
        BY <1>1, <2>2, NoElements DEF IInv, Passed, Stops
      <3>3. QED
        BY <1>1, <1>7, <3>1, <3>2, SameWish DEF LoadsTheRightExports
    <2>7. QED
      BY <1>5, <2>3, <2>4, <2>5, <2>6 DEF IInv
  <1>8. QED
    BY <1>6, <1>7

LEMMA EndScanHolds ==
  ASSUME IInv, EndScan
  PROVE  IInv'
  <1>1. /\ Len(view) \in Nat /\ pc = "scan" /\ next - 1 = Len(view)
        /\ UNCHANGED <<manifest, table, view, lookup, lost>>
    BY TableLength DEF IInv, TypeOK, EndScan
  <1>2. /\ \A k \in 1..Len(view) : ~Stops(k) /\ (Fits(k) <=> k \in Elements(handles))
        /\ op # "all" => handles = <<>>
        /\ mismatch <=> \E k \in 1..Len(view) : Matches(k) /\ ~Fits(k)
    BY <1>1 DEF IInv, Passed
  <1>3. CASE mismatch /\ handles = <<>>
    <2>1. Fail("Version", {})
      BY <1>3 DEF EndScan
    <2>2. FailsForAReason'
      BY <1>1, <1>2, <1>3, <2>1, NoElements, SameWish DEF FailsForAReason, Fail, lookup
    <2>3. QED
      BY <1>1, <2>1, <2>2, FailHolds DEF Errors
  <1>4. CASE ~(mismatch /\ handles = <<>>) /\ op # "all"
    <2>1. Fail("Export", {})
      BY <1>4 DEF EndScan
    <2>2. \A k \in 1..Len(view) : ~Matches(k) /\ ~Stops(k)
      BY <1>2, <1>4, NoElements
    <2>3. FailsForAReason'
      BY <1>1, <1>4, <2>1, <2>2, SameWish DEF FailsForAReason, Fail, lookup
    <2>4. QED
      BY <1>1, <2>1, <2>3, FailHolds DEF Errors
  <1>5. CASE ~(mismatch /\ handles = <<>>) /\ op = "all"
    <2>1. /\ pc' = "done" /\ result' = "Ok" /\ arcs' = arcs - 1
          /\ UNCHANGED <<handles, alive>>
      BY <1>5 DEF EndScan, Succeed
    <2>2. handles \in Seq(1..Len(view)) /\ Len(handles) \in Nat
      BY DEF IInv, TypeOK
    <2>3. TypeOK' /\ Counted'
      BY <1>1, <2>1, <2>2 DEF IInv, TypeOK, Counted, lookup
    <2>4. Constructed'
      BY <1>1, <2>1, SameWish DEF IInv, Constructed, lookup
    <2>5. Passed' /\ FailsForAReason'
      BY <2>1 DEF Passed, FailsForAReason
    <2>6. LoadsTheRightExports'
      <3>1. \A i, j \in DOMAIN handles : i < j => handles[i] < handles[j]
        BY <1>1 DEF IInv, Passed
      <3>2. QED
        BY <1>1, <1>2, <1>5, <2>1, <3>1, SameWish DEF LoadsTheRightExports, lookup
    <2>7. QED
      BY <2>3, <2>4, <2>5, <2>6 DEF IInv
  <1>6. QED
    BY <1>3, <1>4, <1>5

LEMMA RefuseHolds ==
  ASSUME IInv, Refuse
  PROVE  IInv'
  <1>1. /\ Len(view) \in Nat /\ next \in 1..Len(view) /\ pc = "scan"
        /\ Fits(next) /\ view[next].make # "valid" /\ Stops(next)
        /\ UNCHANGED <<manifest, table, view, lookup>>
    BY TableLength DEF IInv, TypeOK, Scanning, Refuse, Stops
  <1>2. CASE Fail("NullPointer", {}) /\ UNCHANGED lost
    <2>1. FailsForAReason'
      BY <1>1, <1>2, SameWish DEF FailsForAReason, Fail, lookup
    <2>2. QED
      BY <1>1, <1>2, <2>1, FailHolds DEF Errors
  <1>3. CASE view[next].make = "broken" /\ Fail("Layout", {next}) /\ lost' = lost \cup {next}
    <2>1. FailsForAReason'
      BY <1>1, <1>3, SameWish DEF FailsForAReason, Fail, lookup
    <2>2. view[next].id = "this" /\ view[next].version = Expected
      BY <1>1 DEF Fits, Matches
    <2>3. QED
      BY <1>1, <1>3, <2>1, <2>2, FailHolds DEF Errors
  <1>4. QED
    BY <1>2, <1>3 DEF Refuse

LEMMA StepHolds ==
  ASSUME IInv, [Next]_vars
  PROVE  IInv'
  <1>1. Len(view) \in Nat /\ handles \in Seq(1..Len(view)) /\ Len(handles) \in Nat
    BY TableLength DEF IInv, TypeOK
  <1>2. CASE LoadModule
    <2>1. /\ UNCHANGED <<manifest, table, view, op, want, next, mismatch, handles, alive, lost>>
          /\ pc = "closed"
          /\ \/ pc' = "open" /\ arcs' = 1 /\ result' = result
             \/ pc' = "failed" /\ arcs' = arcs /\ result' \in Errors
      BY <1>2 DEF LoadModule, lookup, IInv, TypeOK, Manifests, Errors
    <2>2. handles = <<>> /\ alive = {} /\ arcs = 0 /\ lost = {}
      BY <2>1, NoElements DEF IInv, Counted, Constructed
    <2>3. TypeOK'
      BY <2>1 DEF IInv, TypeOK
    <2>4. Counted' /\ Constructed'
      BY <2>1, <2>2, NoElements DEF Counted, Constructed
    <2>5. Passed' /\ LoadsTheRightExports' /\ FailsForAReason'
      BY <2>1 DEF Passed, LoadsTheRightExports, FailsForAReason
    <2>6. QED
      BY <2>3, <2>4, <2>5 DEF IInv
  <1>3. ASSUME NEW o \in {"one", "named", "all"}, NEW n \in Wanted, Begin(o, n)
        PROVE  IInv'
    <2>1. handles = <<>>
      BY <1>3 DEF Begin, IInv, Counted
    <2>2. TypeOK'
      <3>1. /\ UNCHANGED <<manifest, table, view, handles, alive, lost>>
            /\ op' = o /\ want' = n /\ next' = 1 /\ mismatch' = FALSE
            /\ arcs' = arcs + 1 /\ pc' = "exports" /\ result' = "none"
        BY <1>3 DEF Begin
      <3>2. next' \in 1..(Len(view) + 1) /\ arcs' \in Nat
        BY <1>1, <3>1 DEF IInv, TypeOK
      <3>3. QED
        BY <3>1, <3>2 DEF IInv, TypeOK
    <2>3. Counted' /\ Constructed'
      BY <1>3, <2>1, NoElements DEF Begin, IInv, Counted, Constructed
    <2>4. Passed' /\ LoadsTheRightExports' /\ FailsForAReason'
      BY <1>3 DEF Begin, Passed, LoadsTheRightExports, FailsForAReason
    <2>5. QED
      BY <2>2, <2>3, <2>4 DEF IInv
  <1>4. CASE Exports
    <2>1. CASE \A k \in 1..Len(view) : view[k].valid
      <3>1. /\ pc = "exports" /\ pc' = "scan"
            /\ UNCHANGED <<manifest, table, view, op, want, next, mismatch, handles,
                           alive, lost, arcs, result>>
        BY <1>4, <2>1 DEF Exports, lookup
      <3>2. TypeOK' /\ Counted'
        BY <3>1 DEF IInv, TypeOK, Counted
      <3>3. Constructed'
        BY <2>1, <3>1, SameWish DEF IInv, Constructed
      <3>4. Passed'
        <4>1. handles = <<>> /\ next = 1 /\ ~mismatch /\ 1..(next - 1) = {}
          BY <3>1 DEF IInv, Counted, Passed
        <4>2. QED
          BY <3>1, <4>1, NoElements DEF Passed
      <3>5. LoadsTheRightExports' /\ FailsForAReason'
        BY <3>1 DEF LoadsTheRightExports, FailsForAReason
      <3>6. QED
        BY <3>2, <3>3, <3>4, <3>5 DEF IInv
    <2>2. CASE \E k \in 1..Len(view) : ~view[k].valid
      <3>1. Fail("Layout", {}) /\ UNCHANGED <<manifest, table, view, lookup, lost>>
        BY <1>4, <2>2 DEF Exports
      <3>2. FailsForAReason'
        BY <2>2, <3>1 DEF Fail, FailsForAReason
      <3>3. QED
        BY <1>4, <3>1, <3>2, FailHolds DEF Exports, Errors
    <2>3. QED
      BY <2>1, <2>2
  <1>5. CASE BadText
    <2>1. /\ Fail("Utf8", {}) /\ UNCHANGED <<manifest, table, view, lookup, lost>>
          /\ next \in 1..Len(view) /\ pc = "scan" /\ Stops(next)
      BY <1>5 DEF BadText, Scanning, Stops
    <2>2. FailsForAReason'
      BY <2>1, SameWish DEF Fail, FailsForAReason, lookup
    <2>3. QED
      BY <2>1, <2>2, FailHolds DEF Errors
  <1>6. CASE Skip
    <2>1. ~Fits(next) /\ mismatch' = (mismatch \/ Matches(next))
      BY <1>6 DEF Skip, Fits, IInv, TypeOK
    <2>2. QED
      BY <1>6, <2>1, ContinueHolds DEF Skip
  <1>7. CASE SkipVersion
    <2>1. ~Fits(next) /\ mismatch' = (mismatch \/ Matches(next))
      BY <1>7 DEF SkipVersion, Fits
    <2>2. QED
      BY <1>7, <2>1, ContinueHolds DEF SkipVersion
  <1>8. CASE DropHandles
    <2>1. /\ pc = "done" /\ pc' = "open" /\ handles' = <<>>
          /\ alive' = alive \ Elements(handles) /\ arcs' = arcs - Len(handles)
          /\ UNCHANGED <<manifest, table, view, op, want, next, mismatch, lost, result>>
      BY <1>8 DEF DropHandles, lookup
    <2>2. arcs' = 1
      BY <1>1, <2>1 DEF IInv, Counted
    <2>3. TypeOK' /\ Counted'
      <3>1. alive \subseteq 1..Len(view)
        BY DEF IInv, TypeOK
      <3>2. <<>> \in Seq(1..Len(view))
        OBVIOUS
      <3>3. alive' \subseteq 1..Len(view) /\ arcs' \in Nat
        <4>1. alive' = alive \ Elements(handles)
          BY <2>1
        <4>2. alive' \subseteq 1..Len(view)
          BY <3>1, <4>1
        <4>3. QED
          BY <2>2, <4>2
      <3>4. /\ manifest \in Manifests /\ table \in Tables
            /\ view \in Tables /\ Len(view) = Len(table)
            /\ op \in {"one", "named", "all"} /\ want \in Wanted
            /\ next \in 1..(Len(view) + 1) /\ mismatch \in BOOLEAN
            /\ lost \subseteq 1..Len(view) /\ result \in Errors \cup {"none", "Ok"}
        BY DEF IInv, TypeOK
      <3>5. TypeOK'
        BY <2>1, <3>2, <3>3, <3>4 DEF TypeOK
      <3>6. Counted'
        BY <2>1, <2>2, NoElements DEF Counted
      <3>7. QED
        BY <3>5, <3>6
    <2>4. alive' = lost
      BY <2>1 DEF IInv, Constructed
    <2>5. Constructed'
      BY <2>1, <2>4, NoElements DEF IInv, Constructed
    <2>6. Passed' /\ LoadsTheRightExports' /\ FailsForAReason'
      BY <2>1 DEF Passed, LoadsTheRightExports, FailsForAReason
    <2>7. QED
      BY <2>3, <2>5, <2>6 DEF IInv
  <1>9. CASE UNCHANGED vars
    BY <1>9, SameWish DEF vars, lookup, IInv, TypeOK, Constructed, Counted, Passed,
                          LoadsTheRightExports, FailsForAReason
  <1>10. QED
    BY <1>2, <1>3, <1>4, <1>5, <1>6, <1>7, <1>8, <1>9, AdoptHolds, RefuseHolds,
       EndScanHolds DEF Next

(* The inductive invariant: how far the scan has come determines what has  *)
(* been found, constructed and counted.                                    *)
THEOREM InvHolds == Spec => []IInv
  <1>1. QED
    BY InitHolds, StepHolds, PTL DEF Spec

(* The loaders return the exports they promise, in tables of any length.   *)
THEOREM LoadersAreRight == Spec => []LoadsTheRightExports
  <1>1. IInv => LoadsTheRightExports
    BY DEF IInv
  <1>2. QED
    BY <1>1, InvHolds, PTL

(* An error of a loader names a reason that the table gives.               *)
THEOREM ErrorsAreReasoned == Spec => []FailsForAReason
  <1>1. IInv => FailsForAReason
    BY DEF IInv
  <1>2. QED
    BY <1>1, InvHolds, PTL

(* A loader leaves nothing behind but what it returns and what it lost.    *)
THEOREM NothingIsLeftBehind == Spec => []NothingLeftBehind
  <1>1. IInv => NothingLeftBehind
    BY NoElements DEF IInv, Constructed, Counted, NothingLeftBehind
  <1>2. QED
    BY <1>1, InvHolds, PTL

(* Constructors run for exports of the right trait and version only.       *)
THEOREM ConstructorsFit == Spec => []OnlyFittingExportsAreMade
  <1>1. IInv => OnlyFittingExportsAreMade
    BY DEF IInv, Constructed, OnlyFittingExportsAreMade, Fits, Matches
  <1>2. QED
    BY <1>1, InvHolds, PTL

=============================================================================
