----------------------- MODULE LayoutEvolution_proofs -----------------------
(***************************************************************************)
(* What TLC checks of LayoutEvolution for some layouts and three releases  *)
(* holds for any layouts that are well formed and any number of releases.  *)
(***************************************************************************)
EXTENDS LayoutEvolution, TLAPS

USE NoFileAssumption, LayoutsAssumption

-----------------------------------------------------------------------------
(* The comparison.                                                         *)
LEMMA EqualIsCompatible ==
  ASSUME NEW a \in Layouts, NEW b \in Layouts, SameText(a, b)
  PROVE  Compatible(a, b) /\ Compatible(b, a)
  <1>1. ASSUME NEW n \in DOMAIN a.types
        PROVE  /\ a.types[n].stability = b.types[n].stability
               /\ a.types[n].size = b.types[n].size
               /\ a.types[n].align = b.types[n].align
               /\ DOMAIN a.types[n].fields = DOMAIN b.types[n].fields
               /\ \A f \in DOMAIN a.types[n].fields :
                    /\ a.types[n].fields[f].offset = b.types[n].fields[f].offset
                    /\ a.types[n].fields[f].ty = b.types[n].fields[f].ty
    <2>1. RecordedFields(a.types[n]) = RecordedFields(b.types[n])
      BY DEF SameText
    <2>2. DOMAIN a.types[n].fields = DOMAIN b.types[n].fields
      BY <2>1 DEF RecordedFields
    <2>3. ASSUME NEW f \in DOMAIN a.types[n].fields
          PROVE  /\ a.types[n].fields[f].offset = b.types[n].fields[f].offset
                 /\ a.types[n].fields[f].ty = b.types[n].fields[f].ty
      <3>1. RecordedFields(a.types[n])[f] = RecordedFields(b.types[n])[f]
        BY <2>1
      <3>2. QED
        BY <2>2, <3>1 DEF RecordedFields
    <2>4. QED
      BY <2>2, <2>3 DEF SameText
  <1>2. DOMAIN a.types = DOMAIN b.types
    BY DEF SameText
  <1>3. ASSUME NEW n \in DOMAIN a.types
        PROVE  /\ TypeCompatible(a.types[n], b.types[n])
               /\ TypeCompatible(b.types[n], a.types[n])
    <2>1. a.types[n].size \in Nat /\ a.types[n].size = b.types[n].size
      BY <1>1 DEF WellFormed
    <2>2. a.types[n].size >= b.types[n].size /\ b.types[n].size >= a.types[n].size
      BY <2>1
    <2>3. QED
      BY <1>1, <2>2 DEF TypeCompatible, SameField
  <1>4. ASSUME NEW n \in DOMAIN a.vtables
        PROVE  VTableCompatible(a.vtables[n], a.vtables[n])
    BY DEF WellFormed, VTableCompatible
  <1>5. a.vtables = b.vtables /\ a.head = b.head /\ a.version = b.version
    BY DEF SameText
  <1>6. QED
    BY <1>2, <1>3, <1>4, <1>5 DEF Compatible

LEMMA TypeTransitive ==
  ASSUME NEW a, NEW b, NEW c,
         a.size \in Nat, b.size \in Nat, c.size \in Nat,
         \A f \in DOMAIN c.fields : c.fields[f].offset \in Nat,
         TypeCompatible(a, b), TypeCompatible(b, c)
  PROVE  TypeCompatible(a, c)
  <1>1. \A f \in DOMAIN a.fields : SameField(a, c, f)
    BY DEF TypeCompatible, SameField
  <1>2. ASSUME a.stability = "prefix",
               NEW f \in DOMAIN c.fields \ DOMAIN a.fields
        PROVE  c.fields[f].offset >= a.size
    <2>1. b.stability = "prefix" /\ b.size >= a.size
      BY <1>2 DEF TypeCompatible
    <2>2. CASE f \in DOMAIN b.fields
      <3>1. b.fields[f].offset >= a.size
        BY <1>2, <2>2 DEF TypeCompatible
      <3>2. c.fields[f].offset = b.fields[f].offset
        BY <2>2 DEF TypeCompatible, SameField
      <3>3. QED
        BY <3>1, <3>2
    <2>3. CASE f \notin DOMAIN b.fields
      <3>1. c.fields[f].offset >= b.size
        BY <1>2, <2>1, <2>3 DEF TypeCompatible
      <3>2. c.fields[f].offset \in Nat
        BY <1>2
      <3>3. QED
        BY <2>1, <3>1, <3>2
    <2>4. QED
      BY <2>2, <2>3
  <1>3. /\ c.stability = a.stability /\ c.align = a.align
        /\ a.stability = "fixed" => c.size = a.size
        /\ a.stability = "fixed" => DOMAIN c.fields = DOMAIN a.fields
    BY DEF TypeCompatible
  <1>4. a.stability = "prefix" => c.size >= a.size
    BY DEF TypeCompatible
  <1>5. QED
    BY <1>1, <1>2, <1>3, <1>4 DEF TypeCompatible

(* Compared with the last release only, a layout is compatible with all.   *)
LEMMA CompatibleIsTransitive ==
  ASSUME NEW a \in Layouts, NEW b \in Layouts, NEW c \in Layouts,
         Compatible(a, b), Compatible(b, c)
  PROVE  Compatible(a, c)
  <1>1. ASSUME NEW n \in DOMAIN a.types
        PROVE  n \in DOMAIN c.types /\ TypeCompatible(a.types[n], c.types[n])
    <2>1. /\ n \in DOMAIN b.types /\ TypeCompatible(a.types[n], b.types[n])
          /\ n \in DOMAIN c.types /\ TypeCompatible(b.types[n], c.types[n])
      BY DEF Compatible
    <2>2. /\ a.types[n].size \in Nat /\ b.types[n].size \in Nat
          /\ c.types[n].size \in Nat
          /\ \A f \in DOMAIN c.types[n].fields : c.types[n].fields[f].offset \in Nat
      BY <2>1 DEF WellFormed
    <2>3. QED
      BY <2>1, <2>2, TypeTransitive
  <1>2. ASSUME NEW n \in DOMAIN a.vtables
        PROVE  n \in DOMAIN c.vtables /\ VTableCompatible(a.vtables[n], c.vtables[n])
    <2>1. /\ n \in DOMAIN b.vtables /\ VTableCompatible(a.vtables[n], b.vtables[n])
          /\ n \in DOMAIN c.vtables /\ VTableCompatible(b.vtables[n], c.vtables[n])
      BY DEF Compatible
    <2>2. /\ a.vtables[n].full \in Nat /\ a.vtables[n].min \in Nat
          /\ b.vtables[n].full \in Nat /\ b.vtables[n].min \in Nat
          /\ c.vtables[n].full \in Nat /\ c.vtables[n].min \in Nat
      BY <2>1 DEF WellFormed
    <2>3. QED
      BY <2>1, <2>2 DEF VTableCompatible
  <1>3. QED
    BY <1>1, <1>2 DEF Compatible

-----------------------------------------------------------------------------
(* What compatibility is worth at run time.                                *)
LEMMA FieldBounds ==
  ASSUME NEW l \in Layouts, NEW n \in DOMAIN l.types, NEW f \in DOMAIN l.types[n].fields
  PROVE  /\ l.types[n].size \in Nat
         /\ l.types[n].fields[f].offset \in Nat
         /\ FieldEnd(l.types[n], f) \in Nat
         /\ l.types[n].fields[f].offset < FieldEnd(l.types[n], f)
         /\ FieldEnd(l.types[n], f) <= l.types[n].size
  BY DEF WellFormed, FieldEnd

(* An older reader finds all its fields in a newer value, and a newer      *)
(* reader those that the older type had, by their ends alone.              *)
LEMMA FieldsInterwork ==
  ASSUME NEW o \in Layouts, NEW w \in Layouts,
         NEW n \in DOMAIN o.types, n \in DOMAIN w.types,
         TypeCompatible(o.types[n], w.types[n]), o.types[n].stability = "prefix"
  PROVE  /\ \A f \in DOMAIN o.types[n].fields :
              /\ FieldAvailable(o, w, n, f)
              /\ SameField(o.types[n], w.types[n], f)
         /\ \A f \in DOMAIN w.types[n].fields :
              FieldAvailable(w, o, n, f) <=> f \in DOMAIN o.types[n].fields
  <1>1. /\ o.types[n].size \in Nat /\ w.types[n].size \in Nat
        /\ w.types[n].size >= o.types[n].size
    BY DEF WellFormed, TypeCompatible
  <1>2. ASSUME NEW f \in DOMAIN o.types[n].fields
        PROVE  /\ FieldAvailable(o, w, n, f)
               /\ SameField(o.types[n], w.types[n], f)
               /\ FieldAvailable(w, o, n, f)
    <2>1. SameField(o.types[n], w.types[n], f)
      BY DEF TypeCompatible
    <2>2. FieldEnd(w.types[n], f) = FieldEnd(o.types[n], f)
      BY <2>1 DEF SameField, FieldEnd
    <2>3. /\ FieldEnd(o.types[n], f) \in Nat
          /\ FieldEnd(o.types[n], f) <= o.types[n].size
      BY FieldBounds
    <2>4. QED
      BY <1>1, <2>1, <2>2, <2>3 DEF FieldAvailable
  <1>3. ASSUME NEW f \in DOMAIN w.types[n].fields, f \notin DOMAIN o.types[n].fields
        PROVE  ~FieldAvailable(w, o, n, f)
    <2>1. w.types[n].fields[f].offset >= o.types[n].size
      BY <1>3 DEF TypeCompatible
    <2>2. /\ w.types[n].fields[f].offset \in Nat /\ FieldEnd(w.types[n], f) \in Nat
          /\ w.types[n].fields[f].offset < FieldEnd(w.types[n], f)
      BY <1>3, FieldBounds
    <2>3. QED
      BY <1>1, <2>1, <2>2 DEF FieldAvailable
  <1>4. QED
    BY <1>2, <1>3

(* The two properties, of one pair of layouts.                             *)
HandleFits(r, w) ==
  \A n \in DOMAIN r.vtables \cap DOMAIN w.vtables :
    /\ AcceptsVTable(r, w, n)
    /\ \A f \in DOMAIN r.types[n].fields :
         FieldAvailable(r, w, n, f) <=> f \in DOMAIN w.types[n].fields
    /\ \A f \in DOMAIN r.types[n].fields \cap DOMAIN w.types[n].fields :
         SameField(r.types[n], w.types[n], f)

ValueFits(r, w) ==
  \A n \in (DOMAIN r.types \cap DOMAIN w.types) \ DOMAIN r.vtables :
    /\ r.types[n].stability = "fixed" => AcceptsType(r, w, n)
    /\ AcceptsType(r, w, n) =>
         \A f \in DOMAIN r.types[n].fields : SameField(r.types[n], w.types[n], f)

LEMMA SameFieldSymmetric ==
  ASSUME NEW a, NEW b, NEW f \in DOMAIN a.fields, SameField(a, b, f)
  PROVE  SameField(b, a, f)
  BY DEF SameField

LEMMA HandlesFit ==
  ASSUME NEW o \in Layouts, NEW w \in Layouts, Compatible(o, w)
  PROVE  HandleFits(o, w) /\ HandleFits(w, o)
  <1> SUFFICES ASSUME NEW n \in DOMAIN o.vtables, n \in DOMAIN w.vtables
               PROVE  /\ AcceptsVTable(o, w, n) /\ AcceptsVTable(w, o, n)
                      /\ \A f \in DOMAIN o.types[n].fields :
                           /\ FieldAvailable(o, w, n, f) <=> f \in DOMAIN w.types[n].fields
                           /\ f \in DOMAIN w.types[n].fields =>
                                /\ SameField(o.types[n], w.types[n], f)
                                /\ SameField(w.types[n], o.types[n], f)
                      /\ \A f \in DOMAIN w.types[n].fields :
                           FieldAvailable(w, o, n, f) <=> f \in DOMAIN o.types[n].fields
    BY DEF HandleFits
  <1>1. /\ n \in DOMAIN o.types /\ n \in DOMAIN w.types
        /\ TypeCompatible(o.types[n], w.types[n]) /\ o.types[n].stability = "prefix"
    BY DEF WellFormed, Compatible
  <1>2. /\ o.vtables[n].full = o.types[n].size /\ w.vtables[n].full = w.types[n].size
        /\ o.types[n].size \in Nat /\ w.types[n].size \in Nat
        /\ o.vtables[n].min \in Nat /\ w.vtables[n].min \in Nat
        /\ o.vtables[n].min <= o.types[n].size
        /\ VTableCompatible(o.vtables[n], w.vtables[n])
    BY <1>1 DEF WellFormed, Compatible
  <1>3. AcceptsVTable(o, w, n) /\ AcceptsVTable(w, o, n)
    BY <1>2 DEF VTableCompatible, AcceptsVTable
  <1>4. /\ \A f \in DOMAIN o.types[n].fields :
             /\ FieldAvailable(o, w, n, f)
             /\ SameField(o.types[n], w.types[n], f)
        /\ \A f \in DOMAIN w.types[n].fields :
             FieldAvailable(w, o, n, f) <=> f \in DOMAIN o.types[n].fields
    BY <1>1, FieldsInterwork
  <1>5. QED
    BY <1>3, <1>4, SameFieldSymmetric DEF SameField

LEMMA ValuesFit ==
  ASSUME NEW o \in Layouts, NEW w \in Layouts, Compatible(o, w)
  PROVE  ValueFits(o, w) /\ ValueFits(w, o)
  <1> SUFFICES ASSUME NEW n \in DOMAIN o.types, n \in DOMAIN w.types
               PROVE  /\ o.types[n].stability = "fixed" => AcceptsType(o, w, n)
                      /\ w.types[n].stability = "fixed" => AcceptsType(w, o, n)
                      /\ AcceptsType(o, w, n) =>
                           \A f \in DOMAIN o.types[n].fields :
                             SameField(o.types[n], w.types[n], f)
                      /\ AcceptsType(w, o, n) =>
                           \A f \in DOMAIN w.types[n].fields :
                             SameField(w.types[n], o.types[n], f)
    BY DEF ValueFits
  <1>1. TypeCompatible(o.types[n], w.types[n])
    BY DEF Compatible
  <1>2. \A f \in DOMAIN o.types[n].fields :
          /\ SameField(o.types[n], w.types[n], f)
          /\ SameField(w.types[n], o.types[n], f)
    BY <1>1, SameFieldSymmetric DEF TypeCompatible
  <1>3. CASE o.types[n].stability = "fixed"
    <2>1. /\ w.types[n].stability = "fixed" /\ w.types[n].size = o.types[n].size
          /\ DOMAIN w.types[n].fields = DOMAIN o.types[n].fields
      BY <1>1, <1>3 DEF TypeCompatible
    <2>2. QED
      BY <1>2, <1>3, <2>1 DEF AcceptsType
  <1>4. CASE o.types[n].stability = "prefix"
    <2>1. w.types[n].stability = "prefix"
      BY <1>1, <1>4 DEF TypeCompatible
    <2>2. \A f \in DOMAIN w.types[n].fields :
            FieldAvailable(w, o, n, f) => f \in DOMAIN o.types[n].fields
      BY <1>1, <1>4, FieldsInterwork
    <2>3. QED
      BY <1>2, <1>4, <2>1, <2>2 DEF AcceptsType
  <1>5. QED
    BY <1>3, <1>4 DEF WellFormed

-----------------------------------------------------------------------------
LEMMA StepHolds ==
  ASSUME IInv, [Next]_vars
  PROVE  IInv'
  <1>1. CASE \E l \in Layouts : Edit(l)
    BY <1>1 DEF Edit, IInv, TypeOK, VerdictHolds, OneLine, Peers
  <1>2. CASE AssertLayout
    BY <1>2 DEF AssertLayout, IInv, TypeOK, VerdictHolds, OneLine, Peers
  <1>3. CASE Update
    <2>1. /\ snapshot' = tree /\ verdict' = "none" /\ UNCHANGED <<tree, released>>
          /\ tree \in Layouts /\ released \subseteq Layouts
      BY <1>3 DEF Update, IInv, TypeOK
    <2>2. TypeOK' /\ VerdictHolds'
      BY <2>1 DEF IInv, TypeOK, VerdictHolds
    <2>3. ASSUME NEW a \in released
          PROVE  /\ a.version <= tree.version
                 /\ a.version = tree.version => Compatible(a, tree)
      <3>1. /\ snapshot \in Layouts /\ a \in Layouts
            /\ a.version <= snapshot.version
            /\ a.version = snapshot.version => Compatible(a, snapshot)
        BY <2>1, <2>3 DEF IInv, TypeOK, OneLine
      <3>2. a.version \in Nat /\ snapshot.version \in Nat /\ tree.version \in Nat
        BY <2>1, <3>1
      <3>3. CASE verdict = "compatible"
        <4>1. Compatible(snapshot, tree)
          BY <3>3 DEF IInv, VerdictHolds
        <4>2. tree.version = snapshot.version
          BY <4>1 DEF Compatible
        <4>3. QED
          BY <2>1, <3>1, <4>1, <4>2, CompatibleIsTransitive
      <3>4. CASE verdict = "breaking" /\ tree.version > snapshot.version
        BY <3>1, <3>2, <3>4
      <3>5. verdict # "missing"
        BY <3>1 DEF IInv, VerdictHolds
      <3>6. QED
        BY <1>3, <3>3, <3>4, <3>5 DEF Update
    <2>4. OneLine'
      <3>1. snapshot' # NoFile
        BY <2>1
      <3>2. \A p \in Peers' : Compatible(p[1], p[2]) \/ Compatible(p[2], p[1])
        BY <2>1 DEF IInv, OneLine, Peers
      <3>3. QED
        BY <2>1, <2>3, <3>1, <3>2 DEF OneLine
    <2>5. QED
      BY <2>2, <2>4 DEF IInv
  <1>4. CASE Release
    <2>1. /\ released' = released \cup {tree} /\ UNCHANGED <<tree, snapshot, verdict>>
          /\ tree \in Layouts /\ snapshot \in Layouts /\ released \subseteq Layouts
          /\ SameText(snapshot, tree)
      BY <1>4 DEF Release, IInv, TypeOK, VerdictHolds
    <2>2. /\ Compatible(snapshot, tree) /\ Compatible(tree, snapshot)
          /\ tree.version = snapshot.version
      BY <2>1, EqualIsCompatible DEF SameText
    <2>3. TypeOK' /\ VerdictHolds'
      BY <2>1 DEF IInv, TypeOK, VerdictHolds
    <2>4. \A a \in released' : /\ a.version <= snapshot.version
                               /\ a.version = snapshot.version => Compatible(a, snapshot)
      BY <2>1, <2>2 DEF IInv, OneLine
    <2>5. \A a \in released' : a.version = tree.version => Compatible(a, tree)
      BY <2>1, <2>2, <2>4, CompatibleIsTransitive
    <2>6. \A a, b \in released' :
            a.version = b.version => Compatible(a, b) \/ Compatible(b, a)
      <3>1. \A a, b \in released :
              a.version = b.version => Compatible(a, b) \/ Compatible(b, a)
        <4> SUFFICES ASSUME NEW a \in released, NEW b \in released, a.version = b.version
                     PROVE  Compatible(a, b) \/ Compatible(b, a)
          OBVIOUS
        <4>1. <<a, b>> \in Peers
          BY DEF Peers
        <4>2. QED
          BY <4>1 DEF IInv, OneLine
      <3>2. QED
        BY <2>1, <2>5, <3>1
    <2>7. OneLine'
      <3>1. \A p \in Peers' : Compatible(p[1], p[2]) \/ Compatible(p[2], p[1])
        BY <2>6 DEF Peers
      <3>2. QED
        BY <2>1, <2>4, <3>1 DEF OneLine
    <2>8. QED
      BY <2>3, <2>7 DEF IInv
  <1>5. CASE UNCHANGED vars
    BY <1>5 DEF vars, IInv, TypeOK, VerdictHolds, OneLine, Peers
  <1>6. QED
    BY <1>1, <1>2, <1>3, <1>4, <1>5 DEF Next

(* The inductive invariant: all releases of a version are on one line of   *)
(* compatible layouts that ends with the snapshot.                         *)
THEOREM InvHolds == Spec => []IInv
  <1>1. Init => IInv
    BY DEF Init, IInv, TypeOK, VerdictHolds, OneLine, Peers
  <1>2. QED
    BY <1>1, StepHolds, PTL DEF Spec

LEMMA PeersAreCompatible ==
  ASSUME IInv, NEW p \in Peers
  PROVE  /\ p[1] \in Layouts /\ p[2] \in Layouts
         /\ Compatible(p[1], p[2]) \/ Compatible(p[2], p[1])
  BY DEF IInv, TypeOK, OneLine, Peers

(* Handles and vtables of all releases of a version work together.         *)
THEOREM VTablesAlwaysInterwork == Spec => []VTablesInterwork
  <1>1. IInv => VTablesInterwork
    <2> SUFFICES ASSUME IInv, NEW p \in Peers
                 PROVE  HandleFits(p[1], p[2])
      BY DEF VTablesInterwork, HandleFits
    <2>1. QED
      BY PeersAreCompatible, HandlesFit
  <1>2. QED
    BY <1>1, InvHolds, PTL

(* A value that a peer accepts is read as it was written.                  *)
THEOREM AcceptedValuesAreGood == Spec => []AcceptedValuesAreRead
  <1>1. IInv => AcceptedValuesAreRead
    <2> SUFFICES ASSUME IInv, NEW p \in Peers
                 PROVE  ValueFits(p[1], p[2])
      BY DEF AcceptedValuesAreRead, ValueFits
    <2>1. QED
      BY PeersAreCompatible, ValuesFit
  <1>2. QED
    BY <1>1, InvHolds, PTL

(* Compatibility removes no type, so that the layouts behind one name are  *)
(* all in the newer one of two peers (xabi-assert/src/lib.rs:233).         *)
THEOREM ReplacedTypesAreKept == Spec => []ReplacedTypesStayDescribed
  <1>1. IInv => ReplacedTypesStayDescribed
    <2> SUFFICES ASSUME IInv, NEW p \in Peers,
                        NEW n \in DOMAIN p[1].types \cap DOMAIN p[2].types,
                        NEW f \in DOMAIN p[1].types[n].fields \cap DOMAIN p[2].types[n].fields
                 PROVE  LET carried == p[1].types[n].fields[f].collects
                                         \cup p[2].types[n].fields[f].collects
                        IN carried \subseteq DOMAIN p[1].types \/ carried \subseteq DOMAIN p[2].types
      BY DEF ReplacedTypesStayDescribed
    <2>1. /\ p[1].types[n].fields[f].collects \subseteq DOMAIN p[1].types
          /\ p[2].types[n].fields[f].collects \subseteq DOMAIN p[2].types
      BY PeersAreCompatible DEF WellFormed
    <2>2. \/ DOMAIN p[1].types \subseteq DOMAIN p[2].types
          \/ DOMAIN p[2].types \subseteq DOMAIN p[1].types
      BY PeersAreCompatible DEF Compatible
    <2>3. QED
      BY <2>1, <2>2
  <1>2. QED
    BY <1>1, InvHolds, PTL
=============================================================================
