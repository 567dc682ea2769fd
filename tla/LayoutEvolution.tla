--------------------------- MODULE LayoutEvolution ---------------------------
(***************************************************************************)
(* The life of a contract: its author changes the source, runs assert_abi! *)
(* against the committed snapshot, updates the snapshot and releases.      *)
(* Hosts and modules built from any two releases then meet, and all they   *)
(* check of one another is sizes and versions.                             *)
(*                                                                         *)
(*   xabi-assert/src/lib.rs            the snapshot and its comparison     *)
(*   xabi/src/layout.rs                what is recorded                    *)
(*   xabi/src/status.rs                the checks at run time              *)
(*   xabi-macros/src/trait_macro.rs    vtables and field_available         *)
(*                                                                         *)
(* A layout is what a build of the contract has: version and head (format, *)
(* package, target, id and trait), types by name and vtables by name.  Two *)
(* snapshots are equal as text exactly when the recorded parts are equal.  *)
(***************************************************************************)
EXTENDS Naturals, FiniteSets

CONSTANTS
  NoFile,      \* the content of a snapshot file that does not exist
  Layouts,     \* the layouts that the contract may have
  Width,       \* the size of a field type, by its recorded name
  MaxReleases  \* bound: the number of different layouts released

VARIABLES
  tree,        \* the layout of the working tree
  snapshot,    \* the layout in the committed snapshot file, or NoFile
  verdict,     \* what assert_abi! said of the tree last
  released     \* the layouts of the peers that are in use

vars == <<tree, snapshot, verdict, released>>

-----------------------------------------------------------------------------
(* Layouts.                                                                *)
FieldEnd(t, f) == t.fields[f].offset + Width[t.fields[f].ty]

(* What rustc and the macros guarantee of a layout.  Vtables are types too,*)
(* with the destroy and release slots inside min_size.  The layouts that   *)
(* the types of a field collect, of a method those of its arguments,       *)
(* payload and error, are in the same snapshot; types that keep the        *)
(* default collector, like String, have none.                              *)
WellFormed(l) ==
  /\ \A n \in DOMAIN l.types :
       /\ l.types[n].stability \in {"fixed", "prefix"}
       /\ l.types[n].size \in Nat
       /\ \A f \in DOMAIN l.types[n].fields :
            /\ l.types[n].fields[f].offset \in Nat
            /\ Width[l.types[n].fields[f].ty] \in Nat \ {0}
            /\ FieldEnd(l.types[n], f) <= l.types[n].size
            /\ l.types[n].fields[f].collects \subseteq DOMAIN l.types
  /\ \A n \in DOMAIN l.vtables :
       /\ n \in DOMAIN l.types
       /\ l.types[n].stability = "prefix"
       /\ l.vtables[n].full = l.types[n].size
       /\ l.vtables[n].min \in Nat
       /\ l.vtables[n].min <= l.vtables[n].full

ASSUME NoFileAssumption == NoFile \notin Layouts
ASSUME LayoutsAssumption == \A l \in Layouts : WellFormed(l) /\ l.version \in Nat

-----------------------------------------------------------------------------
(* compare_compatibility.  Two things of a field are not recorded.         *)
(* "returns" is how the caller decodes the payload of a method: the name   *)
(* of a slot's type has the C arguments only.  "collects" has the layouts  *)
(* behind the field, whose name consists of the tokens of the argument     *)
(* types (normalized_type_name): with another import or alias the same     *)
(* tokens stand for other types.                                           *)
SameField(old, new, f) ==
  /\ f \in DOMAIN new.fields
  /\ new.fields[f].offset = old.fields[f].offset
  /\ new.fields[f].ty = old.fields[f].ty

TypeCompatible_PaddingIsFree(old, new) ==
  /\ new.stability = old.stability
  /\ new.align = old.align
  /\ old.stability = "fixed" => new.size = old.size
  /\ old.stability = "prefix" => new.size >= old.size
  /\ \A f \in DOMAIN old.fields : SameField(old, new, f)
  /\ old.stability = "fixed" => DOMAIN new.fields = DOMAIN old.fields

TypeCompatible_MayShrink(old, new) ==
  /\ new.stability = old.stability
  /\ new.align = old.align
  /\ old.stability = "fixed" => new.size = old.size
  /\ \A f \in DOMAIN old.fields : SameField(old, new, f)
  /\ old.stability = "fixed" => DOMAIN new.fields = DOMAIN old.fields
  /\ old.stability = "prefix" =>
       \A f \in DOMAIN new.fields \ DOMAIN old.fields :
         new.fields[f].offset >= old.size

TypeCompatible(old, new) ==
  /\ new.stability = old.stability
  /\ new.align = old.align
  /\ old.stability = "fixed" => new.size = old.size
  /\ old.stability = "prefix" => new.size >= old.size
  /\ \A f \in DOMAIN old.fields : SameField(old, new, f)
  /\ old.stability = "fixed" => DOMAIN new.fields = DOMAIN old.fields
  /\ old.stability = "prefix" =>
       \A f \in DOMAIN new.fields \ DOMAIN old.fields :
         new.fields[f].offset >= old.size

VTableCompatible(old, new) == new.full >= old.full /\ new.min <= old.min

Compatible_MayDropTypes(old, new) ==
  /\ new.head = old.head
  /\ new.version = old.version
  /\ \A n \in DOMAIN old.types \cap DOMAIN new.types :
       TypeCompatible(old.types[n], new.types[n])
  /\ \A n \in DOMAIN old.vtables :
       n \in DOMAIN new.vtables /\ VTableCompatible(old.vtables[n], new.vtables[n])

Compatible(old, new) ==
  /\ new.head = old.head
  /\ new.version = old.version
  /\ \A n \in DOMAIN old.types :
       n \in DOMAIN new.types /\ TypeCompatible(old.types[n], new.types[n])
  /\ \A n \in DOMAIN old.vtables :
       n \in DOMAIN new.vtables /\ VTableCompatible(old.vtables[n], new.vtables[n])

(* The part of a layout that its snapshot records.                         *)
RecordedFields(t) == [f \in DOMAIN t.fields |-> [offset |-> t.fields[f].offset,
                                                 ty |-> t.fields[f].ty]]

SameText(a, b) ==
  /\ a.head = b.head /\ a.version = b.version /\ a.vtables = b.vtables
  /\ DOMAIN a.types = DOMAIN b.types
  /\ \A n \in DOMAIN a.types :
       /\ a.types[n].stability = b.types[n].stability
       /\ a.types[n].size = b.types[n].size
       /\ a.types[n].align = b.types[n].align
       /\ RecordedFields(a.types[n]) = RecordedFields(b.types[n])

-----------------------------------------------------------------------------
Init ==
  /\ tree \in Layouts
  /\ snapshot = NoFile
  /\ verdict = "none"
  /\ released = {}

(* The author edits the source: an attempt at the present version of the   *)
(* contract, or at the next one.                                           *)
Edit(l) ==
  /\ l # tree
  /\ l.version \in {tree.version, tree.version + 1}
  /\ tree' = l
  /\ verdict' = "none"
  /\ UNCHANGED <<snapshot, released>>

(* assert_layout_in without XABI_UPDATE.                                   *)
AssertLayout ==
  /\ verdict' = IF snapshot = NoFile THEN "missing"
                ELSE IF SameText(snapshot, tree) THEN "pass"
                ELSE IF Compatible(snapshot, tree) THEN "compatible"
                ELSE "breaking"
  /\ UNCHANGED <<tree, snapshot, released>>

(* assert_layout_in with XABI_UPDATE writes whatever is in the tree.  The  *)
(* author does so for a new file, for a change that is said to be          *)
(* compatible, and for a new version.                                      *)
Update ==
  /\ \/ verdict \in {"missing", "compatible"}
     \/ verdict = "breaking" /\ tree.version > snapshot.version
  /\ snapshot' = tree
  /\ verdict' = "none"
  /\ UNCHANGED <<tree, released>>

(* Only a tree that passes is released.                                    *)
Release ==
  /\ verdict = "pass"
  /\ Cardinality(released \cup {tree}) <= MaxReleases
  /\ released' = released \cup {tree}
  /\ UNCHANGED <<tree, snapshot, verdict>>

Next == (\E l \in Layouts : Edit(l)) \/ AssertLayout \/ Update \/ Release

Spec == Init /\ [][Next]_vars

-----------------------------------------------------------------------------
(* The checks at run time, of a reader built from r on a value that was    *)
(* written by a peer built from w, which says how large its type is.       *)
AcceptsVTable(r, w, n) == w.types[n].size >= r.vtables[n].min

FieldAvailable_Starts(r, w, n, f) ==
  w.types[n].size >= r.types[n].fields[f].offset

FieldAvailable(r, w, n, f) == w.types[n].size >= FieldEnd(r.types[n], f)

(* Any other prefix type is required to reach the end of the reader's last *)
(* field, a fixed one to have the reader's size.                           *)
AcceptsType(r, w, n) ==
  IF r.types[n].stability = "fixed" THEN w.types[n].size = r.types[n].size
  ELSE \A f \in DOMAIN r.types[n].fields : FieldAvailable(r, w, n, f)

Peers == {p \in released \X released : p[1].version = p[2].version}

(* A handle accepts the vtables of every release of its contract version,  *)
(* older or newer, and finds a method available exactly when the module's  *)
(* vtable has it, in the same slot and with the same C signature.          *)
VTablesInterwork ==
  \A p \in Peers :
    LET r == p[1]  w == p[2] IN
    \A n \in DOMAIN r.vtables \cap DOMAIN w.vtables :
      /\ AcceptsVTable(r, w, n)
      /\ \A f \in DOMAIN r.types[n].fields :
           FieldAvailable(r, w, n, f) <=> f \in DOMAIN w.types[n].fields
      /\ \A f \in DOMAIN r.types[n].fields \cap DOMAIN w.types[n].fields :
           SameField(r.types[n], w.types[n], f)

(* Whatever value a reader accepts, all fields that it reads are there and *)
(* are what the writer wrote; fixed types are always accepted.             *)
AcceptedValuesAreRead ==
  \A p \in Peers :
    LET r == p[1]  w == p[2] IN
    \A n \in (DOMAIN r.types \cap DOMAIN w.types) \ DOMAIN r.vtables :
      /\ r.types[n].stability = "fixed" => AcceptsType(r, w, n)
      /\ AcceptsType(r, w, n) =>
           \A f \in DOMAIN r.types[n].fields : SameField(r.types[n], w.types[n], f)

(* What is behind a name may change unseen, but not to do away with a      *)
(* type: of two releases whose slot of one name carries different types,   *)
(* one describes them all.  So what old peers still send stays in the      *)
(* snapshot, where it cannot change, also when its name has been given to  *)
(* another type.                                                           *)
ReplacedTypesStayDescribed ==
  \A p \in Peers :
    LET r == p[1]  w == p[2] IN
    \A n \in DOMAIN r.types \cap DOMAIN w.types :
      \A f \in DOMAIN r.types[n].fields \cap DOMAIN w.types[n].fields :
        LET carried == r.types[n].fields[f].collects \cup w.types[n].fields[f].collects
        IN carried \subseteq DOMAIN r.types \/ carried \subseteq DOMAIN w.types

(* The inductive invariant.  The comparison is only ever made with the     *)
(* last snapshot; that it is transitive relates all releases of a version, *)
(* and a verdict is about the tree and the file as they are.               *)
TypeOK ==
  /\ tree \in Layouts
  /\ snapshot \in Layouts \cup {NoFile}
  /\ verdict \in {"none", "missing", "pass", "compatible", "breaking"}
  /\ released \subseteq Layouts

VerdictHolds ==
  /\ verdict = "missing" => snapshot = NoFile
  /\ verdict = "breaking" => snapshot # NoFile
  /\ verdict = "pass" => snapshot # NoFile /\ SameText(snapshot, tree)
  /\ verdict = "compatible" => snapshot # NoFile /\ Compatible(snapshot, tree)

OneLine ==
  /\ snapshot = NoFile => released = {}
  /\ \A a \in released :
       /\ a.version <= snapshot.version
       /\ a.version = snapshot.version => Compatible(a, snapshot)
  /\ \A p \in Peers : Compatible(p[1], p[2]) \/ Compatible(p[2], p[1])

IInv == TypeOK /\ VerdictHolds /\ OneLine

(* The methods of releases of one version decode what their peers encode,  *)
(* as a passing "abi_is_stable" (README.md:303-306) suggests; versions     *)
(* "must reject older and newer modules before methods exchange            *)
(* incompatible data" (docs/abi-design.md:280-281).                        *)
ResultsInterwork ==
  \A p \in Peers :
    LET r == p[1]  w == p[2] IN
    \A n \in DOMAIN r.vtables \cap DOMAIN w.vtables :
      \A f \in DOMAIN r.types[n].fields \cap DOMAIN w.types[n].fields :
        w.types[n].fields[f].returns = r.types[n].fields[f].returns
=============================================================================
