------------------------------- MODULE Loader -------------------------------
(***************************************************************************)
(* A host opens a library, validates its manifest and looks for exports of *)
(* one trait: xabi_load, xabi_load_named and xabi_load_all, with every way *)
(* they fail, and what has been constructed by then.                       *)
(*                                                                         *)
(*   xabi/src/library.rs                 Module, XabiManifest, XabiExport  *)
(*   xabi-macros/src/trait_macro.rs      the loaders of a handle           *)
(*                                                                         *)
(* Error kinds are those of xabi::Error, with AbiMismatch told apart as    *)
(* "Layout" (a size or ABI version) and "Version" (the contract version).  *)
(***************************************************************************)
EXTENDS Naturals, Sequences

CONSTANTS
  Descriptors, \* the XabiExport values a module may have
  MaxExports,  \* bound: the length of the export table
  Wanted,      \* the names that xabi_load_named is asked for
  Expected,    \* the contract version of the host's trait
  Grown        \* TRUE: the module's XabiExport has more fields than the host's

(* valid:   the size and ABI version pass XabiExport::validate.            *)
(* id:      "this" trait, an "other" one, or not UTF-8, "bad".             *)
(* name:    the name of the export, "bad" when it is not UTF-8.            *)
(* version: its contract version.                                          *)
(* make:    whether make returns a "valid" vtable, "null" or a vtable that *)
(*          does not validate, "broken".                                   *)
ASSUME DescriptorsAssumption ==
  \A d \in Descriptors : /\ d.valid \in BOOLEAN
                         /\ d.id \in {"this", "other", "bad"}
                         /\ d.make \in {"valid", "null", "broken"}
ASSUME WantedAssumption == "bad" \notin Wanted
ASSUME MaxExportsAssumption == MaxExports \in Nat
ASSUME GrownAssumption == Grown \in BOOLEAN

VARIABLES
  manifest,    \* what the library exports as xabi_manifest
  table,       \* the descriptors of the module
  view,        \* the descriptors as the host reads them
  pc,          \* where the host is
  op,          \* the loader that runs: "one", "named" or "all"
  want,        \* the name asked for
  next,        \* the descriptor to look at
  mismatch,    \* version_mismatch is Some
  handles,     \* the handles built by this loader, by descriptor
  alive,       \* the instances that make has constructed, not released
  lost,        \* the instances whose vtable was not adopted
  arcs,        \* the strong count of the ModuleHandle
  result       \* what Module::load or the loader returned

lookup == <<op, want, next, mismatch>>
vars == <<manifest, table, view, pc, lookup, handles, alive, lost, arcs, result>>

Tables == UNION {[1..n -> Descriptors] : n \in 0..MaxExports}

Manifests == {"noLibrary", "noSymbol", "null", "short", "newAbi", "nullExports", "good"}

Errors == {"LoadLibrary", "LoadSymbol", "NullPointer", "Layout", "Version",
           "Export", "Utf8"}

TypeOK ==
  /\ manifest \in Manifests
  /\ table \in Tables
  /\ view \in Tables /\ Len(view) = Len(table)
  /\ pc \in {"closed", "open", "exports", "scan", "done", "failed"}
  /\ op \in {"one", "named", "all"}
  /\ want \in Wanted
  /\ next \in 1..(Len(view) + 1)
  /\ mismatch \in BOOLEAN
  /\ handles \in Seq(1..Len(view))
  /\ alive \subseteq 1..Len(view)
  /\ lost \subseteq 1..Len(view)
  /\ arcs \in Nat
  /\ result \in Errors \cup {"none", "Ok"}

(* exports() takes the table as a slice of the host's XabiExport.  When    *)
(* the module's descriptors are wider, only the first one is where the     *)
(* host looks; the others are read across two descriptors of the module.   *)
Slice(t) ==
  IF Grown THEN {v \in [1..Len(t) -> Descriptors] : t # <<>> => v[1] = t[1]} ELSE {t}

Init ==
  /\ manifest \in Manifests
  /\ table \in Tables
  /\ view \in Slice(table)
  /\ pc = "closed"
  /\ op = "one"
  /\ want \in Wanted
  /\ next = 1
  /\ mismatch = FALSE
  /\ handles = <<>>
  /\ alive = {}
  /\ lost = {}
  /\ arcs = 0
  /\ result = "none"

-----------------------------------------------------------------------------
(* Module::load.  A failure drops the ModuleHandle and closes the library. *)
LoadModule ==
  /\ pc = "closed"
  /\ IF manifest = "good"
       THEN pc' = "open" /\ arcs' = 1 /\ UNCHANGED result
       ELSE /\ pc' = "failed"
            /\ result' = CASE manifest = "noLibrary" -> "LoadLibrary"
                           [] manifest = "noSymbol" -> "LoadSymbol"
                           [] manifest \in {"null", "nullExports"} -> "NullPointer"
                           [] manifest \in {"short", "newAbi"} -> "Layout"
            /\ UNCHANGED arcs
  /\ UNCHANGED <<manifest, table, view, lookup, handles, alive, lost>>

-----------------------------------------------------------------------------
(* A loader starts with module.handle().                                   *)
Begin(o, n) ==
  /\ pc = "open"
  /\ op' = o
  /\ want' = n
  /\ next' = 1
  /\ mismatch' = FALSE
  /\ arcs' = arcs + 1
  /\ pc' = "exports"
  /\ result' = "none"
  /\ UNCHANGED <<manifest, table, view, handles, alive, lost>>

Elements(s) == {s[i] : i \in DOMAIN s}

(* Leaving a loader by an error drops its handle, the handles it has built *)
(* and with each of them an instance and an Arc.                           *)
Fail_KeepsEarlier(error, made) ==
  /\ result' = error
  /\ pc' = "done"
  /\ alive' = alive \cup made
  /\ handles' = <<>>
  /\ arcs' = arcs - 1 - Len(handles)

Fail_ReleasesTwice(error, made) ==
  /\ result' = error
  /\ pc' = "done"
  /\ alive' = (alive \ Elements(handles)) \cup made
  /\ handles' = <<>>
  /\ arcs' = arcs - 2 - Len(handles)

Fail(error, made) ==
  /\ result' = error
  /\ pc' = "done"
  /\ alive' = (alive \ Elements(handles)) \cup made
  /\ handles' = <<>>
  /\ arcs' = arcs - 1 - Len(handles)

Succeed ==
  /\ result' = "Ok"
  /\ pc' = "done"

(* exports() validates every descriptor before any is used.                *)
Exports ==
  /\ pc = "exports"
  /\ IF \A k \in 1..Len(view) : view[k].valid
       THEN pc' = "scan" /\ UNCHANGED <<handles, alive, arcs, result>>
       ELSE Fail("Layout", {})
  /\ UNCHANGED <<manifest, table, view, lookup, lost>>

Scanning == pc = "scan" /\ next \in 1..Len(view)

Continue == /\ next' = next + 1
            /\ UNCHANGED <<manifest, table, view, pc, op, want, handles, alive,
                           lost, arcs, result>>

(* as_str of the id, or of the name where the loader reads it, fails.      *)
Undecodable(k) ==
  \/ view[k].id = "bad"
  \/ /\ view[k].id = "this"
     /\ view[k].name = "bad"
     /\ op = "named" \/ (op = "all" /\ view[k].version = Expected)

BadText ==
  /\ Scanning
  /\ Undecodable(next)
  /\ Fail("Utf8", {})
  /\ UNCHANGED <<manifest, table, view, lookup, lost>>

(* The descriptor is one the loader looks for.                             *)
Matches(k) ==
  /\ view[k].id = "this"
  /\ op = "named" => view[k].name = want

Skip ==
  /\ Scanning
  /\ ~Undecodable(next)
  /\ ~Matches(next)
  /\ Continue
  /\ UNCHANGED mismatch

SkipVersion ==
  /\ Scanning
  /\ ~Undecodable(next)
  /\ Matches(next)
  /\ view[next].version # Expected
  /\ mismatch' = TRUE
  /\ Continue

Fits_AnyVersion(k) == Matches(k)

Fits(k) == Matches(k) /\ view[k].version = Expected

(* xabi_from_export: make constructs the instance, xabi_from_vtable takes  *)
(* it.  The first two loaders end here.                                    *)
Adopt_FirstOnly ==
  /\ Scanning
  /\ ~Undecodable(next)
  /\ Fits(next)
  /\ view[next].make = "valid"
  /\ alive' = alive \cup {next}
  /\ handles' = Append(handles, next)
  /\ Succeed
  /\ UNCHANGED <<manifest, table, view, lookup, lost, arcs>>

Adopt ==
  /\ Scanning
  /\ ~Undecodable(next)
  /\ Fits(next)
  /\ view[next].make = "valid"
  /\ alive' = alive \cup {next}
  /\ handles' = Append(handles, next)
  /\ IF op = "all" THEN next' = next + 1 /\ arcs' = arcs + 1 /\ UNCHANGED <<pc, result>>
                   ELSE Succeed /\ UNCHANGED <<next, arcs>>
  /\ UNCHANGED <<manifest, table, view, op, want, mismatch, lost>>

(* A null vtable, or one that does not validate: what make has constructed *)
(* behind the latter is not released.                                      *)
Refuse ==
  /\ Scanning
  /\ ~Undecodable(next)
  /\ Fits(next)
  /\ \/ view[next].make = "null" /\ Fail("NullPointer", {}) /\ UNCHANGED lost
     \/ view[next].make = "broken" /\ Fail("Layout", {next}) /\ lost' = lost \cup {next}
  /\ UNCHANGED <<manifest, table, view, lookup>>

(* The end of the table.  xabi_load_all drops its own Arc.                 *)
EndScan_MismatchFails ==
  /\ pc = "scan"
  /\ next = Len(view) + 1
  /\ IF mismatch THEN Fail("Version", {})
     ELSE IF op # "all" THEN Fail("Export", {})
     ELSE Succeed /\ arcs' = arcs - 1 /\ UNCHANGED <<handles, alive>>
  /\ UNCHANGED <<manifest, table, view, lookup, lost>>

EndScan ==
  /\ pc = "scan"
  /\ next = Len(view) + 1
  /\ IF mismatch /\ handles = <<>> THEN Fail("Version", {})
     ELSE IF op # "all" THEN Fail("Export", {})
     ELSE Succeed /\ arcs' = arcs - 1 /\ UNCHANGED <<handles, alive>>
  /\ UNCHANGED <<manifest, table, view, lookup, lost>>

(* The caller drops the handles and may load again.                        *)
DropHandles ==
  /\ pc = "done"
  /\ pc' = "open"
  /\ alive' = alive \ Elements(handles)
  /\ handles' = <<>>
  /\ arcs' = arcs - Len(handles)
  /\ UNCHANGED <<manifest, table, view, lookup, lost, result>>

-----------------------------------------------------------------------------
Next == \/ LoadModule
        \/ \E o \in {"one", "named", "all"}, n \in Wanted : Begin(o, n)
        \/ Exports \/ BadText \/ Skip \/ SkipVersion \/ Adopt \/ Refuse \/ EndScan
        \/ DropHandles

Spec == Init /\ [][Next]_vars

-----------------------------------------------------------------------------
(* What the loaders promise, in terms of the whole table.                  *)
Stops(k) == Undecodable(k) \/ (Fits(k) /\ view[k].make # "valid")

(* xabi_load and xabi_load_named return the first export of the trait (and *)
(* name) with the right contract version; xabi_load_all returns all of     *)
(* them, in order, unless one is refused or a text does not decode.        *)
LoadsTheRightExports ==
  pc = "done" /\ result = "Ok" =>
    /\ op = "all" =>
         /\ \A k \in 1..Len(view) : ~Stops(k)
         /\ \A k \in 1..Len(view) : Fits(k) <=> k \in Elements(handles)
         /\ \A i, j \in DOMAIN handles : i < j => handles[i] < handles[j]
    /\ op # "all" =>
         /\ Len(handles) = 1
         /\ Fits(handles[1])
         /\ \A k \in 1..(handles[1] - 1) : ~Fits(k) /\ ~Undecodable(k)

(* The error names the reason: an absent export is told from one of        *)
(* another contract version, and neither hides an export that fits.        *)
FailsForAReason ==
  pc = "done" =>
    /\ result = "Export" => /\ op # "all"
                            /\ \A k \in 1..Len(view) : ~Matches(k) /\ ~Stops(k)
    /\ result = "Version" => /\ \A k \in 1..Len(view) : ~Fits(k) /\ ~Stops(k)
                             /\ \E k \in 1..Len(view) : Matches(k)
    /\ result \in {"Utf8", "NullPointer"} => \E k \in 1..Len(view) : Stops(k)
    /\ result = "Layout" => \E k \in 1..Len(view) : ~view[k].valid \/ Stops(k)

(* When a loader is done, the instances that exist are those behind the    *)
(* handles it returned and those it could not adopt, and the library is    *)
(* held by the Module and those handles alone: a failure half way through  *)
(* xabi_load_all keeps nothing.                                            *)
NothingLeftBehind ==
  /\ pc \in {"open", "done"} =>
       /\ alive = Elements(handles) \cup lost
       /\ arcs = 1 + Len(handles)
  /\ pc = "done" /\ result # "Ok" => handles = <<>>
  /\ pc \in {"closed", "failed"} => arcs = 0 /\ alive = {}

(* No constructor of a descriptor with another id or contract version ever *)
(* runs (README.md:102-104), nor one of a table with an invalid entry.     *)
OnlyFittingExportsAreMade ==
  \A k \in alive : /\ view[k].id = "this" /\ view[k].version = Expected
                   /\ \A j \in 1..Len(view) : view[j].valid

-----------------------------------------------------------------------------
(* The parts of the inductive invariant.  Only a table without an invalid  *)
(* entry is scanned, and constructors run for fitting exports only; a lost *)
(* instance stays, whatever is loaded later.                               *)
Constructed ==
  /\ pc = "scan" \/ (pc = "done" /\ result = "Ok") \/ alive # {} =>
       \A j \in 1..Len(view) : view[j].valid
  /\ \A k \in Elements(handles) : Fits(k) /\ view[k].make = "valid"
  /\ \A k \in lost : /\ view[k].id = "this" /\ view[k].version = Expected
                      /\ view[k].make = "broken"
  /\ alive = Elements(handles) \cup lost

(* Each handle has an Arc, and so have the Module and a running loader.    *)
Counted ==
  /\ pc \in {"closed", "failed"} => arcs = 0 /\ lost = {}
  /\ pc \in {"open", "done"} => arcs = 1 + Len(handles)
  /\ pc \in {"exports", "scan"} => arcs = 2 + Len(handles)
  /\ pc \in {"closed", "failed", "open", "exports"} => handles = <<>>
  /\ pc = "done" /\ result # "Ok" => handles = <<>>

(* What is known of the descriptors that the loop has passed.              *)
Passed ==
  /\ pc = "exports" => next = 1 /\ ~mismatch
  /\ pc = "scan" =>
       /\ \A k \in 1..(next - 1) : /\ ~Stops(k)
                                   /\ Fits(k) <=> k \in Elements(handles)
       /\ \A k \in Elements(handles) : k < next
       /\ \A i, j \in DOMAIN handles : i < j => handles[i] < handles[j]
       /\ op # "all" => handles = <<>>
       /\ mismatch <=> \E k \in 1..(next - 1) : Matches(k) /\ ~Fits(k)

IInv == /\ TypeOK /\ Constructed /\ Counted /\ Passed
        /\ LoadsTheRightExports /\ FailsForAReason

(* The host reads the descriptors that the module wrote (layout.rs:88-89,  *)
(* abi-design.md:391-396).                                                 *)
ReadsTheTable == pc = "scan" => view = table
=============================================================================
