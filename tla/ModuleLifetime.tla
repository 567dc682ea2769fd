--------------------------- MODULE ModuleLifetime ---------------------------
(***************************************************************************)
(* Which Rust values keep a loaded library mapped, and which have function *)
(* pointers into it: Module and Arc<ModuleHandle>, generated handles,      *)
(* owned bytes and owned trait values, while host threads make calls, pass *)
(* values on to other modules and drop them in any order.                  *)
(*                                                                         *)
(*   xabi/src/library.rs                   ModuleHandle, Module            *)
(*   xabi/src/ffi.rs                       XabiOwnedBytesOwner             *)
(*   xabi-macros/src/trait_macro.rs        the handle and owned types      *)
(*   xabi-macros/src/method/handle.rs      decoding of results             *)
(*                                                                         *)
(* An element of Modules is one successful load of a library.              *)
(***************************************************************************)
EXTENDS Naturals, FiniteSets

CONSTANTS
  Modules,     \* the loads, each made at most once
  Items,       \* bound: the values that exist at the same time
  Results      \* the shapes of result that the methods in use return

(* "bytes":  XabiOwnedBytesOwner, also inside an Option, a data type or an *)
(*           error value.                                                  *)
(* "object": impl Trait + 'static.                                         *)
(* "pair":   (T, impl Trait + 'static), where T owns bytes.                *)
(* "owned":  an XabiV1OwnedTrait by value.                                 *)
ResultShapes == {"bytes", "object", "pair", "owned"}

ASSUME ResultsAssumption == Results \subseteq ResultShapes
ASSUME ItemsAssumption == IsFiniteSet(Items)
ASSUME NamesAssumption == /\ {"host", "none"} \cap (Modules \cup Items) = {}
                          /\ Modules \cap Items = {}

VARIABLES
  mapped,      \* the libraries: "fresh", "loaded" or "unloaded"
  count,       \* the strong count of each Arc<ModuleHandle>
  shape,       \* the type of each value, "none" for a free slot
  code,        \* the library with the callbacks of a value, or "host"
  arc,         \* the module a value retains, or "none"
  holder,      \* "host", or the value whose instance keeps this one
  call,        \* "idle", or what runs: a method ("running"), the decoding
               \* of its results ("decode"), the value's drop ("dying")
  frame        \* the results that a call is decoding

values == <<shape, code, arc, holder>>
vars == <<mapped, count, values, call, frame>>

(* "module" is a Module, "arc" an Arc<ModuleHandle> of its own, "raw" owned *)
(* bytes that were adopted without a module, "wrapper" the                 *)
(* XabiV1OwnedTrait::new of a host implementation.                         *)
Shapes == {"module", "arc", "handle", "bytes", "raw", "owned", "wrapper"}

TypeOK ==
  /\ mapped \in [Modules -> {"fresh", "loaded", "unloaded"}]
  /\ count \in [Modules -> Nat]
  /\ shape \in [Items -> Shapes \cup {"none"}]
  /\ code \in [Items -> Modules \cup {"host"}]
  /\ arc \in [Items -> Modules \cup {"none"}]
  /\ holder \in [Items -> Items \cup {"host"}]
  /\ call \in [Items -> {"idle", "running", "decode", "dying"}]
  /\ frame \in [Items -> SUBSET Items]

Init ==
  /\ mapped = [m \in Modules |-> "fresh"]
  /\ count = [m \in Modules |-> 0]
  /\ shape = [i \in Items |-> "none"]
  /\ code = [i \in Items |-> "host"]
  /\ arc = [i \in Items |-> "none"]
  /\ holder = [i \in Items |-> "host"]
  /\ call = [i \in Items |-> "idle"]
  /\ frame = [i \in Items |-> {}]

-----------------------------------------------------------------------------
Free(i) == shape[i] = "none"

(* Results are out of reach until the call that decodes them has returned. *)
Arriving(i) == \E h \in Items : i \in frame[h]

(* A value can be used by the host, and by the code of the instance that   *)
(* keeps it while that code runs.                                          *)
Usable(i) ==
  /\ ~Free(i)
  /\ ~Arriving(i)
  /\ call[i] = "idle"
  /\ holder[i] # "host" => call[holder[i]] \in {"running", "dying"}

Callable(i) == shape[i] \in {"handle", "owned", "wrapper"}

(* Arc::clone, and the drop of an Arc, the last of which closes the        *)
(* library.                                                                *)
Retain(m) == count' = [count EXCEPT ![m] = @ + 1]

DropArc(m) ==
  IF m = "none" THEN UNCHANGED <<mapped, count>>
  ELSE /\ count' = [count EXCEPT ![m] = @ - 1]
       /\ mapped' = IF count[m] = 1 THEN [mapped EXCEPT ![m] = "unloaded"]
                                    ELSE mapped

New(i, s, c, a, at) ==
  /\ Free(i)
  /\ shape' = [shape EXCEPT ![i] = s]
  /\ code' = [code EXCEPT ![i] = c]
  /\ arc' = [arc EXCEPT ![i] = a]
  /\ holder' = [holder EXCEPT ![i] = at]

-----------------------------------------------------------------------------
(* Module::load.                                                           *)
Load(m, i) ==
  /\ mapped[m] = "fresh"
  /\ mapped' = [mapped EXCEPT ![m] = "loaded"]
  /\ Retain(m)
  /\ New(i, "module", m, m, "host")
  /\ UNCHANGED <<call, frame>>

CloneArc_Uncounted(i, j) ==
  /\ Usable(i)
  /\ shape[i] \in {"module", "arc", "handle"}
  /\ count' = count
  /\ New(j, "arc", code[i], arc[i], holder[i])
  /\ UNCHANGED <<mapped, call, frame>>

(* Module::handle, xabi_module and Arc::clone.                             *)
CloneArc(i, j) ==
  /\ Usable(i)
  /\ shape[i] \in {"module", "arc", "handle"}
  /\ Retain(arc[i])
  /\ New(j, "arc", code[i], arc[i], holder[i])
  /\ UNCHANGED <<mapped, call, frame>>

(* xabi_load makes an instance and takes module.handle().                  *)
LoadExport(i, j) ==
  /\ Usable(i)
  /\ shape[i] = "module"
  /\ Retain(arc[i])
  /\ New(j, "handle", code[i], arc[i], holder[i])
  /\ UNCHANGED <<mapped, call, frame>>

(* XabiV1OwnedTrait::new of a host implementation that owns the value i,   *)
(* as layers and decorators do.                                            *)
Wrap(i, j) ==
  /\ Usable(i)
  /\ holder[i] # "host" => shape[holder[i]] = "wrapper"
  /\ Free(j)
  /\ shape' = [shape EXCEPT ![j] = "wrapper"]
  /\ code' = [code EXCEPT ![j] = "host"]
  /\ holder' = [holder EXCEPT ![j] = holder[i], ![i] = j]
  /\ UNCHANGED <<mapped, count, arc, call, frame>>

-----------------------------------------------------------------------------
(* Calls.  The receiver is borrowed until the method has returned, so it   *)
(* cannot be dropped or moved meanwhile.                                   *)
Invoke(h) ==
  /\ Usable(h)
  /\ Callable(h)
  /\ call' = [call EXCEPT ![h] = "running"]
  /\ UNCHANGED <<mapped, count, values, frame>>

(* A call with an argument by value that the implementation keeps in its   *)
(* instance.  into_raw copies bytes that retain a module, and drops the    *)
(* original; everything else is moved as it is.                            *)
InvokeWith(h, i) ==
  /\ Usable(h)
  /\ Callable(h)
  /\ Usable(i)
  /\ i # h
  /\ holder[i] = holder[h]
  /\ shape[i] \in {"bytes", "raw", "owned", "wrapper"}
  /\ DropArc(arc[i])
  /\ code' = IF arc[i] = "none" THEN code ELSE [code EXCEPT ![i] = "host"]
  /\ arc' = [arc EXCEPT ![i] = "none"]
  /\ holder' = [holder EXCEPT ![i] = h]
  /\ call' = [call EXCEPT ![h] = "running"]
  /\ UNCHANGED <<shape, frame>>

(* The instances that the method has called have returned to it.           *)
Returns(h) ==
  /\ call[h] = "running"
  /\ \A i \in Items : holder[i] = h => call[i] = "idle"

(* The method returns nothing that owns anything, or its future is dropped.*)
ReturnPlain(h) ==
  /\ Returns(h)
  /\ call' = [call EXCEPT ![h] = "idle"]
  /\ UNCHANGED <<mapped, count, values, frame>>

(* A handle decodes an object to a handle, any other callee to an owned    *)
(* value; bytes are adopted without a module first.                        *)
Decoded(h, s) == IF arc[h] = "none"
                   THEN (IF s = "handle" THEN "owned" ELSE "raw") ELSE s

Arrive(h, S) == /\ call' = [call EXCEPT ![h] = "decode"]
                /\ frame' = [frame EXCEPT ![h] = S]

ReturnOne(h, j) ==
  /\ Returns(h)
  /\ \/ "bytes" \in Results /\ New(j, Decoded(h, "bytes"), code[h], "none", holder[h])
     \/ "object" \in Results /\ New(j, Decoded(h, "handle"), code[h], "none", holder[h])
     \/ "owned" \in Results /\ New(j, "owned", code[h], "none", holder[h])
  /\ Arrive(h, {j})
  /\ UNCHANGED <<mapped, count>>

ReturnPair(h, j, k) ==
  /\ Returns(h)
  /\ "pair" \in Results
  /\ j # k /\ Free(j) /\ Free(k)
  /\ shape' = [shape EXCEPT ![j] = "raw", ![k] = Decoded(h, "handle")]
  /\ code' = [code EXCEPT ![j] = code[h], ![k] = code[h]]
  /\ holder' = [holder EXCEPT ![j] = holder[h], ![k] = holder[h]]
  /\ Arrive(h, {j, k})
  /\ UNCHANGED <<mapped, count, arc>>

(* The instance returns a value that it kept.                              *)
ReturnKept(h, i) ==
  /\ Returns(h)
  /\ ~Free(i)
  /\ holder[i] = h
  /\ \/ "bytes" \in Results /\ shape[i] \in {"bytes", "raw"}
     \/ "owned" \in Results /\ shape[i] \in {"owned", "wrapper"}
  /\ DropArc(arc[i])
  /\ code' = IF arc[i] = "none" THEN code ELSE [code EXCEPT ![i] = "host"]
  /\ arc' = [arc EXCEPT ![i] = "none"]
  /\ holder' = [holder EXCEPT ![i] = holder[h]]
  /\ Arrive(h, {i})
  /\ UNCHANGED shape

(* What a module-backed handle makes retain its own module: the object of  *)
(* a result, and bytes that are the result.  The value of a pair is not    *)
(* passed to retain_module, and an owned trait value ignores it.           *)
Retaining_NoBytes(h) == {i \in frame[h] : shape[i] = "handle"}

Retaining(h) ==
  {i \in frame[h] : \/ shape[i] = "handle"
                    \/ shape[i] \in {"bytes", "raw"} /\ frame[h] = {i}}

Decode(h) ==
  /\ call[h] = "decode"
  /\ call' = [call EXCEPT ![h] = "idle"]
  /\ frame' = [frame EXCEPT ![h] = {}]
  /\ IF arc[h] # "none" /\ Retaining(h) # {}
       THEN /\ Retain(arc[h])
            /\ arc' = [i \in Items |-> IF i \in Retaining(h) THEN arc[h] ELSE arc[i]]
       ELSE UNCHANGED <<count, arc>>
  /\ UNCHANGED <<mapped, shape, code, holder>>

-----------------------------------------------------------------------------
(* Dropping a value: first its release or free callback, which drops what  *)
(* the instance keeps, then the fields, among them the module.             *)
BeginDrop_ArcFirst(i) ==
  /\ Usable(i)
  /\ call' = [call EXCEPT ![i] = "dying"]
  /\ DropArc(arc[i])
  /\ arc' = [arc EXCEPT ![i] = "none"]
  /\ UNCHANGED <<shape, code, holder, frame>>

BeginDrop(i) ==
  /\ Usable(i)
  /\ call' = [call EXCEPT ![i] = "dying"]
  /\ UNCHANGED <<mapped, count, values, frame>>

FinishDrop(i) ==
  /\ call[i] = "dying"
  /\ \A k \in Items : holder[k] # i
  /\ DropArc(arc[i])
  /\ shape' = [shape EXCEPT ![i] = "none"]
  /\ code' = [code EXCEPT ![i] = "host"]
  /\ arc' = [arc EXCEPT ![i] = "none"]
  /\ holder' = [holder EXCEPT ![i] = "host"]
  /\ call' = [call EXCEPT ![i] = "idle"]
  /\ UNCHANGED frame

-----------------------------------------------------------------------------
Create(i, j) == CloneArc(i, j) \/ LoadExport(i, j) \/ Wrap(i, j)

Return(h) == \/ ReturnPlain(h)
             \/ \E j \in Items : ReturnOne(h, j) \/ ReturnKept(h, j)
             \/ \E j, k \in Items : ReturnPair(h, j, k)

Next == \/ \E m \in Modules, i \in Items : Load(m, i)
        \/ \E i, j \in Items : Create(i, j) \/ InvokeWith(i, j)
        \/ \E i \in Items : \/ Invoke(i) \/ Return(i) \/ Decode(i)
                            \/ BeginDrop(i) \/ FinishDrop(i)

Spec == Init /\ [][Next]_vars

-----------------------------------------------------------------------------
Mapped(c) == c # "host" => mapped[c] = "loaded"

(* As long as a module, a handle or retained bytes exist, their callbacks  *)
(* and statics are in a mapped library, also while they are returned by a  *)
(* call or dropped, and wherever they have been moved (library.rs:126-127).*)
RetainedStayLoaded ==
  \A i \in Items : shape[i] \in {"module", "arc", "handle", "bytes"} => Mapped(code[i])

(* The strong count of a module is the number of values that hold it, and  *)
(* the library is mapped exactly as long as there are some: it is neither  *)
(* closed early nor kept by a count that nobody gives back.                *)
CountIsHolders ==
  \A m \in Modules :
    /\ count[m] = Cardinality({i \in Items : arc[i] = m})
    /\ mapped[m] = "loaded" <=> count[m] > 0

(* The parts of the inductive invariant.  A free slot is clean.            *)
Slots ==
  \A i \in Items : Free(i) => /\ code[i] = "host" /\ arc[i] = "none"
                             /\ holder[i] = "host" /\ call[i] = "idle"

(* A method runs on a callable value, and has results in its frame exactly *)
(* while it decodes them.                                                  *)
Frames ==
  \A h \in Items : /\ call[h] \in {"running", "decode"} => Callable(h)
                   /\ call[h] = "decode" <=> frame[h] # {}

(* A result in a frame belongs to that call alone, retains nothing yet,    *)
(* and is of the module that the callee retains.                           *)
Arrivals ==
  \A h \in Items : \A i \in frame[h] :
    /\ shape[i] \notin {"none", "module", "arc"} /\ call[i] = "idle" /\ arc[i] = "none"
    /\ holder[i] = holder[h]
    /\ \A g \in Items : i \in frame[g] => g = h
    /\ shape[i] = "handle" =>
         /\ arc[h] # "none" /\ code[i] = arc[h]
         /\ \A k \in frame[h] : shape[k] = "handle" => k = i
    /\ shape[i] = "bytes" =>
         /\ frame[h] = {i}
         /\ code[i] # "host" => arc[h] # "none" /\ code[i] = arc[h]

(* What a value retains, once its call has returned, is what it needs.     *)
Arcs ==
  \A i \in Items :
    /\ shape[i] \in {"owned", "wrapper"} => arc[i] = "none"
    /\ \/ shape[i] \in {"module", "arc"}
       \/ shape[i] = "handle" /\ ~Arriving(i)
       \/ shape[i] = "bytes" /\ ~Arriving(i) /\ code[i] # "host"
       => arc[i] # "none" /\ code[i] = arc[i]

IInv == TypeOK /\ Slots /\ Frames /\ Arrivals /\ Arcs /\ CountIsHolders

(* The callbacks of every value that a generated handle has decoded stay   *)
(* loaded (contract.rs:74-76, abi-design.md:250-252).                      *)
DecodedStayLoaded ==
  \A i \in Items : ~Free(i) => Mapped(code[i])

-----------------------------------------------------------------------------
(* ModuleLifetime implements SharedLibrary: the users of a library are the *)
(* values that retain its module.                                          *)
Libraries == INSTANCE SharedLibrary WITH
  Library <- Modules,
  User <- Items,
  state <- mapped,
  users <- [m \in Modules |-> {i \in Items : arc[i] = m}]

(* Whatever is called, moved, decoded or dropped, a library is opened for  *)
(* one Module, shared by a value that holds it, and closed by the drop of  *)
(* the last holder, never to be used again (library.rs:124-136).           *)
SharesLibraries == Libraries!Spec
=============================================================================
